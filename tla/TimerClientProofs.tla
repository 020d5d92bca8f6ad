------------------------- MODULE TimerClientProofs -------------------------
(***************************************************************************)
(* Theorems about the clients of a timer: the alarms that share one of its *)
(* alarms (TimerMux), for any number of alarms, any width of the time and  *)
(* any delays, and the pulse capture (PulseCapture), for any width of the  *)
(* counter and any latencies within half its period.  The two modules have *)
(* nothing in common but the timer; no theorem speaks of both.             *)
(***************************************************************************)
EXTENDS TimerMux, PulseCapture, SequenceTheorems, FiniteSetTheorems, WellFoundedInduction, TLAPS


\* No alarm is twice in a list.
Distinct(q) == \A i, j \in 1..Len(q) : q[i] = q[j] => i = j

\* Nor in two lists, nor waiting to be called back while it is called back.
Once ==
    /\ Distinct(alarms) /\ Distinct(fired)
    /\ \A a \in Alarms : ~(InList(a, fired) /\ InList(a, alarms))
    /\ ~InList(calling, fired)

\* The status of an alarm follows the list it is in.
StatusFollows ==
    /\ \A a \in Alarms : InList(a, alarms) => status[a] = "shared"
    /\ \A a \in Alarms : status[a] = "shared" => InList(a, alarms) \/ InList(a, fired)
    /\ ~RemoveFired => \A a \in Alarms : InList(a, fired) => status[a] = "shared"

\* The list is in the order of time to go.
SortedBy(q, s) ==
    \A i, j \in 1..Len(q) : i < j => Due(s[q[i]]) <= Due(s[q[j]])

\* What the handler is about to call back is due.
FiredDue == \A a \in Alarms : InList(a, fired) => Due(setting[a]) <= 0

\* While the shared alarm is shut down nothing runs and nobody waits.
Idle == ~enabled => ~InISR /\ \A a \in Alarms : status[a] = "user"

IInv ==
    /\ TypeOK
    /\ enabled => Once /\ StatusFollows /\ SortedBy(alarms, setting)
    /\ Idle
    /\ FiredDue
    /\ DedicatedTracksHead

-----------------------------------------------------------------------------
(* Numbers.                                                                *)

\* A set of naturals that is not empty has a least element.
LEMMA LeastOne ==
    ASSUME NEW T, T \subseteq Nat, T # {}
    PROVE  \E x \in T : \A y \in T : x <= y
<1> DEFINE R == {p \in Nat \X Nat : p[1] < p[2]}
<1>1. IsWellFoundedOn(R, Nat)
    BY NatLessThanWellFounded DEF OpToRel
<1> HIDE DEF R
<1>2. PICK x \in T : \A y \in T : ~(<<y, x>> \in R)
    BY <1>1, WFMin
<1>3. \A y, z \in Nat : y < z => <<y, z>> \in R
    BY DEF R
<1>4. ASSUME NEW y \in T PROVE x <= y
    <2>1. x \in Nat /\ y \in Nat /\ ~(y < x)
        BY <1>2, <1>3
    <2> QED BY <2>1
<1> QED BY <1>4

\* The distance of two times is a number, and is one less a tick later, as long
\* as it is not far in the past.
LEMMA DueFacts ==
    ASSUME now \in 0..(TimeMod - 1), NEW s \in 0..(TimeMod - 1)
    PROVE  /\ Due(s) \in Int
           /\ Due(s) > -MaxLate /\ now' = (now + 1) % TimeMod => Due(s)' = Due(s) - 1
<1> USE MuxAssumption
<1>1. \A x \in Int : -TimeMod <= x /\ x < TimeMod =>
          x % TimeMod = IF x < 0 THEN x + TimeMod ELSE x
    BY SMT
<1>2. (now + 1) % TimeMod = IF now = TimeMod - 1 THEN 0 ELSE now + 1
    BY SMT
<1>3. (s - now) % TimeMod = IF s < now THEN s - now + TimeMod ELSE s - now
    BY <1>1
<1>4. Due(s) = IF 2 * ((s - now) % TimeMod) >= TimeMod THEN ((s - now) % TimeMod) - TimeMod
               ELSE (s - now) % TimeMod
    BY DEF Due, Signed
<1>5. Due(s) \in Int
    BY <1>3, <1>4
<1>6. ASSUME Due(s) > -MaxLate, now' = (now + 1) % TimeMod
      PROVE  Due(s)' = Due(s) - 1
    <2>1. now' = IF now = TimeMod - 1 THEN 0 ELSE now + 1
        BY <1>2, <1>6
    <2>2. (s - now') % TimeMod = IF s < now' THEN s - now' + TimeMod ELSE s - now'
        BY <1>1, <2>1
    <2>3. Due(s)' = IF 2 * ((s - now') % TimeMod) >= TimeMod
                    THEN ((s - now') % TimeMod) - TimeMod ELSE (s - now') % TimeMod
        BY DEF Due, Signed
    <2> QED BY <1>3, <1>4, <1>6, <2>1, <2>2, <2>3
<1> QED BY <1>5, <1>6

-----------------------------------------------------------------------------
(* Lists.                                                                  *)

\* The first position at which a condition holds exists, if it holds behind
\* the end.
LEMMA FirstPosition ==
    ASSUME NEW n \in Nat, NEW C, C \subseteq 1..n
    PROVE  \E i \in 1..(n + 1) :
               /\ i <= n => i \in C
               /\ \A j \in 1..(i - 1) : j \notin C
<1>1. PICK i \in C \union {n + 1} : \A j \in C \union {n + 1} : i <= j
    BY LeastOne, n + 1 \in Nat, C \union {n + 1} \subseteq Nat
<1> WITNESS i \in 1..(n + 1)
<1>2. i <= n => i \in C
    BY <1>1
<1>3. ASSUME NEW j \in 1..(i - 1), j \in C PROVE FALSE
    BY <1>1, <1>3
<1> QED BY <1>2, <1>3

\* Where an alarm that is to go off at t is linked.
LEMMA PositionFacts ==
    ASSUME NEW q \in Seq(Alarms), NEW t
    PROVE  /\ Position(q, t) \in 1..(Len(q) + 1)
           /\ Position(q, t) <= Len(q) => Due(setting[q[Position(q, t)]]) > Due(t)
           /\ \A j \in 1..(Position(q, t) - 1) : ~(Due(setting[q[j]]) > Due(t))
<1> DEFINE C == {i \in 1..Len(q) : Due(setting[q[i]]) > Due(t)}
<1>1. Len(q) \in Nat /\ C \subseteq 1..Len(q)
    OBVIOUS
<1>2. \E i \in 1..(Len(q) + 1) : (i <= Len(q) => i \in C) /\ \A j \in 1..(i - 1) : j \notin C
    <2> HIDE DEF C
    <2> QED BY <1>1, FirstPosition
<1>3. PICK i \in 1..(Len(q) + 1) : (i <= Len(q) => i \in C) /\ \A j \in 1..(i - 1) : j \notin C
    BY <1>2
<1>4. i <= Len(q) => Due(setting[q[i]]) > Due(t)
    BY <1>3
<1>5. ASSUME NEW j \in 1..(i - 1) PROVE ~(Due(setting[q[j]]) > Due(t))
    <2>1. j \in 1..Len(q) /\ j \notin C
        <3> HIDE DEF C
        <3> QED BY <1>1, <1>3
    <2> QED BY <2>1, Zenon
<1> HIDE DEF C
<1>6. \E k \in 1..(Len(q) + 1) :
          /\ k <= Len(q) => Due(setting[q[k]]) > Due(t)
          /\ \A j \in 1..(k - 1) : ~(Due(setting[q[j]]) > Due(t))
    BY <1>4, <1>5, Zenon
<1> QED BY <1>6, Zenon DEF Position

\* Where the list is split.
LEMMA FirstNotDueFacts ==
    ASSUME NEW q \in Seq(Alarms)
    PROVE  /\ FirstNotDue(q) \in 1..(Len(q) + 1)
           /\ \A j \in 1..(FirstNotDue(q) - 1) : ~(0 < Due(setting[q[j]]))
<1> DEFINE C == {i \in 1..Len(q) : 0 < Due(setting[q[i]])}
<1>1. Len(q) \in Nat /\ C \subseteq 1..Len(q)
    OBVIOUS
<1>2. \E i \in 1..(Len(q) + 1) : (i <= Len(q) => i \in C) /\ \A j \in 1..(i - 1) : j \notin C
    <2> HIDE DEF C
    <2> QED BY <1>1, FirstPosition
<1>3. PICK i \in 1..(Len(q) + 1) : (i <= Len(q) => i \in C) /\ \A j \in 1..(i - 1) : j \notin C
    BY <1>2
<1>4. i <= Len(q) => 0 < Due(setting[q[i]])
    BY <1>3
<1>5. ASSUME NEW j \in 1..(i - 1) PROVE ~(0 < Due(setting[q[j]]))
    <2>1. j \in 1..Len(q) /\ j \notin C
        <3> HIDE DEF C
        <3> QED BY <1>1, <1>3
    <2> QED BY <2>1, Zenon
<1> HIDE DEF C
<1>6. \E k \in 1..(Len(q) + 1) :
          /\ k <= Len(q) => 0 < Due(setting[q[k]])
          /\ \A j \in 1..(k - 1) : ~(0 < Due(setting[q[j]]))
    BY <1>4, <1>5, Zenon
<1> QED BY <1>6, Zenon DEF FirstNotDue

\* A part of a list.
LEMMA PartFacts ==
    ASSUME NEW S, NEW q \in Seq(S), NEW m \in 1..(Len(q) + 1), NEW n \in 0..Len(q), m <= n + 1
    PROVE  /\ SubSeq(q, m, n) \in Seq(S)
           /\ Len(SubSeq(q, m, n)) = n - m + 1
           /\ \A i \in 1..(n - m + 1) : SubSeq(q, m, n)[i] = q[m + i - 1]
<1>1. Len(q) \in Nat /\ m \in Int /\ n \in Int
    OBVIOUS
<1>2. \A i \in m..n : q[i] \in S
    BY <1>1
<1>3. /\ SubSeq(q, m, n) \in Seq(S)
      /\ Len(SubSeq(q, m, n)) = IF m <= n THEN n - m + 1 ELSE 0
      /\ \A i \in 1..(n - m + 1) : SubSeq(q, m, n)[i] = q[m + i - 1]
    BY <1>1, <1>2, SubSeqProperties
<1> QED BY <1>1, <1>3

\* Linking an element shifts what follows.
LEMMA InsertFacts ==
    ASSUME NEW S, NEW q \in Seq(S), NEW a \in S, NEW p \in 1..(Len(q) + 1)
    PROVE  /\ InsertAt(q, p, a) \in Seq(S)
           /\ Len(InsertAt(q, p, a)) = Len(q) + 1
           /\ \A i \in 1..(Len(q) + 1) :
                  InsertAt(q, p, a)[i] = IF i < p THEN q[i] ELSE IF i = p THEN a ELSE q[i - 1]
<1> DEFINE u == SubSeq(q, 1, p - 1)
           v == SubSeq(q, p, Len(q))
           w == u \o <<a>>
<1>0. Len(q) \in Nat
    OBVIOUS
<1>1. u \in Seq(S) /\ Len(u) = p - 1 /\ \A i \in 1..(p - 1) : u[i] = q[i]
    BY <1>0, PartFacts
<1>2. v \in Seq(S) /\ Len(v) = Len(q) - p + 1 /\ \A i \in 1..(Len(q) - p + 1) : v[i] = q[p + i - 1]
    BY <1>0, PartFacts
<1>3. <<a>> \in Seq(S) /\ Len(<<a>>) = 1 /\ <<a>>[1] = a
    OBVIOUS
<1> HIDE DEF u, v
<1>4. w \in Seq(S) /\ Len(w) = p /\ \A i \in 1..p : w[i] = IF i < p THEN u[i] ELSE a
    <2>1. /\ w \in Seq(S)
          /\ Len(w) = Len(u) + 1
          /\ \A i \in 1..(Len(u) + 1) : w[i] = IF i <= Len(u) THEN u[i] ELSE <<a>>[i - Len(u)]
        BY <1>1, <1>3, ConcatProperties
    <2> QED BY <1>1, <1>3, <2>1
<1> HIDE DEF w
<1>5. /\ w \o v \in Seq(S)
      /\ Len(w \o v) = Len(w) + Len(v)
      /\ \A i \in 1..(Len(w) + Len(v)) : (w \o v)[i] = IF i <= Len(w) THEN w[i] ELSE v[i - Len(w)]
    BY <1>2, <1>4, ConcatProperties
<1>6. InsertAt(q, p, a) = w \o v
    BY DEF InsertAt, u, v, w
<1> QED BY <1>0, <1>1, <1>2, <1>4, <1>5, <1>6

\* Unlinking an element leaves the others, in their order.
LEMMA WithoutFacts ==
    ASSUME NEW S, NEW q \in Seq(S), NEW a, InList(a, q)
    PROVE  \E p \in 1..Len(q) :
               /\ q[p] = a
               /\ Without(q, a) \in Seq(S)
               /\ Len(Without(q, a)) = Len(q) - 1
               /\ \A i \in 1..(Len(q) - 1) :
                      Without(q, a)[i] = IF i < p THEN q[i] ELSE q[i + 1]
<1> DEFINE p == CHOOSE i \in 1..Len(q) : q[i] = a
           u == SubSeq(q, 1, p - 1)
           v == SubSeq(q, p + 1, Len(q))
<1>0. Len(q) \in Nat /\ p \in 1..Len(q) /\ q[p] = a
    BY DEF InList
<1>6. Without(q, a) = u \o v
    BY DEF Without
<1> HIDE DEF p
<1>1. u \in Seq(S) /\ Len(u) = p - 1 /\ \A i \in 1..(p - 1) : u[i] = q[i]
    BY <1>0, PartFacts
<1>2. v \in Seq(S) /\ Len(v) = Len(q) - p /\ \A i \in 1..(Len(q) - p) : v[i] = q[p + i]
    BY <1>0, PartFacts
<1> HIDE DEF u, v
<1>5. /\ u \o v \in Seq(S)
      /\ Len(u \o v) = Len(u) + Len(v)
      /\ \A i \in 1..(Len(u) + Len(v)) : (u \o v)[i] = IF i <= Len(u) THEN u[i] ELSE v[i - Len(u)]
    BY <1>1, <1>2, ConcatProperties
<1>7. /\ Without(q, a) \in Seq(S)
      /\ Len(Without(q, a)) = Len(q) - 1
      /\ \A i \in 1..(Len(q) - 1) :
             Without(q, a)[i] = IF i < p THEN q[i] ELSE q[i + 1]
    <2>1. Len(u) + Len(v) = Len(q) - 1
        BY <1>0, <1>1, <1>2
    <2>2. ASSUME NEW i \in 1..(Len(q) - 1)
          PROVE  (u \o v)[i] = IF i < p THEN q[i] ELSE q[i + 1]
        <3>1. (u \o v)[i] = IF i <= Len(u) THEN u[i] ELSE v[i - Len(u)]
            BY <1>5, <2>1
        <3>2. CASE i < p
            BY <3>1, <3>2, <1>0, <1>1
        <3>3. CASE ~(i < p)
            <4>1. i - Len(u) \in 1..(Len(q) - p) /\ p + (i - Len(u)) = i + 1
                BY <3>3, <1>0, <1>1
            <4>2. v[i - Len(u)] = q[i + 1]
                BY <4>1, <1>2
            <4> QED BY <3>1, <3>3, <4>2, <1>0, <1>1
        <3> QED BY <3>2, <3>3
    <2> QED BY <1>5, <1>6, <2>1, <2>2
<1> QED BY <1>0, <1>7

\* Linking an alarm that is not linked.
LEMMA InsertKeeps ==
    ASSUME TypeOK, NEW a \in Alarms, NEW t \in 0..(TimeMod - 1),
           Distinct(alarms), ~InList(a, alarms), SortedBy(alarms, setting)
    PROVE  LET q == InsertAt(alarms, Position(alarms, t), a) IN
           /\ q \in Seq(Alarms) /\ q # <<>>
           /\ Distinct(q)
           /\ \A b : InList(b, q) <=> b = a \/ InList(b, alarms)
           /\ SortedBy(q, [setting EXCEPT ![a] = t])
<1> DEFINE p == Position(alarms, t)
           q == InsertAt(alarms, p, a)
           n == Len(alarms)
           s == [setting EXCEPT ![a] = t]
<1>0. alarms \in Seq(Alarms) /\ n \in Nat /\ \A i \in 1..n : alarms[i] \in Alarms /\ alarms[i] # a
    BY DEF TypeOK, InList
<1>1. /\ p \in 1..(n + 1)
      /\ p <= n => Due(setting[alarms[p]]) > Due(t)
      /\ \A j \in 1..(p - 1) : ~(Due(setting[alarms[j]]) > Due(t))
    BY <1>0, PositionFacts
<1> HIDE DEF p
<1>2. /\ q \in Seq(Alarms) /\ Len(q) = n + 1
      /\ \A i \in 1..(n + 1) : q[i] = IF i < p THEN alarms[i] ELSE IF i = p THEN a ELSE alarms[i - 1]
    BY <1>0, <1>1, InsertFacts
<1> HIDE DEF q
<1>3. q # <<>>
    BY <1>0, <1>2
<1>4. Distinct(q)
    <2>1. \A i \in 1..(n + 1) : i # p =>
              \E k \in 1..n : k = (IF i < p THEN i ELSE i - 1) /\ q[i] = alarms[k]
        BY <1>0, <1>1, <1>2
    <2>2. \A i \in 1..(n + 1) : q[i] = a <=> i = p
        BY <2>1, <1>0, <1>1, <1>2
    <2>3. ASSUME NEW i \in 1..(n + 1), NEW j \in 1..(n + 1), q[i] = q[j]
          PROVE  i = j
        <3>1. CASE i = p
            BY <3>1, <2>2, <2>3
        <3>2. CASE i # p
            <4>1. j # p
                BY <3>2, <2>2, <2>3
            <4>2. PICK k \in 1..n : k = (IF i < p THEN i ELSE i - 1) /\ q[i] = alarms[k]
                BY <3>2, <2>1
            <4>3. PICK m \in 1..n : m = (IF j < p THEN j ELSE j - 1) /\ q[j] = alarms[m]
                BY <4>1, <2>1
            <4>4. k = m
                BY <4>2, <4>3, <2>3 DEF Distinct
            <4> QED BY <4>1, <4>2, <4>3, <4>4, <3>2, <1>0, <1>1
        <3> QED BY <3>1, <3>2
    <2> QED BY <2>3, <1>2 DEF Distinct
<1>5. ASSUME NEW b PROVE InList(b, q) <=> b = a \/ InList(b, alarms)
    <2>1. ASSUME NEW i \in 1..n PROVE \E j \in 1..(n + 1) : q[j] = alarms[i]
        <3>1. CASE i < p
            BY <3>1, <1>0, <1>2
        <3>2. CASE ~(i < p)
            <4>1. i + 1 \in 1..(n + 1) /\ q[i + 1] = alarms[i]
                BY <3>2, <1>0, <1>1, <1>2
            <4> QED BY <4>1
        <3> QED BY <3>1, <3>2
    <2>2. q[p] = a
        BY <1>0, <1>1, <1>2
    <2>3. InList(b, q) => b = a \/ InList(b, alarms)
        BY <1>0, <1>1, <1>2 DEF InList
    <2> QED BY <1>1, <1>2, <2>1, <2>2, <2>3 DEF InList
<1>6. SortedBy(q, s)
    <2>1. now \in 0..(TimeMod - 1) /\ setting \in [Alarms -> 0..(TimeMod - 1)]
        BY DEF TypeOK
    <2>2. ASSUME NEW b \in Alarms
          PROVE  Due(setting[b]) \in Int /\ s[b] = IF b = a THEN t ELSE setting[b]
        <3>1. setting[b] \in 0..(TimeMod - 1)
            BY <2>1
        <3>2. Due(setting[b]) \in Int
            BY <2>1, <3>1, DueFacts
        <3> QED BY <2>1, <3>2
    <2>3. Due(t) \in Int
        BY <2>1, DueFacts
    <2> HIDE DEF s
    <2>4. ASSUME NEW i \in 1..(n + 1), NEW j \in 1..(n + 1), i < j
          PROVE  Due(s[q[i]]) <= Due(s[q[j]])
        <3>1. CASE i # p /\ j # p
            <4>1. PICK k \in 1..n : k = IF i < p THEN i ELSE i - 1
                BY <3>1, <1>0, <1>1
            <4>2. PICK m \in 1..n : m = IF j < p THEN j ELSE j - 1
                BY <3>1, <2>4, <1>0, <1>1
            <4>3. k < m /\ q[i] = alarms[k] /\ q[j] = alarms[m]
                BY <3>1, <2>4, <4>1, <4>2, <1>0, <1>1, <1>2
            <4> QED BY <4>3, <2>2, <1>0 DEF SortedBy
        <3>2. CASE j = p
            <4>1. i \in 1..(p - 1) /\ i \in 1..n /\ q[i] = alarms[i] /\ q[j] = a
                BY <3>2, <2>4, <1>0, <1>1, <1>2
            <4>2. alarms[i] \in Alarms /\ alarms[i] # a
                BY <4>1, <1>0
            <4>3. s[q[i]] = setting[alarms[i]] /\ s[q[j]] = t /\ Due(setting[alarms[i]]) \in Int
                BY <4>1, <4>2, <2>2
            <4>4. ~(Due(setting[alarms[i]]) > Due(t))
                BY <4>1, <1>1
            <4> QED BY <4>3, <4>4, <2>3
        <3>3. CASE i = p
            <4>1. p \in 1..n /\ j - 1 \in 1..n /\ p <= j - 1 /\ q[i] = a /\ q[j] = alarms[j - 1]
                BY <3>3, <2>4, <1>0, <1>1, <1>2
            <4>2. Due(setting[alarms[p]]) <= Due(setting[alarms[j - 1]])
                <5>1. CASE p = j - 1
                    BY <5>1, <4>1, <1>0, <2>2
                <5>2. CASE p # j - 1
                    BY <5>2, <4>1, <1>1 DEF SortedBy
                <5> QED BY <5>1, <5>2
            <4>3. alarms[p] \in Alarms /\ alarms[j - 1] \in Alarms /\ alarms[j - 1] # a
                BY <4>1, <1>0
            <4>4. /\ s[q[i]] = t /\ s[q[j]] = setting[alarms[j - 1]]
                  /\ Due(setting[alarms[p]]) \in Int /\ Due(setting[alarms[j - 1]]) \in Int
                BY <4>1, <4>3, <2>2
            <4>5. Due(setting[alarms[p]]) > Due(t)
                BY <4>1, <1>1
            <4> QED BY <4>2, <4>4, <4>5, <2>3
        <3> QED BY <3>1, <3>2, <3>3
    <2> QED BY <2>4, <1>2 DEF SortedBy
<1> QED BY <1>2, <1>3, <1>4, <1>5, <1>6 DEF q, p

\* Unlinking an alarm.
LEMMA WithoutKeeps ==
    ASSUME TypeOK, NEW a \in Alarms, InList(a, alarms),
           Distinct(alarms), SortedBy(alarms, setting)
    PROVE  LET q == Without(alarms, a) IN
           /\ q \in Seq(Alarms)
           /\ Distinct(q)
           /\ \A b : InList(b, q) <=> b # a /\ InList(b, alarms)
           /\ SortedBy(q, [setting EXCEPT ![a] = 0])
<1> DEFINE q == Without(alarms, a)
           n == Len(alarms)
           s == [setting EXCEPT ![a] = 0]
<1>0. alarms \in Seq(Alarms) /\ n \in Nat /\ \A i \in 1..n : alarms[i] \in Alarms
    BY DEF TypeOK
<1>1. PICK p \in 1..n :
          /\ alarms[p] = a
          /\ q \in Seq(Alarms) /\ Len(q) = n - 1
          /\ \A i \in 1..(n - 1) : q[i] = IF i < p THEN alarms[i] ELSE alarms[i + 1]
    BY <1>0, WithoutFacts
<1> HIDE DEF q
<1>2. \A i \in 1..n : alarms[i] = a => i = p
    BY <1>1 DEF Distinct
<1>3. Distinct(q)
    <2>1. ASSUME NEW i \in 1..(n - 1), NEW j \in 1..(n - 1), q[i] = q[j]
          PROVE  i = j
        <3>1. PICK k \in 1..n : k = (IF i < p THEN i ELSE i + 1)
            BY <1>0, <1>1
        <3>2. PICK m \in 1..n : m = (IF j < p THEN j ELSE j + 1)
            BY <1>0, <1>1
        <3>3. alarms[k] = alarms[m]
            BY <2>1, <3>1, <3>2, <1>0, <1>1
        <3> QED BY <3>1, <3>2, <3>3, <1>0, <1>1 DEF Distinct
    <2> QED BY <2>1, <1>1 DEF Distinct
<1>4. ASSUME NEW b PROVE InList(b, q) <=> b # a /\ InList(b, alarms)
    <2>1. ASSUME NEW i \in 1..n, i # p PROVE \E j \in 1..(n - 1) : q[j] = alarms[i]
        <3>1. CASE i < p
            BY <3>1, <1>0, <1>1
        <3>2. CASE ~(i < p)
            <4>1. i - 1 \in 1..(n - 1) /\ q[i - 1] = alarms[i]
                BY <2>1, <3>2, <1>0, <1>1
            <4> QED BY <4>1
        <3> QED BY <3>1, <3>2
    <2>2. InList(b, q) => b # a /\ InList(b, alarms)
        <3> SUFFICES ASSUME NEW i \in 1..(n - 1), q[i] = b PROVE b # a /\ InList(b, alarms)
            BY <1>1 DEF InList
        <3>1. PICK k \in 1..n : k = (IF i < p THEN i ELSE i + 1) /\ k # p
            BY <1>0, <1>1
        <3>2. alarms[k] = b
            BY <3>1, <1>0, <1>1
        <3> QED BY <3>1, <3>2, <1>2 DEF InList
    <2> QED BY <1>1, <2>1, <2>2 DEF InList
<1>5. SortedBy(q, s)
    <2>1. \A b \in Alarms : b # a => s[b] = setting[b]
        BY DEF TypeOK
    <2> HIDE DEF s
    <2>2. ASSUME NEW i \in 1..(n - 1), NEW j \in 1..(n - 1), i < j
          PROVE  Due(s[q[i]]) <= Due(s[q[j]])
        <3>1. PICK k \in 1..n : k = (IF i < p THEN i ELSE i + 1)
            BY <1>0, <1>1
        <3>2. PICK m \in 1..n : m = (IF j < p THEN j ELSE j + 1)
            BY <1>0, <1>1
        <3>3. k < m /\ k # p /\ m # p /\ q[i] = alarms[k] /\ q[j] = alarms[m]
            BY <2>2, <3>1, <3>2, <1>0, <1>1
        <3> QED BY <3>3, <2>1, <1>0, <1>2 DEF SortedBy
    <2> QED BY <2>2, <1>1 DEF SortedBy
<1> QED BY <1>1, <1>3, <1>4, <1>5 DEF q

\* Splitting off what is due.
LEMMA SplitKeeps ==
    ASSUME TypeOK, Distinct(alarms), SortedBy(alarms, setting)
    PROVE  LET k == FirstNotDue(alarms)
               u == SubSeq(alarms, 1, k - 1)
               v == SubSeq(alarms, k, Len(alarms)) IN
           /\ u \in Seq(Alarms) /\ v \in Seq(Alarms)
           /\ Distinct(u) /\ Distinct(v)
           /\ \A b : ~(InList(b, u) /\ InList(b, v))
           /\ \A b : InList(b, alarms) <=> InList(b, u) \/ InList(b, v)
           /\ \A b : InList(b, u) => Due(setting[b]) <= 0
           /\ SortedBy(v, setting)
<1> DEFINE k == FirstNotDue(alarms)
           n == Len(alarms)
           u == SubSeq(alarms, 1, k - 1)
           v == SubSeq(alarms, k, n)
<1>0. /\ alarms \in Seq(Alarms) /\ n \in Nat /\ \A i \in 1..n : alarms[i] \in Alarms
      /\ now \in 0..(TimeMod - 1) /\ setting \in [Alarms -> 0..(TimeMod - 1)]
    BY DEF TypeOK
<1>1. k \in 1..(n + 1) /\ \A j \in 1..(k - 1) : ~(0 < Due(setting[alarms[j]]))
    BY <1>0, FirstNotDueFacts
<1> HIDE DEF k
<1>2. u \in Seq(Alarms) /\ Len(u) = k - 1 /\ \A i \in 1..(k - 1) : u[i] = alarms[i]
    BY <1>0, <1>1, PartFacts
<1>3. v \in Seq(Alarms) /\ Len(v) = n - k + 1 /\ \A i \in 1..(n - k + 1) : v[i] = alarms[k + i - 1]
    BY <1>0, <1>1, PartFacts
<1> HIDE DEF u, v
<1>4. /\ \A i \in 1..(k - 1) : i \in 1..n
      /\ \A i \in 1..(n - k + 1) : k + i - 1 \in 1..n
    BY <1>0, <1>1
<1>5. Distinct(u)
    BY <1>2, <1>4 DEF Distinct
<1>6. Distinct(v)
    <2>1. ASSUME NEW i \in 1..(n - k + 1), NEW j \in 1..(n - k + 1), v[i] = v[j]
          PROVE  i = j
        <3>1. k + i - 1 = k + j - 1
            BY <2>1, <1>3, <1>4 DEF Distinct
        <3> QED BY <3>1, <1>0, <1>1
    <2> QED BY <2>1, <1>3 DEF Distinct
<1>7. ASSUME NEW b, InList(b, u), InList(b, v) PROVE FALSE
    <2>1. PICK i \in 1..(k - 1) : alarms[i] = b
        BY <1>2, <1>7 DEF InList
    <2>2. PICK j \in 1..(n - k + 1) : alarms[k + j - 1] = b
        BY <1>3, <1>7 DEF InList
    <2>3. i = k + j - 1
        BY <1>4, <2>1, <2>2 DEF Distinct
    <2> QED BY <2>3, <1>0, <1>1
<1>8. ASSUME NEW b PROVE InList(b, alarms) <=> InList(b, u) \/ InList(b, v)
    <2>1. ASSUME NEW i \in 1..n, alarms[i] = b PROVE InList(b, u) \/ InList(b, v)
        <3>1. CASE i < k
            <4>1. i \in 1..(k - 1)
                BY <3>1, <1>0, <1>1
            <4> QED BY <4>1, <2>1, <1>2 DEF InList
        <3>2. CASE ~(i < k)
            <4>1. i - k + 1 \in 1..(n - k + 1) /\ k + (i - k + 1) - 1 = i
                BY <3>2, <1>0, <1>1
            <4>2. v[i - k + 1] = b
                BY <4>1, <2>1, <1>3
            <4> QED BY <4>1, <4>2, <1>3 DEF InList
        <3> QED BY <3>1, <3>2
    <2>2. InList(b, u) => InList(b, alarms)
        BY <1>2, <1>4 DEF InList
    <2>3. InList(b, v) => InList(b, alarms)
        BY <1>3, <1>4 DEF InList
    <2> QED BY <2>1, <2>2, <2>3 DEF InList
<1>9. ASSUME NEW b, InList(b, u) PROVE Due(setting[b]) <= 0
    <2>1. PICK i \in 1..(k - 1) : alarms[i] = b
        BY <1>2, <1>9 DEF InList
    <2>2. b \in Alarms /\ setting[b] \in 0..(TimeMod - 1)
        BY <2>1, <1>0, <1>4
    <2>3. Due(setting[b]) \in Int
        BY <2>2, <1>0, DueFacts
    <2> QED BY <2>1, <2>3, <1>1
<1>10. SortedBy(v, setting)
    <2>1. ASSUME NEW i \in 1..(n - k + 1), NEW j \in 1..(n - k + 1), i < j
          PROVE  Due(setting[v[i]]) <= Due(setting[v[j]])
        <3>1. k + i - 1 < k + j - 1
            BY <2>1, <1>0, <1>1
        <3> QED BY <3>1, <1>3, <1>4 DEF SortedBy
    <2> QED BY <2>1, <1>3 DEF SortedBy
<1> QED BY <1>2, <1>3, <1>5, <1>6, <1>7, <1>8, <1>9, <1>10 DEF u, v, k

-----------------------------------------------------------------------------
(* The steps keep the invariant.                                           *)

\* While time stands still the order and the distances are those of the new
\* lists and settings.
LEMMA Steady ==
    ASSUME now' = now
    PROVE  /\ SortedBy(alarms, setting)' <=> SortedBy(alarms', setting')
           /\ \A a : Due(setting[a])' = Due(setting'[a])
BY DEF SortedBy, Due, Signed

\* The shared alarm set for the head of the list.
LEMMA HeadIsSet ==
    ASSUME SetForHead(alarms', setting'), alarms' \in Seq(Alarms),
           setting' \in [Alarms -> 0..(TimeMod - 1)]
    PROVE  DedicatedTracksHead' /\ dset' \in BOOLEAN /\ dsetting' \in 0..(TimeMod - 1)
<1>1. alarms' # <<>> => Head(alarms') \in Alarms
    BY HeadTailProperties
<1>2. 0 \in 0..(TimeMod - 1)
    BY MuxAssumption
<1>3. dset' \in BOOLEAN /\ dsetting' \in 0..(TimeMod - 1)
    BY <1>1, <1>2 DEF SetForHead
<1> QED BY <1>3 DEF SetForHead, DedicatedTracksHead

\* The invariant holds at the start.
LEMMA InitHolds == Init => IInv
<1> SUFFICES ASSUME Init PROVE IInv
    OBVIOUS
<1>1. 0 \in 0..(TimeMod - 1) /\ <<>> \in Seq(Alarms) /\ Len(<<>>) = 0
    BY MuxAssumption
<1>2. TypeOK
    BY <1>1 DEF Init, TypeOK
<1>3. Idle /\ FiredDue /\ DedicatedTracksHead
    BY <1>1 DEF Init, Idle, FiredDue, DedicatedTracksHead, InISR, InList
<1> QED BY <1>2, <1>3 DEF IInv, Init

\* Adding an alarm, from the main program or from a callback.
LEMMA AddStep ==
    ASSUME IInv, NEW a \in Alarms, NEW d \in Delays, Add(a, d)
    PROVE  IInv'
<1> DEFINE t == (now + d) % TimeMod
           q == InsertAt(alarms, Position(alarms, t), a)
<1>0. /\ enabled /\ enabled' /\ now' = now /\ fired' = fired /\ calling' = calling
      /\ status[a] = "user" /\ ~InList(a, fired)
      /\ alarms' = q /\ setting' = [setting EXCEPT ![a] = t]
      /\ status' = [status EXCEPT ![a] = "shared"]
      /\ SetForHead(alarms', setting')
    BY DEF Add, SetForHead
<1>1. t \in 0..(TimeMod - 1)
    BY MuxAssumption DEF IInv, TypeOK
<1>2. ~InList(a, alarms)
    BY <1>0 DEF IInv, StatusFollows
<1> HIDE DEF t
<1>3. /\ q \in Seq(Alarms) /\ q # <<>> /\ Distinct(q)
      /\ \A b : InList(b, q) <=> b = a \/ InList(b, alarms)
      /\ SortedBy(q, [setting EXCEPT ![a] = t])
    BY <1>0, <1>1, <1>2, InsertKeeps DEF IInv, Once
<1> HIDE DEF q
<1>4. setting' \in [Alarms -> 0..(TimeMod - 1)] /\ alarms' \in Seq(Alarms)
    BY <1>0, <1>1, <1>3 DEF IInv, TypeOK
<1>5. DedicatedTracksHead' /\ dset' \in BOOLEAN /\ dsetting' \in 0..(TimeMod - 1)
    BY <1>0, <1>4, HeadIsSet
<1>6. TypeOK'
    BY <1>0, <1>4, <1>5 DEF IInv, TypeOK
<1>7. Once'
    BY <1>0, <1>3 DEF IInv, Once, Distinct, InList
<1>8. StatusFollows'
    BY <1>0, <1>3 DEF IInv, TypeOK, StatusFollows, InList
<1>9. SortedBy(alarms, setting)'
    BY <1>0, <1>3, Steady
<1>10. FiredDue'
    <2>1. ASSUME NEW b \in Alarms, InList(b, fired)' PROVE (Due(setting[b]) <= 0)'
        <3>1. InList(b, fired) /\ b # a
            BY <1>0, <2>1 DEF InList
        <3>2. setting'[b] = setting[b]
            BY <1>0, <3>1 DEF IInv, TypeOK
        <3> QED BY <1>0, <3>1, <3>2, Steady DEF IInv, FiredDue
    <2> QED BY <2>1 DEF FiredDue
<1> QED BY <1>0, <1>5, <1>6, <1>7, <1>8, <1>9, <1>10 DEF IInv, Idle

\* Removing an alarm, from the main program or from a callback; where callbacks
\* may do so also one that is about to be called back.
LEMMA RemoveStep ==
    ASSUME IInv, NEW a \in Alarms, Remove(a)
    PROVE  IInv'
<1>0. /\ enabled /\ enabled' /\ now' = now /\ fired' = fired /\ calling' = calling
      /\ status[a] = "shared"
      /\ alarms' = Without(alarms, a)
      /\ setting' = IF InList(a, fired) THEN setting ELSE [setting EXCEPT ![a] = 0]
      /\ status' = [status EXCEPT ![a] = "user"]
      /\ SetForHead(alarms', setting)
    BY DEF Remove, SetForHead
<1>9. RemoveFired \/ ~InList(a, fired)
    BY DEF Remove
<1>1. /\ alarms' \in Seq(Alarms) /\ Distinct(alarms')
      /\ \A b : InList(b, alarms') <=> b # a /\ InList(b, alarms)
      /\ SortedBy(alarms', setting')
    <2>1. CASE InList(a, alarms)
        <3>1. ~InList(a, fired)
            BY <1>0, <2>1 DEF IInv, Once
        <3>2. setting' = [setting EXCEPT ![a] = 0]
            BY <1>0, <3>1
        <3> QED BY <1>0, <2>1, <3>2, WithoutKeeps DEF IInv, Once
    <2>2. CASE ~InList(a, alarms)
        <3>1. InList(a, fired) /\ alarms' = alarms
            BY <1>0, <2>2 DEF IInv, StatusFollows, Without
        <3>2. setting' = setting
            BY <1>0, <3>1
        <3> QED BY <1>0, <2>2, <3>1, <3>2 DEF IInv, TypeOK, Once
    <2> QED BY <2>1, <2>2
<1>2. setting' \in [Alarms -> 0..(TimeMod - 1)]
    <2>1. 0 \in 0..(TimeMod - 1)
        BY MuxAssumption
    <2> QED BY <1>0, <2>1 DEF IInv, TypeOK
<1>3. DedicatedTracksHead' /\ dset' \in BOOLEAN /\ dsetting' \in 0..(TimeMod - 1)
    <2>1. ASSUME alarms' # <<>> PROVE setting'[Head(alarms')] = setting[Head(alarms')]
        <3>1. Head(alarms') = alarms'[1] /\ 1 \in 1..Len(alarms') /\ Head(alarms') \in Alarms
            BY <1>1, <2>1
        <3>2. Head(alarms') # a
            BY <1>1, <3>1 DEF InList
        <3> QED BY <1>0, <3>1, <3>2 DEF IInv, TypeOK
    <2>2. SetForHead(alarms', setting')
        BY <1>0, <2>1 DEF SetForHead
    <2> QED BY <1>1, <1>2, <2>2, HeadIsSet
<1>4. TypeOK'
    BY <1>0, <1>1, <1>2, <1>3 DEF IInv, TypeOK
<1>5. Once'
    BY <1>0, <1>1 DEF IInv, Once, Distinct, InList
<1>6. StatusFollows'
    BY <1>0, <1>1, <1>9 DEF IInv, TypeOK, StatusFollows, InList
<1>7. SortedBy(alarms, setting)'
    BY <1>0, <1>1, Steady
<1>8. FiredDue'
    <2>1. ASSUME NEW b \in Alarms, InList(b, fired)' PROVE (Due(setting[b]) <= 0)'
        <3>1. InList(b, fired)
            BY <1>0, <2>1 DEF InList
        <3>2. setting'[b] = setting[b]
            BY <1>0, <3>1 DEF IInv, TypeOK
        <3> QED BY <1>0, <3>1, <3>2, Steady DEF IInv, FiredDue
    <2> QED BY <2>1 DEF FiredDue
<1> QED BY <1>0, <1>3, <1>4, <1>5, <1>6, <1>7, <1>8 DEF IInv, Idle

\* The shared alarm goes off: the list is split.
LEMMA FiresStep ==
    ASSUME IInv, DedicatedFires
    PROVE  IInv'
<1> DEFINE u == SubSeq(alarms, 1, FirstNotDue(alarms) - 1)
           v == SubSeq(alarms, FirstNotDue(alarms), Len(alarms))
<1>0. /\ enabled /\ enabled' /\ now' = now /\ calling' = calling /\ calling = Null
      /\ fired = <<>> /\ fired' = u /\ alarms' = v
      /\ setting' = setting /\ status' = status
      /\ SetForHead(alarms', setting')
    BY DEF DedicatedFires, SetForHead, InISR
<1>1. /\ u \in Seq(Alarms) /\ v \in Seq(Alarms)
      /\ Distinct(u) /\ Distinct(v)
      /\ \A b : ~(InList(b, u) /\ InList(b, v))
      /\ \A b : InList(b, alarms) <=> InList(b, u) \/ InList(b, v)
      /\ \A b : InList(b, u) => Due(setting[b]) <= 0
      /\ SortedBy(v, setting)
    BY <1>0, SplitKeeps DEF IInv, Once
<1> HIDE DEF u, v
<1>2. setting' \in [Alarms -> 0..(TimeMod - 1)] /\ alarms' \in Seq(Alarms)
    BY <1>0, <1>1 DEF IInv, TypeOK
<1>3. DedicatedTracksHead' /\ dset' \in BOOLEAN /\ dsetting' \in 0..(TimeMod - 1)
    BY <1>0, <1>2, HeadIsSet
<1>4. TypeOK'
    BY <1>0, <1>1, <1>2, <1>3 DEF IInv, TypeOK
<1>5. ~InList(Null, u)
    <2>1. \A i \in 1..Len(u) : u[i] \in Alarms
        BY <1>1
    <2> QED BY <2>1, MuxAssumption DEF InList
<1>6. Once'
    BY <1>0, <1>1, <1>5 DEF Once, Distinct, InList
<1>7. ~InList(calling, fired) /\ \A a \in Alarms : ~InList(a, fired)
    <2>1. Len(<<>>) = 0
        OBVIOUS
    <2> QED BY <1>0, <2>1 DEF InList
<1>8. StatusFollows'
    BY <1>0, <1>1, <1>7 DEF IInv, StatusFollows, InList
<1>9. SortedBy(alarms, setting)'
    BY <1>0, <1>1, Steady
<1>10. FiredDue'
    <2>1. ASSUME NEW b \in Alarms, InList(b, fired)' PROVE (Due(setting[b]) <= 0)'
        <3>1. InList(b, u)
            BY <1>0, <2>1 DEF InList
        <3> QED BY <1>0, <1>1, <3>1, Steady
    <2> QED BY <2>1 DEF FiredDue
<1> QED BY <1>0, <1>3, <1>4, <1>6, <1>8, <1>9, <1>10 DEF IInv, Idle

\* The next alarm is unlinked and called back.
LEMMA NotifyStep ==
    ASSUME IInv, Notify
    PROVE  IInv'
<1>0. /\ calling = Null /\ fired # <<>> /\ now' = now
      /\ calling' = Head(fired) /\ fired' = Tail(fired)
      /\ status' = [status EXCEPT ![Head(fired)] = "user"]
      /\ enabled' = enabled /\ dset' = dset /\ dsetting' = dsetting
      /\ alarms' = alarms /\ setting' = setting
    BY DEF Notify, dedicated
<1>1. enabled
    BY <1>0 DEF IInv, Idle, InISR
<1>2. /\ fired \in Seq(Alarms) /\ Head(fired) \in Alarms /\ Head(fired) = fired[1]
      /\ Len(fired) \in Nat /\ 1 \in 1..Len(fired)
      /\ Tail(fired) \in Seq(Alarms) /\ Len(Tail(fired)) = Len(fired) - 1
      /\ \A i \in 1..(Len(fired) - 1) : i + 1 \in 1..Len(fired) /\ Tail(fired)[i] = fired[i + 1]
    <2>1. fired \in Seq(Alarms)
        BY DEF IInv, TypeOK
    <2>2. /\ Head(fired) \in Alarms
          /\ Tail(fired) \in Seq(Alarms) /\ Len(Tail(fired)) = Len(fired) - 1
          /\ \A i \in 1..Len(Tail(fired)) : Tail(fired)[i] = fired[i + 1]
        BY <1>0, <2>1, HeadTailProperties
    <2>3. Len(fired) \in Nat /\ Len(fired) # 0
        BY <1>0, <2>1
    <2> QED BY <2>1, <2>2, <2>3 DEF Head
<1>3. /\ InList(Head(fired), fired)
      /\ \A b : InList(b, Tail(fired)) <=> b # Head(fired) /\ InList(b, fired)
    <2>1. InList(Head(fired), fired)
        BY <1>2 DEF InList
    <2>2. ASSUME NEW b, InList(b, Tail(fired)) PROVE b # Head(fired) /\ InList(b, fired)
        <3>1. PICK i \in 1..(Len(fired) - 1) : Tail(fired)[i] = b
            BY <1>2, <2>2 DEF InList
        <3>2. i + 1 \in 1..Len(fired) /\ fired[i + 1] = b /\ i + 1 # 1
            BY <3>1, <1>2
        <3> QED BY <3>2, <1>1, <1>2 DEF IInv, Once, Distinct, InList
    <2>3. ASSUME NEW b, b # Head(fired), InList(b, fired) PROVE InList(b, Tail(fired))
        <3>1. PICK i \in 1..Len(fired) : fired[i] = b
            BY <2>3 DEF InList
        <3>2. i - 1 \in 1..(Len(fired) - 1) /\ i - 1 + 1 = i
            BY <3>1, <2>3, <1>2
        <3>3. Tail(fired)[i - 1] = b
            BY <3>1, <3>2, <1>2
        <3> QED BY <3>2, <3>3, <1>2 DEF InList
    <2> QED BY <2>1, <2>2, <2>3
<1>4. Distinct(Tail(fired))
    <2>1. ASSUME NEW i \in 1..(Len(fired) - 1), NEW j \in 1..(Len(fired) - 1),
                 Tail(fired)[i] = Tail(fired)[j]
          PROVE  i = j
        <3>1. i + 1 = j + 1
            BY <2>1, <1>1, <1>2 DEF IInv, Once, Distinct
        <3> QED BY <3>1
    <2> QED BY <2>1, <1>2 DEF Distinct
<1>5. TypeOK'
    BY <1>0, <1>2 DEF IInv, TypeOK
<1>6. Once'
    BY <1>0, <1>1, <1>3, <1>4 DEF IInv, Once, Distinct, InList
<1>7. StatusFollows'
    <2>1. \A b \in Alarms : status'[b] = IF b = Head(fired) THEN "user" ELSE status[b]
        BY <1>0, <1>2 DEF IInv, TypeOK
    <2>2. ~InList(Head(fired), alarms)
        BY <1>1, <1>2, <1>3 DEF IInv, Once
    <2>3. /\ \A b : InList(b, alarms)' <=> InList(b, alarms)
          /\ \A b : InList(b, fired)' <=> InList(b, Tail(fired))
        BY <1>0 DEF InList
    <2> QED BY <1>1, <1>3, <2>1, <2>2, <2>3 DEF IInv, StatusFollows
<1>8. SortedBy(alarms, setting)'
    BY <1>0, <1>1, Steady DEF IInv
<1>9. FiredDue'
    <2>1. ASSUME NEW b \in Alarms, InList(b, fired)' PROVE (Due(setting[b]) <= 0)'
        <3>1. InList(b, fired)
            BY <1>0, <1>3, <2>1 DEF InList
        <3> QED BY <1>0, <3>1, Steady DEF IInv, FiredDue
    <2> QED BY <2>1 DEF FiredDue
<1>10. DedicatedTracksHead'
    BY <1>0 DEF IInv, DedicatedTracksHead
<1> QED BY <1>0, <1>1, <1>5, <1>6, <1>7, <1>8, <1>9, <1>10 DEF IInv, Idle

\* A callback returns.
LEMMA CallbackReturnsStep ==
    ASSUME IInv, CallbackReturns
    PROVE  IInv'
<1>0. /\ calling # Null /\ calling' = Null /\ now' = now
      /\ setting' = IF status[calling] = "user"
                    THEN [setting EXCEPT ![calling] = 0] ELSE setting
      /\ enabled' = enabled /\ dset' = dset /\ dsetting' = dsetting
      /\ alarms' = alarms /\ fired' = fired /\ status' = status
    BY DEF CallbackReturns, dedicated
<1>1. enabled /\ calling \in Alarms
    BY <1>0 DEF IInv, Idle, InISR, TypeOK
<1>2. \A b \in Alarms : InList(b, alarms) \/ InList(b, fired) => setting'[b] = setting[b]
    <2>1. CASE status[calling] = "user"
        <3>1. ~InList(calling, alarms) /\ ~InList(calling, fired)
            BY <1>1, <2>1 DEF IInv, Once, StatusFollows
        <3> QED BY <1>0, <2>1, <3>1 DEF IInv, TypeOK
    <2>2. CASE status[calling] # "user"
        BY <1>0, <2>2
    <2> QED BY <2>1, <2>2
<1>3. /\ alarms \in Seq(Alarms) /\ fired \in Seq(Alarms)
      /\ \A i \in 1..Len(alarms) : alarms[i] \in Alarms /\ InList(alarms[i], alarms)
    BY DEF IInv, TypeOK, InList
<1>4. TypeOK'
    <2>1. 0 \in 0..(TimeMod - 1)
        BY MuxAssumption
    <2>2. setting' \in [Alarms -> 0..(TimeMod - 1)]
        BY <1>0, <2>1 DEF IInv, TypeOK
    <2> QED BY <1>0, <2>2 DEF IInv, TypeOK
<1>5. Once'
    <2>1. ~InList(Null, fired)
        <3>1. \A i \in 1..Len(fired) : fired[i] \in Alarms
            BY <1>3
        <3> QED BY <3>1, MuxAssumption DEF InList
    <2> QED BY <1>0, <1>1, <2>1 DEF IInv, Once, Distinct, InList
<1>6. StatusFollows'
    <2>1. \A b : (InList(b, alarms)' <=> InList(b, alarms)) /\ (InList(b, fired)' <=> InList(b, fired))
        BY <1>0 DEF InList
    <2> QED BY <1>0, <1>1, <2>1 DEF IInv, StatusFollows
<1>7. SortedBy(alarms, setting)'
    <2>1. SortedBy(alarms', setting')
        BY <1>0, <1>1, <1>2, <1>3 DEF IInv, SortedBy
    <2> QED BY <1>0, <2>1, Steady
<1>8. FiredDue'
    <2>1. ASSUME NEW b \in Alarms, InList(b, fired)' PROVE (Due(setting[b]) <= 0)'
        <3>1. InList(b, fired)
            BY <1>0, <2>1 DEF InList
        <3> QED BY <1>0, <1>2, <3>1, Steady DEF IInv, FiredDue
    <2> QED BY <2>1 DEF FiredDue
<1>9. DedicatedTracksHead'
    <2>1. alarms # <<>> => Head(alarms) = alarms[1] /\ 1 \in 1..Len(alarms)
        BY <1>3
    <2> QED BY <1>0, <1>1, <1>2, <1>3, <2>1 DEF IInv, DedicatedTracksHead
<1> QED BY <1>0, <1>1, <1>4, <1>5, <1>6, <1>7, <1>8, <1>9 DEF IInv, Idle

\* Starting the shared alarm up and shutting it down.
LEMMA StartupShutdownStep ==
    ASSUME IInv, Startup \/ Shutdown
    PROVE  IInv'
<1>0. /\ ~InISR /\ fired = <<>> /\ calling = Null
      /\ now' = now /\ fired' = fired /\ calling' = calling
      /\ dset' = FALSE /\ dsetting' = 0
    BY DEF Startup, Shutdown, InISR
<1>1. 0 \in 0..(TimeMod - 1) /\ <<>> \in Seq(Alarms) /\ Len(<<>>) = 0
    BY MuxAssumption
<1>2. \A b : ~InList(b, fired) /\ ~InList(b, fired')
    BY <1>0, <1>1 DEF InList
<1>3. FiredDue'
    BY <1>2 DEF FiredDue, InList
<1>4. CASE Startup
    <2>1. /\ ~enabled /\ enabled' = TRUE /\ alarms' = <<>>
          /\ setting' = setting /\ status' = status
        BY <1>4 DEF Startup
    <2>2. TypeOK'
        BY <1>0, <1>1, <2>1 DEF IInv, TypeOK
    <2>3. \A a \in Alarms : status[a] = "user"
        BY <2>1 DEF IInv, Idle
    <2>4. Once' /\ StatusFollows' /\ SortedBy(alarms, setting)'
        <3>1. \A b : ~InList(b, alarms')
            BY <1>1, <2>1 DEF InList
        <3>2. Once'
            BY <1>0, <1>1, <1>2, <2>1 DEF Once, Distinct, InList
        <3>3. StatusFollows'
            BY <1>2, <2>1, <2>3, <3>1 DEF StatusFollows, InList
        <3>4. SortedBy(alarms, setting)'
            BY <1>1, <2>1 DEF SortedBy
        <3> QED BY <3>2, <3>3, <3>4
    <2> QED BY <1>0, <1>3, <2>1, <2>2, <2>4 DEF IInv, Idle, DedicatedTracksHead
<1>5. CASE Shutdown
    <2>1. /\ enabled' = FALSE /\ alarms' = alarms
          /\ setting' = [a \in Alarms |-> 0] /\ status' = [a \in Alarms |-> "user"]
        BY <1>5 DEF Shutdown
    <2>2. TypeOK'
        BY <1>0, <1>1, <2>1 DEF IInv, TypeOK
    <2>3. ~InISR'
        BY <1>0 DEF InISR
    <2>4. Idle'
        BY <2>1, <2>3 DEF Idle
    <2> QED BY <1>3, <2>1, <2>2, <2>4 DEF IInv, DedicatedTracksHead
<1> QED BY <1>4, <1>5

\* Time passes: all distances shrink together.
LEMMA TickStep ==
    ASSUME IInv, Tick
    PROVE  IInv'
<1>0. /\ \A a \in Alarms :
             status[a] = "shared" \/ InList(a, fired) => Due(setting[a]) > -MaxLate
      /\ now' = (now + 1) % TimeMod
      /\ enabled' = enabled /\ dset' = dset /\ dsetting' = dsetting
      /\ alarms' = alarms /\ setting' = setting /\ fired' = fired
      /\ calling' = calling /\ status' = status
    BY DEF Tick, dedicated
<1>1. /\ now \in 0..(TimeMod - 1) /\ setting \in [Alarms -> 0..(TimeMod - 1)]
      /\ alarms \in Seq(Alarms)
      /\ \A i \in 1..Len(alarms) : alarms[i] \in Alarms /\ InList(alarms[i], alarms)
    BY DEF IInv, TypeOK, InList
<1>2. ASSUME NEW a \in Alarms, Due(setting[a]) > -MaxLate
      PROVE  Due(setting[a]) \in Int /\ Due(setting[a])' = Due(setting[a]) - 1
    <2>1. PICK s \in 0..(TimeMod - 1) : s = setting[a]
        BY <1>1
    <2>2. Due(s) = Due(setting[a])
        BY <2>1
    <2>3. Due(s) \in Int /\ Due(s)' = Due(s) - 1
        BY <1>0, <1>1, <1>2, <2>2, DueFacts
    <2>4. Due(setting[a])' = Due(s)'
        BY <1>0, <2>1 DEF Due, Signed
    <2> QED BY <2>2, <2>3, <2>4
<1>3. TypeOK'
    <2>1. (now + 1) % TimeMod \in 0..(TimeMod - 1)
        BY <1>1, MuxAssumption
    <2> QED BY <1>0, <2>1 DEF IInv, TypeOK
<1>4. /\ Once' <=> Once
      /\ StatusFollows' <=> StatusFollows
      /\ Idle' <=> Idle
      /\ DedicatedTracksHead' <=> DedicatedTracksHead
    BY <1>0 DEF Once, Distinct, InList, StatusFollows, Idle, InISR, DedicatedTracksHead
<1>5. ASSUME enabled PROVE SortedBy(alarms, setting)'
    <2>1. ASSUME NEW i \in 1..Len(alarms)
          PROVE  /\ Due(setting[alarms[i]]) \in Int
                 /\ Due(setting[alarms[i]])' = Due(setting[alarms[i]]) - 1
        <3>1. alarms[i] \in Alarms /\ status[alarms[i]] = "shared"
            BY <1>1, <1>5 DEF IInv, StatusFollows
        <3> QED BY <1>0, <1>2, <3>1
    <2> QED BY <1>0, <1>5, <2>1 DEF IInv, SortedBy
<1>6. FiredDue'
    <2>1. ASSUME NEW b \in Alarms, InList(b, fired)' PROVE (Due(setting[b]) <= 0)'
        <3>1. InList(b, fired)
            BY <1>0, <2>1 DEF InList
        <3>2. Due(setting[b]) \in Int /\ Due(setting[b])' = Due(setting[b]) - 1
            BY <1>0, <1>2, <3>1
        <3>3. Due(setting[b]) <= 0
            BY <3>1 DEF IInv, FiredDue
        <3> QED BY <3>2, <3>3
    <2> QED BY <2>1 DEF FiredDue
<1> QED BY <1>0, <1>3, <1>4, <1>5, <1>6 DEF IInv

\* The invariant holds always.
LEMMA Invariance == Spec => []IInv
<1>1. ASSUME IInv, [Next]_vars PROVE IInv'
    <2>1. CASE UserCalls
        BY <1>1, <2>1, AddStep, RemoveStep DEF UserCalls
    <2>2. CASE DedicatedFires
        BY <1>1, <2>2, FiresStep
    <2>3. CASE Notify
        BY <1>1, <2>3, NotifyStep
    <2>4. CASE CallbackReturns
        BY <1>1, <2>4, CallbackReturnsStep
    <2>5. CASE Startup \/ Shutdown
        BY <1>1, <2>5, StartupShutdownStep
    <2>6. CASE Tick
        BY <1>1, <2>6, TickStep
    <2>7. CASE UNCHANGED vars
        BY <1>1, <2>7 DEF vars, dedicated, IInv, TypeOK, Once, Distinct, InList, StatusFollows,
            SortedBy, Due, Signed, Idle, InISR, FiredDue, DedicatedTracksHead
    <2> QED BY <1>1, <2>1, <2>2, <2>3, <2>4, <2>5, <2>6, <2>7 DEF Next
<1> QED BY <1>1, InitHolds, PTL DEF Spec

-----------------------------------------------------------------------------
(* The theorems.                                                           *)

\* The dedicated alarm is always set for the head of the list, whatever the
\* main program and the callbacks add and remove.
THEOREM HeadIsWaitedFor == Spec => []DedicatedTracksHead
<1>1. IInv => DedicatedTracksHead
    BY DEF IInv
<1> QED BY <1>1, Invariance, PTL

\* No callback runs before its alarm's time, although the dedicated alarm goes
\* off up to FutureLimit early.
THEOREM NoneEarly == Spec => [][Notify => Due(setting[Head(fired)]) <= 0]_vars
<1>1. ASSUME IInv, Notify PROVE Due(setting[Head(fired)]) <= 0
    <2>1. fired \in Seq(Alarms) /\ fired # <<>>
        BY <1>1 DEF IInv, TypeOK, Notify
    <2>2. Head(fired) = fired[1] /\ 1 \in 1..Len(fired) /\ Head(fired) \in Alarms
        BY <2>1
    <2> QED BY <1>1, <2>2 DEF IInv, FiredDue, InList
<1>2. IInv /\ [Next]_vars => [Notify => Due(setting[Head(fired)]) <= 0]_vars
    BY <1>1
<1> QED BY <1>2, Invariance, PTL DEF Spec

\* What each step is to the user of one alarm.
LEMMA VirtualSteps ==
    ASSUME NEW a \in Alarms
    PROVE  /\ /\ status[a] # "shared" /\ status'[a] = "shared" /\ Due(setting[a])' \in Int
              /\ calling' = calling
              => Virtual(a)!Set
           /\ /\ status[a] = "shared" /\ status'[a] # "shared" /\ calling' = calling
              => Virtual(a)!Cancel
           /\ /\ status[a] = "shared" /\ status'[a] = "shared"
              /\ Due(setting[a])' = Due(setting[a]) - 1 /\ calling' = calling
              => Virtual(a)!Tick
           /\ /\ status[a] = "shared" /\ status'[a] # "shared" /\ Due(setting[a]) < 1
              /\ calling' = a
              => Virtual(a)!Fire
           /\ /\ status'[a] = status[a] /\ calling = a /\ calling' # a
              /\ status[a] = "shared" => Due(setting[a])' = Due(setting[a])
              => Virtual(a)!Return
           /\ /\ status'[a] = status[a] /\ (calling' = a <=> calling = a)
              /\ status[a] = "shared" => Due(setting[a])' = Due(setting[a])
              => UNCHANGED Virtual(a)!alarmVars
BY DEF Virtual!Set, Virtual!Cancel, Virtual!Tick, Virtual!Fire, Virtual!Return, Virtual!alarmVars

\* At the start no alarm is set.
LEMMA InitIsVirtual ==
    ASSUME Init, NEW a \in Alarms
    PROVE  Virtual(a)!Init
<1>1. status[a] # "shared" /\ calling # a
    BY MuxAssumption DEF Init
<1> QED BY <1>1 DEF Virtual!Init

\* Every step of the multiplexer is, to the user of any one alarm, a step of an
\* alarm of its own, or none.
LEMMA StepIsVirtual ==
    ASSUME ~RemoveFired, IInv, [Next]_vars, NEW a \in Alarms
    PROVE  [Virtual(a)!Next]_(Virtual(a)!alarmVars)
<1>1. /\ now \in 0..(TimeMod - 1) /\ setting \in [Alarms -> 0..(TimeMod - 1)]
      /\ status \in [Alarms -> {"user", "shared"}]
      /\ alarms \in Seq(Alarms) /\ fired \in Seq(Alarms)
      /\ calling \in Alarms \cup {Null} /\ Null # a
    BY MuxAssumption DEF IInv, TypeOK
<1>2. now' = now => \A b : Due(setting[b])' = Due(setting'[b])
    BY Steady
<1>3. ASSUME NEW b \in Alarms, NEW d \in Delays, Add(b, d)
      PROVE  [Virtual(a)!Next]_(Virtual(a)!alarmVars)
    <2> DEFINE t == (now + d) % TimeMod
    <2>1. /\ now' = now /\ calling' = calling /\ status[b] = "user"
          /\ setting' = [setting EXCEPT ![b] = t]
          /\ status' = [status EXCEPT ![b] = "shared"]
        BY <1>3 DEF Add
    <2>2. t \in 0..(TimeMod - 1)
        BY <1>1, MuxAssumption
    <2> HIDE DEF t
    <2>3. CASE a = b
        <3>1. Due(t) \in Int /\ Due(setting[a])' = Due(t)
            BY <1>1, <1>2, <2>1, <2>2, <2>3, DueFacts
        <3> QED BY <1>1, <2>1, <2>3, <3>1, VirtualSteps DEF Virtual!Next
    <2>4. CASE a # b
        <3>1. status'[a] = status[a] /\ Due(setting[a])' = Due(setting[a])
            BY <1>1, <1>2, <2>1, <2>4
        <3> QED BY <2>1, <3>1, VirtualSteps
    <2> QED BY <2>3, <2>4
<1>4. ASSUME NEW b \in Alarms, Remove(b)
      PROVE  [Virtual(a)!Next]_(Virtual(a)!alarmVars)
    <2>1. /\ now' = now /\ calling' = calling /\ status[b] = "shared"
          /\ setting' = [setting EXCEPT ![b] = 0]
          /\ status' = [status EXCEPT ![b] = "user"]
        BY <1>4 DEF Remove
    <2>2. CASE a = b
        BY <1>1, <2>1, <2>2, VirtualSteps DEF Virtual!Next
    <2>3. CASE a # b
        <3>1. status'[a] = status[a] /\ Due(setting[a])' = Due(setting[a])
            BY <1>1, <1>2, <2>1, <2>3
        <3> QED BY <2>1, <3>1, VirtualSteps
    <2> QED BY <2>2, <2>3
<1>5. CASE Notify
    <2>1. /\ calling = Null /\ fired # <<>> /\ calling' = Head(fired)
          /\ now' = now /\ setting' = setting
          /\ status' = [status EXCEPT ![Head(fired)] = "user"]
        BY <1>5 DEF Notify
    <2>2. Head(fired) = fired[1] /\ 1 \in 1..Len(fired) /\ Head(fired) \in Alarms
        BY <1>1, <2>1
    <2>3. InList(Head(fired), fired) /\ enabled
        BY <2>1, <2>2 DEF InList, IInv, Idle, InISR
    <2>4. CASE a = Head(fired)
        <3>1. status[a] = "shared"
            BY <2>3, <2>4 DEF IInv, StatusFollows
        <3>2. Due(setting[a]) <= 0
            BY <2>3, <2>4 DEF IInv, FiredDue
        <3>3. Due(setting[a]) \in Int
            BY <1>1, DueFacts
        <3>4. Due(setting[a]) < 1 /\ status'[a] = "user"
            BY <1>1, <2>1, <2>4, <3>2, <3>3
        <3> QED BY <2>1, <2>4, <3>1, <3>4, VirtualSteps DEF Virtual!Next
    <2>5. CASE a # Head(fired)
        <3>1. status'[a] = status[a] /\ Due(setting[a])' = Due(setting[a])
            BY <1>1, <1>2, <2>1, <2>5
        <3> QED BY <1>1, <2>1, <2>5, <3>1, VirtualSteps
    <2> QED BY <2>4, <2>5
<1>6. CASE CallbackReturns
    <2>1. /\ calling # Null /\ calling' = Null /\ now' = now /\ status' = status
          /\ setting' = IF status[calling] = "user"
                        THEN [setting EXCEPT ![calling] = 0] ELSE setting
        BY <1>6 DEF CallbackReturns
    <2>2. status[a] = "shared" => Due(setting[a])' = Due(setting[a])
        BY <1>1, <1>2, <2>1
    <2>3. CASE a = calling
        BY <1>1, <2>1, <2>2, <2>3, VirtualSteps DEF Virtual!Next
    <2>4. CASE a # calling
        BY <1>1, <2>1, <2>2, <2>4, VirtualSteps
    <2> QED BY <2>3, <2>4
<1>7. CASE Shutdown
    <2>1. status'[a] = "user" /\ calling' = calling
        BY <1>7 DEF Shutdown
    <2> QED BY <1>1, <2>1, VirtualSteps DEF Virtual!Next
<1>8. CASE Tick
    <2>1. /\ status[a] = "shared" => Due(setting[a]) > -MaxLate
          /\ now' = (now + 1) % TimeMod /\ setting' = setting
          /\ calling' = calling /\ status' = status
        BY <1>8 DEF Tick
    <2>2. CASE status[a] = "shared"
        <3>1. PICK s \in 0..(TimeMod - 1) : s = setting[a]
            BY <1>1
        <3>2. Due(s) > -MaxLate
            BY <2>1, <2>2, <3>1
        <3>3. Due(s)' = Due(s) - 1
            BY <1>1, <2>1, <3>2, DueFacts
        <3>4. Due(setting[a])' = Due(s)'
            BY <2>1, <3>1 DEF Due, Signed
        <3>5. Due(setting[a])' = Due(setting[a]) - 1
            BY <3>1, <3>3, <3>4
        <3> QED BY <2>1, <2>2, <3>5, VirtualSteps DEF Virtual!Next
    <2>3. CASE status[a] # "shared"
        BY <2>1, <2>3, VirtualSteps
    <2> QED BY <2>2, <2>3
<1>9. CASE DedicatedFires \/ Startup \/ UNCHANGED vars
    <2>1. now' = now /\ setting' = setting /\ calling' = calling /\ status' = status
        BY <1>9 DEF DedicatedFires, Startup, vars
    <2>2. Due(setting[a])' = Due(setting[a])
        BY <1>2, <2>1
    <2> QED BY <2>1, <2>2, VirtualSteps
<1> QED BY <1>3, <1>4, <1>5, <1>6, <1>7, <1>8, <1>9 DEF Next, UserCalls

\* Each alarm keeps the promise of an alarm of its own, provided callbacks do
\* not remove alarms that are about to be called back.
THEOREM AlarmsKeepTheirPromise == ~RemoveFired /\ Spec => ImplementsAlarms
<1> SUFFICES ASSUME ~RemoveFired PROVE Spec => ImplementsAlarms
    OBVIOUS
<1>1. Init => \A a \in Alarms : Virtual(a)!Init
    BY InitIsVirtual
<1>2. IInv /\ [Next]_vars => [\A a \in Alarms : [Virtual(a)!Next]_(Virtual(a)!alarmVars)]_vars
    BY StepIsVirtual
<1> QED BY <1>1, <1>2, Invariance, PTL DEF Spec, ImplementsAlarms

\* If callbacks do not remove alarms that are about to be called back, every
\* alarm handed over is linked exactly once and the list is sorted.
THEOREM ListIsKept == ~RemoveFired /\ Spec => []ListKept
<1> SUFFICES ASSUME ~RemoveFired PROVE Spec => []ListKept
    OBVIOUS
<1>1. ASSUME IInv PROVE ListKept
    <2> DEFINE q == fired \o alarms
               m == Len(fired)
               n == Len(alarms)
    <2>1. /\ fired \in Seq(Alarms) /\ alarms \in Seq(Alarms) /\ m \in Nat /\ n \in Nat
          /\ status \in [Alarms -> {"user", "shared"}]
        BY <1>1 DEF IInv, TypeOK
    <2>2. /\ Len(q) = m + n
          /\ \A i \in 1..(m + n) : q[i] = IF i <= m THEN fired[i] ELSE alarms[i - m]
        BY <2>1, ConcatProperties
    <2>3. /\ \A i \in 1..m : fired[i] \in Alarms /\ InList(fired[i], fired)
          /\ \A i \in 1..n : alarms[i] \in Alarms /\ InList(alarms[i], alarms)
        BY <2>1 DEF InList
    <2> SUFFICES ASSUME enabled
                 PROVE  /\ \A i, j \in 1..Len(q) : q[i] = q[j] => i = j
                        /\ \A a \in Alarms : InList(a, q) <=> status[a] = "shared"
                        /\ SortedBy(alarms, setting)
        BY DEF ListKept, SortedBy
    <2> HIDE DEF q
    <2>4. Once /\ StatusFollows /\ SortedBy(alarms, setting)
        BY <1>1 DEF IInv
    <2>5. ASSUME NEW i \in 1..(m + n), NEW j \in 1..(m + n), q[i] = q[j] PROVE i = j
        <3>1. CASE i <= m /\ j <= m
            <4>1. i \in 1..m /\ j \in 1..m /\ fired[i] = fired[j]
                BY <3>1, <2>1, <2>2, <2>5
            <4> QED BY <4>1, <2>4 DEF Once, Distinct
        <3>2. CASE ~(i <= m) /\ ~(j <= m)
            <4>1. i - m \in 1..n /\ j - m \in 1..n /\ alarms[i - m] = alarms[j - m]
                BY <3>2, <2>1, <2>2, <2>5
            <4>2. i - m = j - m
                BY <4>1, <2>4 DEF Once, Distinct
            <4> QED BY <4>2, <2>1
        <3>3. CASE i <= m /\ ~(j <= m)
            <4>1. i \in 1..m /\ j - m \in 1..n /\ fired[i] = alarms[j - m]
                BY <3>3, <2>1, <2>2, <2>5
            <4> QED BY <4>1, <2>3, <2>4 DEF Once
        <3>4. CASE ~(i <= m) /\ j <= m
            <4>1. i - m \in 1..n /\ j \in 1..m /\ fired[j] = alarms[i - m]
                BY <3>4, <2>1, <2>2, <2>5
            <4> QED BY <4>1, <2>3, <2>4 DEF Once
        <3> QED BY <3>1, <3>2, <3>3, <3>4
    <2>6. ASSUME NEW a \in Alarms PROVE InList(a, q) <=> InList(a, fired) \/ InList(a, alarms)
        <3>1. ASSUME NEW i \in 1..n, alarms[i] = a PROVE InList(a, q)
            <4>1. m + i \in 1..(m + n) /\ q[m + i] = alarms[i]
                BY <2>1, <2>2
            <4> QED BY <4>1, <3>1, <2>2 DEF InList
        <3>2. ASSUME NEW i \in 1..m, fired[i] = a PROVE InList(a, q)
            <4>1. i \in 1..(m + n) /\ q[i] = fired[i]
                BY <2>1, <2>2
            <4> QED BY <4>1, <3>2, <2>2 DEF InList
        <3>3. ASSUME NEW i \in 1..(m + n), q[i] = a PROVE InList(a, fired) \/ InList(a, alarms)
            <4>1. CASE i <= m
                <5>1. i \in 1..m /\ fired[i] = a
                    BY <4>1, <3>3, <2>1, <2>2
                <5> QED BY <5>1 DEF InList
            <4>2. CASE ~(i <= m)
                <5>1. i - m \in 1..n /\ alarms[i - m] = a
                    BY <4>2, <3>3, <2>1, <2>2
                <5> QED BY <5>1 DEF InList
            <4> QED BY <4>1, <4>2
        <3> QED BY <3>1, <3>2, <3>3, <2>2 DEF InList
    <2>7. ASSUME NEW a \in Alarms PROVE InList(a, fired) \/ InList(a, alarms) <=> status[a] = "shared"
        BY <1>1, <2>4 DEF StatusFollows
    <2>8. \A i, j \in 1..Len(q) : q[i] = q[j] => i = j
        BY <2>2, <2>5
    <2>9. \A a \in Alarms : InList(a, q) <=> status[a] = "shared"
        BY <2>6, <2>7
    <2> QED BY <2>4, <2>8, <2>9
<1> QED BY <1>1, Invariance, PTL

-----------------------------------------------------------------------------
(* The pulse capture: its invariant.                                       *)

\* Every variable of the capture that its proof looks at has its type.
CaptureTypes ==
    /\ {r, ccr, got} \subseteq 0..(CounterMod - 1)
    /\ overflow_count \in Nat
    /\ {taifg, level, ccie, ccifg, cov, unread, active} \subseteq BOOLEAN
    /\ flags \subseteq {"high", "start", "end", "overflow"}
    /\ edges \in 0..3
    /\ pc \in {"idle", "ccr", "cctl", "lost", "record", "callback"}
    /\ cctl \in [lost : BOOLEAN, cci : BOOLEAN]
    /\ seen = <<seen[1], seen[2]>>
    /\ drift \in 0..MaxDrift /\ pending \in 0..Latency

\* How the control register's bits go together.  An edge sets CCIFG; it sets
\* COV too if nobody has read the one before.
Bits ==
    /\ active <=> ccie
    /\ pc # "idle" => ccie
    /\ pc \in {"idle", "ccr", "record", "callback"} /\ ccifg => unread
    /\ pc \in {"idle", "record", "callback"} /\ cov => ccifg
    /\ pc = "ccr" => unread /\ (ccifg => cov)
    /\ pc = "lost" => cctl.lost
    /\ "end" \in flags => "start" \in flags

\* Nothing was lost of the capture at hand.
Sound ==
    /\ ccie /\ "overflow" \notin flags
    /\ pc \in {"idle", "ccr", "callback"} => ~cov
    /\ pc = "cctl" => ~cov /\ ~ccifg
    /\ pc # "lost"
    /\ pc = "record" => ~cctl.lost /\ ~cov

\* How many of the pulse's edges have been recorded.
Recorded == IF "end" \in flags THEN 2 ELSE IF "start" \in flags THEN 1 ELSE 0

\* How many edges are still to be recorded: those that have a request, and
\* the one the handler is at.
ToRecord ==
    (IF ccifg THEN 1 ELSE 0) + (IF pc \in {"ccr", "cctl", "record"} THEN 1 ELSE 0)

Counted ==
    Sound => edges = IF Recorded + ToRecord <= 3 THEN Recorded + ToRecord ELSE 3

\* The edge that was recorded first is the last one, or the one before if
\* one is still to be recorded.
Followed ==
    Sound /\ pc # "record" /\ "start" \in flags /\ "end" \notin flags =>
        IF ToRecord = 0 THEN start = last /\ ("high" \in flags <=> level)
        ELSE start = prev /\ ("high" \in flags <=> ~level)

\* Where the handler has looked at the input, it is the edge before the one
\* the handler is at, whatever comes now.
SeenFollowed ==
    pc = "record" /\ ~cctl.lost /\ flags \intersect {"start", "end", "overflow"} = {"start"} =>
        start = seen[1] /\ ("high" \in flags <=> ~cctl.cci)

\* What the handler has seen is the last edge, unless one came since.
SeenLast ==
    Sound /\ pc = "record" =>
        IF ccifg THEN prev = seen[2] /\ (level <=> ~cctl.cci)
        ELSE last = seen[2] /\ (level <=> cctl.cci)

\* An overflow that is not yet handled happened no longer ago than interrupts
\* may stay pending.
WrapRecent == taifg => r <= pending

\* The counter was x no more than w ticks ago, which was the time t.
TimeAt(n, x) == (n * CounterMod + x) % TimeRange

Reading(x, t, w) ==
    /\ (IF x <= r THEN r - x ELSE r - x + CounterMod) <= w
    /\ r < x => taifg
    /\ t = TimeAt(overflow_count + (IF taifg /\ x <= r THEN 1 ELSE 0), x)

Readings ==
    /\ ccie /\ ccifg => Reading(ccr, last, pending)
    /\ pc = "ccr" => Reading(ccr, last, Latency + drift)
    /\ pc = "cctl" /\ ~ccifg => Reading(got, last, Latency + drift)
    /\ pc = "record" /\ ~cctl.lost => Reading(got, seen[2], Latency + drift)

CapInv ==
    /\ CaptureTypes /\ Bits /\ Counted /\ Followed /\ SeenFollowed /\ SeenLast
    /\ WrapRecent /\ Readings

-----------------------------------------------------------------------------
(* The pulse capture: its steps and theorems.                              *)

\* The widths and latencies, as the proofs use them.
LEMMA CaptureSizes ==
    /\ CounterMod \in Nat /\ Latency \in Nat /\ MaxDrift \in Nat /\ OverflowMod \in Nat
    /\ CounterMod > 1 /\ 2 * (Latency + MaxDrift) <= CounterMod /\ 2 * Latency < CounterMod
    /\ OverflowMod > 0
BY CaptureAssumption

\* What was read remains a reading a tick later, if it is not half a period old.
LEMMA CountKeepsReading ==
    ASSUME CaptureTypes, WrapRecent, Count, NEW x \in 0..(CounterMod - 1), NEW t, NEW w \in Nat,
           Reading(x, t, w), 2 * (w + 1) <= CounterMod
    PROVE  Reading(x, t, w + 1)'
<1> USE CaptureSizes
<1>1. r' = IF r = CounterMod - 1 THEN 0 ELSE r + 1
    BY SMT DEF Count, CaptureTypes
<1>2. overflow_count' = overflow_count /\ (taifg' <=> taifg \/ r' = 0)
    BY DEF Count
<1>3. r \in 0..(CounterMod - 1) /\ taifg \in BOOLEAN
    BY DEF CaptureTypes
<1>4. taifg => r + 1 < CounterMod
    BY <1>3 DEF Count, Requested, WrapRecent, CaptureTypes
<1>5. (taifg' /\ x <= r') <=> (taifg /\ x <= r)
    BY <1>1, <1>2, <1>3, <1>4 DEF Reading
<1>6. (IF x <= r' THEN r' - x ELSE r' - x + CounterMod) <= w + 1
    BY <1>1, <1>3, <1>4 DEF Reading
<1>7. r' < x => taifg'
    BY <1>1, <1>2, <1>3 DEF Reading
<1> QED BY <1>2, <1>5, <1>6, <1>7 DEF Reading, TimeAt

\* The counter counts: all readings become older together.
LEMMA CountStep ==
    ASSUME CapInv, Count
    PROVE  CapInv'
<1> USE CaptureSizes
<1>1. /\ r' = IF r = CounterMod - 1 THEN 0 ELSE r + 1
      /\ r \in 0..(CounterMod - 1) /\ pending \in 0..Latency /\ drift \in 0..MaxDrift
    BY SMT DEF Count, CapInv, CaptureTypes
<1>2. /\ (taifg' <=> taifg \/ r' = 0) /\ taifg' = (taifg \/ r' = 0)
      /\ pending' = (IF Requested THEN pending + 1 ELSE 0) /\ (Requested => pending < Latency)
      /\ drift' = (IF pc = "idle" THEN 0 ELSE drift + 1) /\ (pc # "idle" => drift < MaxDrift)
    BY DEF Count
<1>3. /\ overflow_count' = overflow_count /\ ccr' = ccr /\ ccifg' = ccifg /\ cov' = cov
      /\ unread' = unread /\ level' = level /\ last' = last /\ prev' = prev
      /\ flags' = flags /\ start' = start /\ end' = end /\ edges' = edges /\ pc' = pc
      /\ got' = got /\ cctl' = cctl /\ seen' = seen
      /\ captureEnabled' = captureEnabled /\ active' = active /\ ccie' = ccie
    BY DEF Count, capture, pulse, call, setup
<1>4. CaptureTypes'
    <2>1. r' \in 0..(CounterMod - 1) /\ drift' \in 0..MaxDrift /\ pending' \in 0..Latency
        BY <1>1, <1>2
    <2>2. taifg' \in BOOLEAN
        BY <1>2
    <2> QED BY <1>3, <2>1, <2>2 DEF CapInv, CaptureTypes
<1>5. Bits' /\ Counted' /\ Followed' /\ SeenFollowed' /\ SeenLast'
    BY <1>3 DEF CapInv, Bits, Counted, Followed, SeenFollowed, SeenLast, Sound, Recorded, ToRecord
<1>6. WrapRecent'
    <2>1. taifg => r + 1 < CounterMod /\ pending' = pending + 1
        BY <1>1, <1>2 DEF CapInv, WrapRecent, Requested
    <2> QED BY <1>1, <1>2, <2>1 DEF CapInv, WrapRecent
<1>7. Readings'
    <2>1. /\ ccr \in 0..(CounterMod - 1) /\ got \in 0..(CounterMod - 1)
          /\ Readings /\ CaptureTypes /\ WrapRecent
        BY DEF CapInv, CaptureTypes
    <2>2. \A x \in 0..(CounterMod - 1), w \in Nat : \A t :
              Reading(x, t, w) /\ 2 * (w + 1) <= CounterMod => Reading(x, t, w + 1)'
        BY <2>1, CountKeepsReading
    <2>3. ASSUME ccie, ccifg PROVE Reading(ccr, last, pending)'
        <3>1. pending' = pending + 1 /\ 2 * (pending + 1) <= CounterMod /\ pending \in Nat
            BY <1>1, <1>2, <2>3 DEF Requested
        <3>2. Reading(ccr, last, pending)
            BY <2>1, <2>3 DEF Readings
        <3> QED BY <1>3, <2>1, <2>2, <3>1, <3>2 DEF Reading, TimeAt
    <2>4. pc # "idle" => /\ Latency + drift \in Nat /\ Latency + drift' = Latency + drift + 1
                         /\ 2 * (Latency + drift + 1) <= CounterMod
        BY <1>1, <1>2
    <2>5. ASSUME pc = "ccr" PROVE Reading(ccr, last, Latency + drift)'
        <3>1. Reading(ccr, last, Latency + drift)
            BY <2>1, <2>5 DEF Readings
        <3> QED BY <1>3, <2>1, <2>2, <2>4, <2>5, <3>1 DEF Reading, TimeAt
    <2>6. ASSUME pc = "cctl", ~ccifg PROVE Reading(got, last, Latency + drift)'
        <3>1. Reading(got, last, Latency + drift)
            BY <2>1, <2>6 DEF Readings
        <3> QED BY <1>3, <2>1, <2>2, <2>4, <2>6, <3>1 DEF Reading, TimeAt
    <2>7. ASSUME pc = "record", ~cctl.lost PROVE Reading(got, seen[2], Latency + drift)'
        <3>1. Reading(got, seen[2], Latency + drift)
            BY <2>1, <2>7 DEF Readings
        <3> QED BY <1>3, <2>1, <2>2, <2>4, <2>7, <3>1 DEF Reading, TimeAt
    <2> QED BY <1>3, <2>3, <2>5, <2>6, <2>7 DEF Readings
<1> QED BY <1>4, <1>5, <1>6, <1>7 DEF CapInv

\* An edge: it is the last one from now on, and read at once.
LEMMA EdgeStep ==
    ASSUME CapInv, Edge
    PROVE  CapInv'
<1> USE CaptureSizes
<1>1. /\ (level' <=> ~level) /\ level' \in BOOLEAN /\ last' = TrueNow /\ prev' = last
      /\ ccr' = r /\ ccifg' = TRUE /\ (cov' <=> cov \/ unread) /\ cov' \in BOOLEAN
      /\ unread' = TRUE /\ edges' = IF ccie /\ edges < 3 THEN edges + 1 ELSE edges
    BY DEF Edge, CapInv, CaptureTypes
<1>2. /\ r' = r /\ taifg' = taifg /\ overflow_count' = overflow_count
      /\ flags' = flags /\ start' = start /\ end' = end /\ pc' = pc
      /\ got' = got /\ cctl' = cctl /\ seen' = seen
      /\ captureEnabled' = captureEnabled /\ active' = active /\ ccie' = ccie
      /\ drift' = drift /\ pending' = pending
    BY DEF Edge, timer, call, setup
<1>3. CaptureTypes'
    BY <1>1, <1>2 DEF CapInv, CaptureTypes
<1>4. Bits'
    BY <1>1, <1>2 DEF CapInv, Bits, CaptureTypes
<1>5. Sound' => Sound /\ ccie /\ (pc \in {"idle", "record", "callback"} => ~ccifg)
                /\ pc \notin {"ccr", "cctl"}
    BY <1>1, <1>2 DEF Sound, CapInv, Bits, CaptureTypes
<1>6. Recorded' = Recorded /\ Recorded \in 0..2
    BY <1>2 DEF Recorded
<1>7. Counted'
    <2> SUFFICES ASSUME Sound' PROVE edges' = IF Recorded + ToRecord' <= 3 THEN Recorded + ToRecord' ELSE 3
        BY <1>6 DEF Counted
    <2>1. ToRecord' = ToRecord + 1 /\ ToRecord \in 0..1
        BY <1>1, <1>2, <1>5 DEF ToRecord, Sound, CapInv, CaptureTypes
    <2>2. edges = Recorded + ToRecord
        BY <1>5, <1>6, <2>1 DEF CapInv, Counted
    <2> QED BY <1>1, <1>5, <1>6, <2>1, <2>2
<1>8. Followed' /\ SeenFollowed' /\ SeenLast'
    <2>1. Sound' /\ pc # "record" => ToRecord = 0 /\ ToRecord' = 1
        BY <1>1, <1>2, <1>5 DEF ToRecord, Sound, CapInv, CaptureTypes
    <2>2. Followed'
        BY <1>1, <1>2, <1>5, <2>1 DEF CapInv, Followed, CaptureTypes
    <2>3. SeenFollowed'
        BY <1>2 DEF CapInv, SeenFollowed
    <2>4. SeenLast'
        BY <1>1, <1>2, <1>5 DEF CapInv, SeenLast, CaptureTypes
    <2> QED BY <2>2, <2>3, <2>4
<1>9. WrapRecent'
    BY <1>2 DEF CapInv, WrapRecent
<1>10. Readings'
    <2>1. ASSUME NEW w \in Nat PROVE Reading(r, TrueNow, w)
        BY DEF CapInv, CaptureTypes, Reading, TrueNow, TimeAt
    <2>2. Reading(ccr, last, pending)' /\ Reading(ccr, last, Latency + drift)'
        <3>1. pending \in Nat /\ Latency + drift \in Nat
            BY DEF CapInv, CaptureTypes
        <3> QED BY <1>1, <1>2, <2>1, <3>1 DEF Reading, TimeAt
    <2>3. pc = "record" /\ ~cctl.lost => Reading(got, seen[2], Latency + drift)'
        BY <1>2 DEF CapInv, Readings, Reading, TimeAt
    <2> QED BY <1>1, <1>2, <2>2, <2>3 DEF Readings
<1> QED BY <1>3, <1>4, <1>7, <1>8, <1>9, <1>10 DEF CapInv



\* An overflow is handled: what the flag stood for is counted.
LEMMA OverflowStep ==
    ASSUME CapInv, OverflowISR
    PROVE  CapInv'
<1> USE CaptureSizes
<1>1. /\ pc = "idle" /\ taifg /\ ~(ccie /\ ccifg)
      /\ taifg' = FALSE /\ pending' = 0
      /\ overflow_count' = (overflow_count + 1) % OverflowMod
    BY DEF OverflowISR
<1>2. /\ r' = r /\ ccr' = ccr /\ ccifg' = ccifg /\ cov' = cov
      /\ unread' = unread /\ level' = level /\ last' = last /\ prev' = prev
      /\ flags' = flags /\ start' = start /\ end' = end /\ edges' = edges /\ pc' = pc
      /\ got' = got /\ cctl' = cctl /\ seen' = seen /\ drift' = drift
      /\ captureEnabled' = captureEnabled /\ active' = active /\ ccie' = ccie
    BY DEF OverflowISR, capture, input, pulse, call, setup
<1>3. CaptureTypes'
    <2>1. (overflow_count + 1) % OverflowMod \in Nat
        BY DEF CapInv, CaptureTypes
    <2>2. pending' \in 0..Latency /\ overflow_count' \in Nat
        BY <1>1, <2>1
    <2>3. taifg' \in BOOLEAN
        BY <1>1
    <2> QED BY <1>2, <2>2, <2>3 DEF CapInv, CaptureTypes
<1>4. Bits' /\ Counted' /\ Followed' /\ SeenFollowed' /\ SeenLast'
    BY <1>2 DEF CapInv, Bits, Counted, Followed, SeenFollowed, SeenLast, Sound, Recorded, ToRecord
<1>5. WrapRecent'
    BY <1>1 DEF WrapRecent
<1>6. Readings'
    BY <1>1, <1>2 DEF Readings
<1> QED BY <1>3, <1>4, <1>5, <1>6 DEF CapInv

\* The handler starts: the request it is at takes the place of the one pending.
LEMMA EnterStep ==
    ASSUME CapInv, Enter
    PROVE  CapInv'
<1> USE CaptureSizes
<1>1. /\ pc = "idle" /\ ccie /\ ccifg /\ ccifg' = FALSE /\ pc' = "ccr"
      /\ drift' = 0 /\ pending' = (IF taifg THEN pending ELSE 0) /\ pending \in 0..Latency
    BY DEF Enter, CapInv, CaptureTypes
<1>2. /\ r' = r /\ taifg' = taifg /\ overflow_count' = overflow_count /\ ccr' = ccr /\ cov' = cov
      /\ unread' = unread /\ level' = level /\ last' = last /\ prev' = prev
      /\ flags' = flags /\ start' = start /\ end' = end /\ edges' = edges
      /\ got' = got /\ cctl' = cctl /\ seen' = seen
      /\ captureEnabled' = captureEnabled /\ active' = active /\ ccie' = ccie
    BY DEF Enter, timer, input, pulse, call, setup
<1>3. CaptureTypes'
    <2>1. pending' \in 0..Latency /\ drift' \in 0..MaxDrift
        BY <1>1
    <2>2. ccifg' \in BOOLEAN
        BY <1>1
    <2> QED BY <1>1, <1>2, <2>1, <2>2 DEF CapInv, CaptureTypes
<1>4. Bits'
    BY <1>1, <1>2 DEF CapInv, Bits
<1>5. (Sound' <=> Sound) /\ ToRecord' = ToRecord /\ ToRecord = 1 /\ Recorded' = Recorded
    BY <1>1, <1>2 DEF Sound, ToRecord, Recorded
<1>6. Counted' /\ Followed' /\ SeenFollowed' /\ SeenLast'
    BY <1>1, <1>2, <1>5 DEF CapInv, Counted, Followed, SeenFollowed, SeenLast
<1>7. WrapRecent'
    BY <1>1, <1>2 DEF CapInv, WrapRecent
<1>8. Readings'
    <2>1. Reading(ccr, last, pending)
        BY <1>1 DEF CapInv, Readings
    <2>2. Reading(ccr, last, Latency + drift')
        BY <1>1, <2>1 DEF Reading, CapInv, CaptureTypes
    <2> QED BY <1>1, <1>2, <2>2 DEF Readings, Reading, TimeAt
<1> QED BY <1>3, <1>4, <1>6, <1>7, <1>8 DEF CapInv

\* The capture is read.
LEMMA ReadCCRStep ==
    ASSUME CapInv, ReadCCR
    PROVE  CapInv'
<1>1. pc = "ccr" /\ got' = ccr /\ unread' = FALSE /\ pc' = "cctl"
    BY DEF ReadCCR
<1>2. /\ r' = r /\ taifg' = taifg /\ overflow_count' = overflow_count /\ ccr' = ccr /\ cov' = cov
      /\ ccifg' = ccifg /\ level' = level /\ last' = last /\ prev' = prev
      /\ flags' = flags /\ start' = start /\ end' = end /\ edges' = edges
      /\ cctl' = cctl /\ seen' = seen /\ drift' = drift /\ pending' = pending
      /\ captureEnabled' = captureEnabled /\ active' = active /\ ccie' = ccie
    BY DEF ReadCCR, timer, input, pulse, setup
<1>3. CaptureTypes'
    BY <1>1, <1>2 DEF CapInv, CaptureTypes
<1>4. Bits'
    BY <1>1, <1>2 DEF CapInv, Bits
<1>5. (Sound' => Sound) /\ ToRecord' = ToRecord /\ Recorded' = Recorded
    BY <1>1, <1>2 DEF Sound, ToRecord, Recorded
<1>6. Counted' /\ Followed' /\ SeenFollowed' /\ SeenLast'
    BY <1>1, <1>2, <1>5 DEF CapInv, Counted, Followed, SeenFollowed, SeenLast
<1>7. WrapRecent'
    BY <1>2 DEF CapInv, WrapRecent
<1>8. Readings'
    BY <1>1, <1>2 DEF CapInv, Readings, Reading, TimeAt
<1> QED BY <1>3, <1>4, <1>6, <1>7, <1>8 DEF CapInv

\* The control register is read: if nothing was lost, the handler has the edge.
LEMMA ReadCCTLStep ==
    ASSUME CapInv, ReadCCTL
    PROVE  CapInv'
<1>1. /\ pc = "cctl" /\ cctl' = [lost |-> cov \/ ccifg, cci |-> level]
      /\ seen' = <<prev, last>> /\ pc' = IF cctl'.lost THEN "lost" ELSE "record"
    BY DEF ReadCCTL
<1>2. /\ r' = r /\ taifg' = taifg /\ overflow_count' = overflow_count /\ ccr' = ccr /\ cov' = cov
      /\ ccifg' = ccifg /\ unread' = unread /\ level' = level /\ last' = last /\ prev' = prev
      /\ flags' = flags /\ start' = start /\ end' = end /\ edges' = edges
      /\ got' = got /\ drift' = drift /\ pending' = pending
      /\ captureEnabled' = captureEnabled /\ active' = active /\ ccie' = ccie
    BY DEF ReadCCTL, timer, capture, input, pulse, setup
<1>3. /\ cctl' \in [lost : BOOLEAN, cci : BOOLEAN]
      /\ (cctl'.lost <=> cov \/ ccifg) /\ (cctl'.cci <=> level)
      /\ seen'[1] = prev /\ seen'[2] = last
    <2>1. (cov \/ ccifg) \in BOOLEAN /\ level \in BOOLEAN
        BY DEF CapInv, CaptureTypes
    <2> QED BY <1>1, <2>1
<1>4. CaptureTypes'
    BY <1>1, <1>2, <1>3 DEF CapInv, CaptureTypes
<1>5. Bits'
    BY <1>1, <1>2, <1>3 DEF CapInv, Bits
<1>6. Sound' \/ pc' = "record" => ~cov /\ ~ccifg /\ pc' = "record" /\ ~cctl'.lost
    BY <1>1, <1>2, <1>3 DEF Sound
<1>7. (Sound' => Sound) /\ (pc' = "record" => ToRecord' = ToRecord) /\ Recorded' = Recorded
    BY <1>1, <1>2, <1>6 DEF Sound, ToRecord, Recorded
<1>8. Counted'
    BY <1>2, <1>6, <1>7 DEF CapInv, Counted
<1>9. Followed' /\ SeenLast'
    BY <1>2, <1>3, <1>6 DEF Followed, SeenLast
<1>10. SeenFollowed'
    <2> SUFFICES ASSUME pc' = "record", flags \intersect {"start", "end", "overflow"} = {"start"}
                 PROVE  start = prev /\ ("high" \in flags <=> ~level)
        BY <1>2, <1>3 DEF SeenFollowed
    <2>1. /\ "start" \in flags /\ "end" \notin flags /\ "overflow" \notin flags
          /\ ~cov /\ ~ccifg /\ ccie
        BY <1>1, <1>6 DEF CapInv, Bits
    <2>2. Sound /\ ToRecord # 0
        BY <1>1, <2>1 DEF Sound, ToRecord
    <2> QED BY <1>1, <2>1, <2>2 DEF CapInv, Followed
<1>11. WrapRecent'
    BY <1>2 DEF CapInv, WrapRecent
<1>12. Readings'
    BY <1>1, <1>2, <1>3 DEF CapInv, Readings, Reading, TimeAt
<1> QED BY <1>4, <1>5, <1>8, <1>9, <1>10, <1>11, <1>12 DEF CapInv

\* Something was lost: what is recorded will be marked.
LEMMA LostStep ==
    ASSUME CapInv, Lost
    PROVE  CapInv'
<1>1. /\ pc = "lost" /\ ccifg' = FALSE /\ cov' = FALSE /\ pc' = "record"
      /\ cctl.lost /\ ccie
    BY DEF Lost, CapInv, Bits
<1>2. /\ r' = r /\ taifg' = taifg /\ overflow_count' = overflow_count /\ ccr' = ccr
      /\ unread' = unread /\ level' = level /\ last' = last /\ prev' = prev
      /\ flags' = flags /\ start' = start /\ end' = end /\ edges' = edges
      /\ got' = got /\ cctl' = cctl /\ seen' = seen /\ drift' = drift /\ pending' = pending
      /\ captureEnabled' = captureEnabled /\ active' = active /\ ccie' = ccie
    BY DEF Lost, timer, input, pulse, call, setup
<1>3. CaptureTypes'
    <2>1. ccifg' \in BOOLEAN /\ cov' \in BOOLEAN
        BY <1>1
    <2> QED BY <1>1, <1>2, <2>1 DEF CapInv, CaptureTypes
<1>4. ~Sound'
    BY <1>1, <1>2 DEF Sound
<1>5. Bits' /\ Counted' /\ Followed' /\ SeenFollowed' /\ SeenLast' /\ WrapRecent' /\ Readings'
    BY <1>1, <1>2, <1>4
       DEF CapInv, Bits, Counted, Followed, SeenFollowed, SeenLast, WrapRecent, Readings
<1> QED BY <1>3, <1>5 DEF CapInv

\* The time the handler computes is that of the edge, unless it lost one.
LEMMA ExtendedIsTime ==
    ASSUME CapInv, pc = "record", ~cctl.lost
    PROVE  Extended(got) = seen[2]
<1> USE CaptureSizes
<1>1. /\ Reading(got, seen[2], Latency + drift) /\ (taifg => r <= pending)
      /\ got \in 0..(CounterMod - 1) /\ r \in 0..(CounterMod - 1)
      /\ pending \in 0..Latency /\ drift \in 0..MaxDrift
    BY DEF CapInv, CaptureTypes, WrapRecent, Readings
<1>2. (2 * got < CounterMod /\ taifg) <=> (taifg /\ got <= r)
    <2>1. ASSUME got <= r, taifg PROVE 2 * got < CounterMod
        BY <1>1, <2>1
    <2>2. ASSUME ~(got <= r) PROVE ~(2 * got < CounterMod)
        BY <1>1, <2>2 DEF Reading
    <2> QED BY <2>1, <2>2
<1> QED BY <1>1, <1>2 DEF Reading, Extended, TimeAt

\* The edge is recorded, or the pulse marked.
LEMMA RecordStep ==
    ASSUME CapInv, Record
    PROVE  CapInv'
<1>1. pc = "record" /\ pc' = "callback"
    BY DEF Record
<1>2. /\ r' = r /\ taifg' = taifg /\ overflow_count' = overflow_count /\ ccr' = ccr /\ cov' = cov
      /\ ccifg' = ccifg /\ unread' = unread /\ level' = level /\ last' = last /\ prev' = prev
      /\ edges' = edges /\ got' = got /\ cctl' = cctl /\ seen' = seen
      /\ drift' = drift /\ pending' = pending
      /\ captureEnabled' = captureEnabled /\ active' = active /\ ccie' = ccie
    BY DEF Record, timer, capture, input, call, setup
<1>3. Readings' /\ WrapRecent' /\ SeenFollowed' /\ SeenLast'
    BY <1>1, <1>2 DEF CapInv, Readings, Reading, TimeAt, WrapRecent, SeenFollowed, SeenLast
<1>4. ASSUME flags' \subseteq {"high", "start", "end", "overflow"},
             "end" \in flags' => "start" \in flags'
      PROVE  CaptureTypes' /\ Bits'
    BY <1>1, <1>2, <1>4 DEF CapInv, CaptureTypes, Bits
<1>5. flags \subseteq {"high", "start", "end", "overflow"}
      /\ ("end" \in flags => "start" \in flags)
    BY DEF CapInv, CaptureTypes, Bits
<1>6. ToRecord = ToRecord' + 1 /\ ToRecord' = (IF ccifg THEN 1 ELSE 0)
    BY <1>1, <1>2 DEF ToRecord
<1>7. ASSUME Sound', ~Overflowed PROVE Sound
    BY <1>1, <1>2, <1>7 DEF Sound, Overflowed, CapInv, Bits
<1>8. CASE RecordStart
    <2>1. /\ ~Overflowed /\ "start" \notin flags /\ "end" \notin flags
          /\ start' = seen[2]
          /\ flags' = (flags \ {"high"}) \union {"start"} \union IF cctl.cci THEN {"high"} ELSE {}
        BY <1>1, <1>5, <1>8, ExtendedIsTime DEF RecordStart, Overflowed
    <2>2. /\ "start" \in flags' /\ "end" \notin flags'
          /\ flags' \subseteq {"high", "start", "end", "overflow"}
          /\ ("high" \in flags' <=> cctl.cci)
        BY <1>5, <2>1
    <2>3. CaptureTypes' /\ Bits'
        BY <1>4, <2>2
    <2>4. Recorded = 0 /\ Recorded' = 1
        BY <2>1, <2>2 DEF Recorded
    <2>5. Counted'
        BY <1>2, <1>6, <1>7, <2>1, <2>4 DEF CapInv, Counted
    <2>6. Followed'
        <3> SUFFICES ASSUME Sound'
                     PROVE  IF ccifg THEN start' = prev /\ ("high" \in flags' <=> ~level)
                            ELSE start' = last /\ ("high" \in flags' <=> level)
            BY <1>2, <1>6 DEF Followed
        <3>1. Sound
            BY <1>7, <2>1
        <3>2. level \in BOOLEAN /\ cctl.cci \in BOOLEAN
            BY DEF CapInv, CaptureTypes
        <3> QED BY <1>1, <2>1, <2>2, <3>1, <3>2 DEF CapInv, SeenLast
    <2> QED BY <1>3, <2>3, <2>5, <2>6 DEF CapInv
<1>9. CASE RecordEnd
    <2>1. /\ ~Overflowed /\ "start" \in flags /\ "end" \notin flags
          /\ flags' = flags \union {"end"}
        BY <1>9 DEF RecordEnd
    <2>2. "start" \in flags' /\ "end" \in flags'
          /\ flags' \subseteq {"high", "start", "end", "overflow"}
        BY <1>5, <2>1
    <2>3. CaptureTypes' /\ Bits'
        BY <1>4, <2>2
    <2>4. Recorded = 1 /\ Recorded' = 2
        BY <2>1, <2>2 DEF Recorded
    <2>5. Counted'
        BY <1>2, <1>6, <1>7, <2>1, <2>4 DEF CapInv, Counted
    <2>6. Followed'
        BY <2>2 DEF Followed
    <2> QED BY <1>3, <2>3, <2>5, <2>6 DEF CapInv
<1>10. CASE RecordOverflow
    <2>1. flags' = flags \union {"overflow"}
        BY <1>10 DEF RecordOverflow
    <2>2. CaptureTypes' /\ Bits'
        BY <1>4, <1>5, <2>1
    <2>3. ~Sound'
        BY <2>1 DEF Sound
    <2> QED BY <1>3, <2>2, <2>3 DEF CapInv, Counted, Followed
<1> QED BY <1>8, <1>9, <1>10 DEF Record

\* What the callback, or the program between handlers, may do to a capture.
LEMMA QuietStep ==
    ASSUME CapInv, pc \in {"idle", "callback"}, pc' = "idle", drift' \in 0..MaxDrift,
           got' \in {got, 0}, seen' = <<seen[1], seen[2]>> \/ seen' = <<0, 0>>,
           cctl' \in [lost : BOOLEAN, cci : BOOLEAN],
           Settle, UNCHANGED <<timer, input>>,
           \/ UNCHANGED <<setup, capture, pulse>>
           \/ Clear /\ UNCHANGED <<setup, capture>>
           \/ Activate
           \/ Deactivate
           \/ Disable
           \/ Enable
    PROVE  CapInv'
<1> USE CaptureSizes
<1>1. /\ r' = r /\ taifg' = taifg /\ overflow_count' = overflow_count
      /\ level' = level /\ last' = last /\ prev' = prev
    BY DEF timer, input
<1>2. /\ ccr' = ccr /\ unread' = unread
      /\ \/ ccifg' = ccifg /\ cov' = cov
         \/ ccifg' = FALSE /\ cov' = FALSE
      /\ {ccifg', cov'} \subseteq BOOLEAN
    BY DEF capture, Activate, SetActive, Deactivate, Disable, Enable, CapInv, CaptureTypes
<1>3. /\ active' \in BOOLEAN /\ ccie' \in BOOLEAN /\ (active' <=> ccie')
      /\ \/ ccie' = ccie
         \/ ccie' = FALSE
         \/ ccie' = TRUE /\ ccifg' = FALSE /\ cov' = FALSE
    <2>1. active \in BOOLEAN /\ ccie \in BOOLEAN /\ (active <=> ccie)
        BY DEF CapInv, CaptureTypes, Bits
    <2>2. CASE active' = active /\ ccie' = ccie
        BY <2>1, <2>2
    <2>3. CASE active' = FALSE /\ ccie' = FALSE
        BY <2>3
    <2>4. CASE active' = TRUE /\ ccie' = TRUE /\ ccifg' = FALSE /\ cov' = FALSE
        BY <2>4
    <2>5. \/ active' = active /\ ccie' = ccie
          \/ active' = FALSE /\ ccie' = FALSE
          \/ active' = TRUE /\ ccie' = TRUE /\ ccifg' = FALSE /\ cov' = FALSE
        BY DEF setup, Activate, SetActive, Deactivate, Disable, Enable
    <2> QED BY <2>2, <2>3, <2>4, <2>5
<1>4. pending' = (IF taifg \/ (ccie' /\ ccifg') THEN pending ELSE 0) /\ pending' \in 0..Latency
    BY <1>1 DEF Settle, CapInv, CaptureTypes
<1>5. flags' \in {flags, {}} /\ edges' \in {edges, 0, 1}
    <2>1. CASE UNCHANGED pulse
        BY <2>1 DEF pulse
    <2>2. CASE ClearState /\ edges' \in {0, 1}
        BY <2>2 DEF ClearState
    <2>3. UNCHANGED pulse \/ (ClearState /\ edges' \in {0, 1})
        BY DEF Clear, Activate, Deactivate, Disable, Enable
    <2> QED BY <2>1, <2>2, <2>3
<1>6. CaptureTypes'
    BY <1>1, <1>2, <1>3, <1>4, <1>5 DEF CapInv, CaptureTypes
<1>7. Bits'
    BY <1>2, <1>3, <1>5 DEF CapInv, Bits
<1>8. SeenFollowed' /\ SeenLast'
    BY DEF SeenFollowed, SeenLast
<1>9. WrapRecent'
    BY <1>1, <1>4 DEF CapInv, WrapRecent
<1>10. Readings'
    BY <1>1, <1>2, <1>3, <1>4 DEF CapInv, Readings, Reading, TimeAt
<1>11. ToRecord' = IF ccifg' THEN 1 ELSE 0
    BY DEF ToRecord
<1>12. Counted' /\ Followed'
    <2>1. CASE UNCHANGED <<setup, capture, pulse>> \/ Enable
        <3>1. ccifg' = ccifg /\ cov' = cov /\ ccie' = ccie /\ flags' = flags /\ start' = start
              /\ edges' = edges
            BY <2>1 DEF setup, capture, pulse, Enable
        <3>2. (Sound' => Sound) /\ ToRecord' = ToRecord /\ Recorded' = Recorded
            BY <1>1, <1>11, <3>1 DEF Sound, ToRecord, Recorded
        <3> QED BY <1>1, <3>1, <3>2 DEF CapInv, Counted, Followed
    <2>2. CASE (Clear /\ UNCHANGED <<setup, capture>>) \/ Activate
        <3>1. flags' = {} /\ (ccie' => edges' = IF ccifg' THEN 1 ELSE 0)
            BY <2>2 DEF setup, capture, Clear, ClearState, Activate, SetActive
        <3>2. Recorded' = 0
            BY <3>1 DEF Recorded
        <3> QED BY <1>11, <3>1, <3>2 DEF Counted, Followed, Sound
    <2>3. CASE Deactivate \/ Disable
        <3>1. ~ccie'
            BY <2>3 DEF Deactivate, Disable
        <3> QED BY <3>1 DEF Counted, Followed, Sound
    <2> QED BY <2>1, <2>2, <2>3
<1> QED BY <1>6, <1>7, <1>8, <1>9, <1>10, <1>12 DEF CapInv

\* Every step keeps the invariant.
LEMMA CaptureStep ==
    ASSUME CapInv, [CaptureNext]_captureVars
    PROVE  CapInv'
<1>1. CASE Count
    BY <1>1, CountStep
<1>2. CASE Edge
    BY <1>2, EdgeStep
<1>3. CASE OverflowISR
    BY <1>3, OverflowStep
<1>4. CASE Handler
    <2>1. CASE Return
        <3>1. /\ pc = "callback" /\ pc' = "idle" /\ drift' = 0 /\ got' = 0 /\ seen' = <<0, 0>>
              /\ cctl' = [lost |-> FALSE, cci |-> FALSE]
              /\ Settle /\ UNCHANGED <<timer, input>>
              /\ \/ UNCHANGED <<setup, capture, pulse>>
                 \/ Clear /\ UNCHANGED <<setup, capture>>
                 \/ Deactivate
            BY <2>1 DEF Return
        <3>2. drift' \in 0..MaxDrift /\ cctl' \in [lost : BOOLEAN, cci : BOOLEAN]
            BY <3>1, CaptureSizes
        <3> QED BY <3>1, <3>2, QuietStep
    <2> QED BY <1>4, <2>1, EnterStep, ReadCCRStep, ReadCCTLStep, LostStep, RecordStep DEF Handler
<1>5. CASE Main
    <2>1. /\ pc = "idle" /\ pc' = "idle" /\ drift' = drift /\ got' = got /\ seen' = seen
          /\ cctl' = cctl /\ Settle /\ UNCHANGED <<timer, input>>
          /\ \/ Activate \/ Deactivate \/ Enable \/ Disable
             \/ Clear /\ UNCHANGED <<setup, capture>>
        BY <1>5 DEF Main, call
    <2>2. /\ drift' \in 0..MaxDrift /\ cctl' \in [lost : BOOLEAN, cci : BOOLEAN]
          /\ seen' = <<seen[1], seen[2]>>
        BY <2>1 DEF CapInv, CaptureTypes
    <2> QED BY <2>1, <2>2, QuietStep
<1>6. CASE UNCHANGED captureVars
    <2>1. UNCHANGED <<timer, capture, input, pulse, pc, call, setup, drift, pending>>
        BY <1>6 DEF captureVars
    <2>2. CaptureTypes' /\ Bits' /\ Counted' /\ Followed' /\ SeenFollowed' /\ SeenLast'
        BY <2>1 DEF timer, capture, input, pulse, call, setup, CapInv, CaptureTypes, Bits,
                    Counted, Followed, SeenFollowed, SeenLast, Sound, Recorded, ToRecord
    <2>3. WrapRecent' /\ Readings'
        BY <2>1 DEF timer, capture, input, call, setup, CapInv, WrapRecent, Readings, Reading, TimeAt
    <2> QED BY <2>2, <2>3 DEF CapInv
<1> QED BY <1>1, <1>2, <1>3, <1>4, <1>5, <1>6 DEF CaptureNext

\* All that the capture's proofs need holds in every reachable state.
THEOREM CaptureInvariant == CaptureSpec => []CapInv
<1>1. CaptureInit => CapInv
    <2> SUFFICES ASSUME CaptureInit PROVE CapInv
        OBVIOUS
    <2>1. /\ {r, ccr, got} \subseteq 0..(CounterMod - 1)
          /\ drift \in 0..MaxDrift /\ pending \in 0..Latency
        BY CaptureSizes DEF CaptureInit
    <2>2. CaptureTypes
        <3>1. {taifg, level, ccie, ccifg, cov, unread, active} \subseteq BOOLEAN
            BY DEF CaptureInit
        <3>2. cctl \in [lost : BOOLEAN, cci : BOOLEAN] /\ seen = <<seen[1], seen[2]>>
            BY DEF CaptureInit
        <3> QED BY <2>1, <3>1, <3>2 DEF CaptureInit, CaptureTypes
    <2> QED BY <2>2 DEF CaptureInit, CapInv, Bits, Counted, Followed, SeenFollowed, SeenLast,
                        Sound, WrapRecent, Readings
<1>2. CapInv /\ [CaptureNext]_captureVars => CapInv'
    BY CaptureStep
<1> QED BY <1>1, <1>2, PTL DEF CaptureSpec

\* Between handlers every edge since an active capture was cleared is one of
\* its times, or the pulse is marked: for any width of the counter, and for any
\* latencies of the two handlers that together stay below half its period.
THEOREM EdgesAreAccounted == CaptureSpec => []EdgesAccounted
<1>1. CapInv => EdgesAccounted
    <2> SUFFICES ASSUME CapInv, pc = "idle", active, ~ccifg, "overflow" \notin flags
                 PROVE  edges = Cardinality(flags \intersect {"start", "end"})
        BY DEF EdgesAccounted
    <2>1. ToRecord = 0 /\ Recorded \in 0..2
        BY DEF ToRecord, Recorded
    <2>2. Sound
        BY DEF Sound, CapInv, Bits
    <2>3. edges = Recorded
        BY <2>1, <2>2 DEF CapInv, Counted
    <2>4. flags \intersect {"start", "end"} = IF "end" \in flags THEN {"start", "end"}
                                              ELSE IF "start" \in flags THEN {"start"} ELSE {}
        BY DEF CapInv, Bits
    <2>5. Cardinality({"start", "end"}) = 2 /\ Cardinality({"start"}) = 1
          /\ Cardinality({}) = 0
        <3>1. IsFiniteSet({"start"}) /\ Cardinality({"start"}) = 1
            BY FS_Singleton
        <3>2. "end" \notin {"start"} /\ {"start"} \cup {"end"} = {"start", "end"}
            OBVIOUS
        <3>3. Cardinality({"start"} \cup {"end"}) = 2
            BY <3>1, <3>2, FS_AddElement
        <3> QED BY <3>1, <3>2, <3>3, FS_EmptySet
    <2> QED BY <2>3, <2>4, <2>5 DEF Recorded
<1> QED BY <1>1, CaptureInvariant, PTL

\* The two times of a pulse that is not marked are those of two edges that
\* followed each other, and its polarity is that of the first.
THEOREM PulsesAreRight == CaptureSpec => PulseRight
<1>1. CapInv /\ [CaptureNext]_captureVars =>
          [Record /\ "end" \notin flags /\ flags' \intersect {"end", "overflow"} = {"end"}
           => /\ <<start, end'>> = seen
              /\ "high" \in flags <=> ~cctl.cci]_captureVars
    <2> SUFFICES ASSUME CapInv, Record, "end" \notin flags,
                        flags' \intersect {"end", "overflow"} = {"end"}
                 PROVE  /\ <<start, end'>> = seen
                        /\ "high" \in flags <=> ~cctl.cci
        OBVIOUS
    <2>1. "end" \in flags' /\ "overflow" \notin flags' /\ pc = "record"
        BY DEF Record
    <2>2. RecordEnd
        BY <2>1 DEF Record, RecordStart, RecordOverflow
    <2>3. /\ ~cctl.lost /\ "overflow" \notin flags /\ "start" \in flags
          /\ end' = Extended(got)
        BY <2>2 DEF RecordEnd, Overflowed
    <2>4. start = seen[1] /\ ("high" \in flags <=> ~cctl.cci)
        BY <2>1, <2>3 DEF CapInv, SeenFollowed
    <2>5. end' = seen[2] /\ seen = <<seen[1], seen[2]>>
        BY <2>1, <2>3, ExtendedIsTime DEF CapInv, CaptureTypes
    <2> QED BY <2>4, <2>5
<1> QED BY <1>1, CaptureInvariant, PTL DEF CaptureSpec, PulseRight

=============================================================================
