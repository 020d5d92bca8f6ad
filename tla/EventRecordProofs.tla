-------------------------- MODULE EventRecordProofs --------------------------
(***************************************************************************)
(* Theorems about EventRecord, for any number of records and tags and any  *)
(* lengths of the application's array.                                     *)
(***************************************************************************)
EXTENDS EventRecord, FiniteSetTheorems, WellFoundedInduction, TLAPS

\* The flag is set before the event can be seen and stays set until the main
\* loop has taken it on to fetch, and a fetch that leaves something behind
\* sets it again.
LEMMA StepKeepsAnnounced == EventsAnnounced /\ [Next]_vars => EventsAnnounced'
<1> SUFFICES ASSUME EventsAnnounced, [Next]_vars PROVE EventsAnnounced'
    OBVIOUS
<1> USE DEF EventsAnnounced
<1>1. ASSUME NEW tag \in Tags, RecordEvent(tag) PROVE EventsAnnounced'
    <2>1. flag'
        BY <1>1 DEF RecordEvent
    <2> QED BY <2>1
<1>2. CASE FlagsGet
    BY <1>2 DEF FlagsGet
<1>3. ASSUME NEW len \in Lens, GetRecords(len) PROVE EventsAnnounced'
    <2>1. event_lost_count' = 0 /\ UNCHANGED event_head
        BY <1>3 DEF GetRecords
    <2>2. flag' = (flag \/ event_head # event_tail')
        BY <1>3, <2>1, Zenon DEF GetRecords, Empty
    <2>3. event_head' # event_tail' => flag'
        BY <2>1, <2>2, Zenon
    <2>4. ~(event_lost_count' > 0)
        BY <2>1, SMT
    <2> QED BY <2>3, <2>4, Zenon
<1>4. CASE Decide
    BY <1>4 DEF Decide
<1>5. CASE UNCHANGED vars
    BY <1>5 DEF vars
<1> QED BY <1>1, <1>2, <1>3, <1>4, <1>5 DEF Next, MainLoop

\* The main loop sleeps on no event and no loss, wherever an interrupt records
\* one and however little the application fetches at a time.
THEOREM Announced == Spec => []EventsAnnounced
<1>1. Init => EventsAnnounced
    BY DEF Init, EventsAnnounced
<1> QED BY <1>1, StepKeepsAnnounced, PTL DEF Spec

-----------------------------------------------------------------------------
(* Numbers.                                                                *)

\* A set of naturals that is not empty has a least element.
LEMMA LeastOne ==
    ASSUME NEW T, T \subseteq Nat, T # {}
    PROVE  \E x \in T : \A y \in T : x <= y
<1> DEFINE R == {p \in Nat \X Nat : p[1] < p[2]}
<1>1. IsWellFoundedOn(R, Nat)
    BY NatLessThanWellFounded DEF OpToRel
<1> HIDE DEF R
<1>2. PICK x \in T : \A y \in T : ~(<<y, x>> \in R)
    BY <1>1, WFMin
<1>3. \A y, z \in Nat : y < z => <<y, z>> \in R
    BY DEF R
<1>4. ASSUME NEW y \in T PROVE x <= y
    <2>1. x \in Nat /\ y \in Nat /\ ~(y < x)
        BY <1>2, <1>3
    <2> QED BY <2>1
<1> QED BY <1>4

\* The least and the greatest position in a set of positions.
LEMMA MinMaxFacts ==
    ASSUME NEW n \in Nat, NEW T, T \subseteq 1..n, T # {}
    PROVE  /\ Min(T) \in T /\ \A y \in T : Min(T) <= y
           /\ Max(T) \in T /\ \A y \in T : y <= Max(T)
<1>0. T \subseteq Nat /\ \A y \in T : n - y \in Nat
    OBVIOUS
<1>1. \E x \in T : \A y \in T : x <= y
    BY <1>0, LeastOne
<1>2. \E x \in T : \A y \in T : x >= y
    <2> DEFINE U == {n - y : y \in T}
    <2>1. U \subseteq Nat /\ U # {}
        BY <1>0
    <2> HIDE DEF U
    <2>2. PICK u \in U : \A v \in U : u <= v
        BY <2>1, LeastOne
    <2> USE DEF U
    <2>3. PICK x \in T : u = n - x
        BY <2>2
    <2>4. ASSUME NEW y \in T PROVE x >= y
        <3>1. n - x <= n - y
            BY <2>2, <2>3
        <3> QED BY <3>1
    <2> QED BY <2>4
<1>3. Min(T) \in T /\ \A y \in T : Min(T) <= y
    BY <1>1 DEF Min
<1>4. Max(T) \in T /\ \A y \in T : Max(T) >= y
    BY <1>2 DEF Max
<1> QED BY <1>3, <1>4

\* Remainders of numbers that are out of range once at most.
LEMMA ModFacts ==
    ASSUME NEW n \in Nat, n > 0
    PROVE  \A x \in Int : -n <= x /\ x < 2 * n =>
               x % n = IF x < 0 THEN x + n ELSE IF x < n THEN x ELSE x - n
BY SMT

-----------------------------------------------------------------------------
(* The events in a buffer, oldest first: the n events of a sequence q.     *)

Recs == [tag : Tags, seqno : 0..(SeqMod - 1)]

\* The sequence number of the oldest event of a tag from the i-th on, or next
\* if there is none.
Oldest(q, n, next, tag, i) ==
    LET of == {j \in i..n : q[j].tag = tag}
    IN  IF of = {} THEN next ELSE q[Min(of)].seqno

\* The events of each tag follow each other without a gap up to the next one.
InOrder(q, n, next) ==
    \A i \in 1..n :
        Oldest(q, n, next[q[i].tag], q[i].tag, i + 1) = (q[i].seqno + 1) % SeqMod

\* The first event of a tag from the i-th on is the k-th; or there is none.
FirstAt(q, n, tag, i, k) ==
    k \in i..n /\ q[k].tag = tag /\ \A j \in i..(k - 1) : q[j].tag # tag

NoneFrom(q, n, tag, i) == \A j \in i..n : q[j].tag # tag

LEMMA FirstOrNone ==
    ASSUME NEW n \in Nat, NEW q, NEW tag, NEW i \in 1..(n + 1)
    PROVE  NoneFrom(q, n, tag, i) \/ \E k \in i..n : FirstAt(q, n, tag, i, k)
<1> DEFINE of == {j \in i..n : q[j].tag = tag}
<1>1. of \subseteq 1..n
    OBVIOUS
<1>2. of # {} => Min(of) \in of /\ \A y \in of : Min(of) <= y
    <2> HIDE DEF of
    <2> QED BY <1>1, MinMaxFacts
<1>3. ASSUME of # {} PROVE \E k \in i..n : FirstAt(q, n, tag, i, k)
    <2>1. Min(of) \in i..n /\ q[Min(of)].tag = tag
        BY <1>2, <1>3
    <2>2. ASSUME NEW j \in i..(Min(of) - 1) PROVE q[j].tag # tag
        <3>1. j \in i..n /\ ~(Min(of) <= j)
            <4> HIDE DEF of
            <4> QED BY <2>1
        <3> QED BY <1>2, <1>3, <3>1
    <2> QED BY <2>1, <2>2 DEF FirstAt
<1> QED BY <1>3 DEF NoneFrom

\* What Oldest is, without the search.
LEMMA OldestFacts ==
    ASSUME NEW n \in Nat, NEW q, NEW next, NEW tag, NEW i \in 1..(n + 1)
    PROVE  /\ NoneFrom(q, n, tag, i) => Oldest(q, n, next, tag, i) = next
           /\ \A k : FirstAt(q, n, tag, i, k) => Oldest(q, n, next, tag, i) = q[k].seqno
<1> DEFINE of == {j \in i..n : q[j].tag = tag}
<1>1. Oldest(q, n, next, tag, i) = IF of = {} THEN next ELSE q[Min(of)].seqno
    BY DEF Oldest
<1>2. of \subseteq 1..n
    OBVIOUS
<1>3. of # {} => Min(of) \in of /\ \A y \in of : Min(of) <= y
    <2> HIDE DEF of
    <2> QED BY <1>2, MinMaxFacts
<1>4. NoneFrom(q, n, tag, i) => Oldest(q, n, next, tag, i) = next
    BY <1>1 DEF NoneFrom
<1>5. ASSUME NEW k, FirstAt(q, n, tag, i, k) PROVE Oldest(q, n, next, tag, i) = q[k].seqno
    <2>1. k \in i..n /\ k \in of
        BY <1>5 DEF FirstAt
    <2>2. Min(of) \in i..n /\ q[Min(of)].tag = tag /\ Min(of) <= k
        BY <1>3, <2>1
    <2>3. Min(of) = k
        <3> HIDE DEF of
        <3> QED BY <1>5, <2>1, <2>2 DEF FirstAt
    <2> QED BY <1>1, <2>1, <2>3
<1> QED BY <1>4, <1>5

\* Taking out the k oldest events.
Pop(n, q, k, p) == \A i \in 1..(n - k) : p[i] = q[i + k]

LEMMA PopKeeps ==
    ASSUME NEW n \in Nat, NEW q, NEW next, NEW k \in 0..n,
           NEW p, Pop(n, q, k, p)
    PROVE  /\ \A tag, x : \A i \in 1..(n - k + 1) :
                  Oldest(p, n - k, x, tag, i) = Oldest(q, n, x, tag, i + k)
           /\ InOrder(q, n, next) => InOrder(p, n - k, next)
<1> USE DEF Pop
<1>0. PICK m \in Nat : m = n - k
    OBVIOUS
<1>1. ASSUME NEW tag, NEW x, NEW i \in 1..(m + 1)
      PROVE  Oldest(p, m, x, tag, i) = Oldest(q, n, x, tag, i + k)
    <2>0. i + k \in 1..(n + 1)
        BY <1>0
    <2>1. CASE NoneFrom(p, m, tag, i)
        <3>1. ASSUME NEW j \in (i + k)..n PROVE q[j].tag # tag
            <4>1. j - k \in i..m /\ j - k \in 1..(n - k) /\ (j - k) + k = j
                BY <1>0
            <4> QED BY <2>1, <4>1 DEF NoneFrom
        <3>2. NoneFrom(q, n, tag, i + k)
            BY <3>1 DEF NoneFrom
        <3> QED BY <2>0, <2>1, <3>2, OldestFacts
    <2>2. ASSUME NEW y \in i..m, FirstAt(p, m, tag, i, y)
          PROVE  Oldest(p, m, x, tag, i) = Oldest(q, n, x, tag, i + k)
        <3>1. y + k \in (i + k)..n /\ p[y] = q[y + k]
            BY <1>0
        <3>2. ASSUME NEW j \in (i + k)..(y + k - 1) PROVE q[j].tag # tag
            <4>1. j - k \in i..(y - 1) /\ j - k \in 1..(n - k) /\ (j - k) + k = j
                BY <1>0
            <4> QED BY <2>2, <4>1 DEF FirstAt
        <3>3. FirstAt(q, n, tag, i + k, y + k)
            BY <2>2, <3>1, <3>2 DEF FirstAt
        <3>4. Oldest(p, m, x, tag, i) = p[y].seqno
            BY <2>2, OldestFacts
        <3>5. Oldest(q, n, x, tag, i + k) = q[y + k].seqno
            BY <2>0, <3>3, OldestFacts
        <3> QED BY <3>1, <3>4, <3>5
    <2> QED BY <2>1, <2>2, FirstOrNone
<1>2. ASSUME InOrder(q, n, next), NEW i \in 1..(n - k)
      PROVE  Oldest(p, n - k, next[p[i].tag], p[i].tag, i + 1) = (p[i].seqno + 1) % SeqMod
    <2>1. i + k \in 1..n /\ i + 1 \in 1..(n - k + 1) /\ (i + 1) + k = (i + k) + 1
        OBVIOUS
    <2>2. Oldest(p, n - k, next[p[i].tag], p[i].tag, i + 1)
              = Oldest(q, n, next[q[i + k].tag], q[i + k].tag, (i + k) + 1)
        BY <1>0, <1>1, <2>1
    <2> QED BY <1>2, <2>1, <2>2 DEF InOrder
<1> QED BY <1>0, <1>1, <1>2 DEF InOrder

\* Putting in a new event, at the cost of the oldest one if s is 1.
Push(n, q, next, tag, s, m, p, after) ==
    /\ s \in 0..1 /\ s <= n /\ m = n + 1 - s
    /\ next \in [Tags -> 0..(SeqMod - 1)] /\ \A i \in 1..n : q[i].tag \in Tags
    /\ \A i \in 1..(m - 1) : p[i] = q[i + s]
    /\ p[m] = [tag |-> tag, seqno |-> next[tag]]
    /\ after = [next EXCEPT ![tag] = (@ + 1) % SeqMod]

LEMMA PushKeeps ==
    ASSUME NEW n \in Nat, NEW q, NEW next, NEW tag \in Tags, NEW s, NEW m, NEW p, NEW after,
           Push(n, q, next, tag, s, m, p, after)
    PROVE  /\ \A g \in Tags : \A i \in 1..m :
                  Oldest(p, m, after[g], g, i) = Oldest(q, n, next[g], g, i + s)
           /\ InOrder(q, n, next) => InOrder(p, m, after)
<1> USE DEF Push
<1>0. m \in Nat /\ m > 0
    OBVIOUS
<1>1. ASSUME NEW g \in Tags, NEW i \in 1..m
      PROVE  Oldest(p, m, after[g], g, i) = Oldest(q, n, next[g], g, i + s)
    <2>0. i \in 1..(m + 1) /\ i + s \in 1..(n + 1)
        BY <1>0
    <2>1. CASE NoneFrom(q, n, g, i + s)
        <3>1. ASSUME NEW j \in i..(m - 1) PROVE p[j].tag # g
            <4>1. j + s \in (i + s)..n /\ j \in 1..(m - 1)
                BY <1>0
            <4> QED BY <2>1, <4>1 DEF NoneFrom
        <3>2. Oldest(q, n, next[g], g, i + s) = next[g]
            BY <2>0, <2>1, OldestFacts
        <3>3. CASE g = tag
            <4>1. FirstAt(p, m, g, i, m)
                BY <1>0, <3>1, <3>3 DEF FirstAt
            <4>2. Oldest(p, m, after[g], g, i) = p[m].seqno
                BY <1>0, <2>0, <4>1, OldestFacts
            <4> QED BY <3>2, <3>3, <4>2
        <3>4. CASE g # tag
            <4>1. p[m].tag = tag /\ \A j \in i..m : j = m \/ j \in i..(m - 1)
                BY <1>0
            <4>2. NoneFrom(p, m, g, i)
                BY <3>1, <3>4, <4>1 DEF NoneFrom
            <4>3. Oldest(p, m, after[g], g, i) = after[g]
                BY <1>0, <2>0, <4>2, OldestFacts
            <4> QED BY <3>2, <3>4, <4>3
        <3> QED BY <3>3, <3>4
    <2>2. ASSUME NEW y \in (i + s)..n, FirstAt(q, n, g, i + s, y)
          PROVE  Oldest(p, m, after[g], g, i) = Oldest(q, n, next[g], g, i + s)
        <3>1. PICK z \in Int : z = y - s
            OBVIOUS
        <3>2. z \in i..m /\ z \in 1..(m - 1) /\ z + s = y
            BY <1>0, <3>1
        <3>3. p[z] = q[y]
            BY <3>2
        <3>4. ASSUME NEW j \in i..(z - 1) PROVE p[j].tag # g
            <4>1. j + s \in (i + s)..(y - 1) /\ j \in 1..(m - 1)
                BY <1>0, <3>1, <3>2
            <4> QED BY <2>2, <4>1 DEF FirstAt
        <3>5. FirstAt(p, m, g, i, z)
            BY <2>2, <3>2, <3>3, <3>4 DEF FirstAt
        <3>6. Oldest(p, m, after[g], g, i) = p[z].seqno
            BY <1>0, <2>0, <3>5, OldestFacts
        <3>7. Oldest(q, n, next[g], g, i + s) = q[y].seqno
            BY <2>0, <2>2, OldestFacts
        <3> QED BY <3>3, <3>6, <3>7
    <2> QED BY <2>0, <2>1, <2>2, FirstOrNone
<1>2. ASSUME InOrder(q, n, next), NEW i \in 1..m
      PROVE  Oldest(p, m, after[p[i].tag], p[i].tag, i + 1) = (p[i].seqno + 1) % SeqMod
    <2>1. CASE i = m
        <3>1. NoneFrom(p, m, p[i].tag, i + 1)
            BY <1>0, <2>1 DEF NoneFrom
        <3>2. i + 1 \in 1..(m + 1)
            BY <1>0
        <3>3. Oldest(p, m, after[p[i].tag], p[i].tag, i + 1) = after[p[i].tag]
            BY <1>0, <3>1, <3>2, OldestFacts
        <3>4. p[i].tag = tag /\ p[i].seqno = next[tag]
            BY <2>1
        <3> QED BY <3>3, <3>4
    <2>2. CASE i # m
        <3>1. i \in 1..(m - 1) /\ i + s \in 1..n /\ i + 1 \in 1..m /\ (i + 1) + s = (i + s) + 1
            BY <1>0, <2>2
        <3>2. p[i] = q[i + s] /\ q[i + s].tag \in Tags
            BY <3>1
        <3>3. Oldest(p, m, after[p[i].tag], p[i].tag, i + 1)
                  = Oldest(q, n, next[q[i + s].tag], q[i + s].tag, (i + s) + 1)
            BY <1>1, <3>1, <3>2
        <3> QED BY <1>2, <3>1, <3>2, <3>3 DEF InOrder
    <2> QED BY <2>1, <2>2
<1> QED BY <1>1, <1>2 DEF InOrder

\* Events of other tags do not matter.
LEMMA SkipOthers ==
    ASSUME NEW n \in Nat, NEW q, NEW next, NEW tag, NEW i \in 1..(n + 1), NEW h \in i..(n + 1),
           \A j \in i..(h - 1) : q[j].tag # tag
    PROVE  Oldest(q, n, next, tag, i) = Oldest(q, n, next, tag, h)
<1>0. h \in 1..(n + 1)
    OBVIOUS
<1>1. CASE NoneFrom(q, n, tag, h)
    <2>1. \A j \in i..n : j \in i..(h - 1) \/ j \in h..n
        OBVIOUS
    <2>2. NoneFrom(q, n, tag, i)
        BY <1>1, <2>1 DEF NoneFrom
    <2> QED BY <1>0, <1>1, <2>2, OldestFacts
<1>2. ASSUME NEW k \in h..n, FirstAt(q, n, tag, h, k)
      PROVE  Oldest(q, n, next, tag, i) = Oldest(q, n, next, tag, h)
    <2>1. k \in i..n /\ \A j \in i..(k - 1) : j \in i..(h - 1) \/ j \in h..(k - 1)
        OBVIOUS
    <2>2. FirstAt(q, n, tag, i, k)
        BY <1>2, <2>1 DEF FirstAt
    <2> QED BY <1>0, <1>2, <2>2, OldestFacts
<1> QED BY <1>0, <1>1, <1>2, FirstOrNone

\* Oldest is a sequence number.
LEMMA OldestType ==
    ASSUME NEW n \in Nat, NEW q, \A j \in 1..n : q[j] \in Recs,
           NEW next \in 0..(SeqMod - 1), NEW tag, NEW i \in 1..(n + 1)
    PROVE  Oldest(q, n, next, tag, i) \in 0..(SeqMod - 1)
<1>1. CASE NoneFrom(q, n, tag, i)
    BY <1>1, OldestFacts
<1>2. ASSUME NEW k \in i..n, FirstAt(q, n, tag, i, k)
      PROVE  Oldest(q, n, next, tag, i) \in 0..(SeqMod - 1)
    <2>1. q[k] \in Recs
        OBVIOUS
    <2>2. Oldest(q, n, next, tag, i) = q[k].seqno
        BY <1>2, OldestFacts
    <2> QED BY <2>1, <2>2 DEF Recs
<1> QED BY <1>1, <1>2, FirstOrNone

-----------------------------------------------------------------------------
(* The events missed, when each tag has a gap.                             *)

Below(gap) == {m \in Tags \X (0..(SeqMod - 1)) : m[2] < gap[m[1]]}

LEMMA BelowFinite ==
    ASSUME NEW gap PROVE IsFiniteSet(Below(gap)) /\ Cardinality(Below(gap)) \in Nat
<1>1. IsFiniteSet(0..(SeqMod - 1))
    BY EventAssumption, FS_Interval
<1>2. IsFiniteSet(Tags \X (0..(SeqMod - 1)))
    BY <1>1, EventAssumption, FS_Product
<1>3. Below(gap) \subseteq Tags \X (0..(SeqMod - 1))
    BY DEF Below
<1>4. IsFiniteSet(Below(gap))
    BY <1>2, <1>3, FS_Subset
<1> QED BY <1>4, FS_CardinalityType

\* No gap is wider than the number of events missed.
LEMMA BelowBounds ==
    ASSUME NEW gap \in [Tags -> 0..(SeqMod - 1)], NEW x \in Tags
    PROVE  gap[x] <= Cardinality(Below(gap))
<1>0. gap[x] \in 0..(SeqMod - 1) /\ SeqMod \in Nat
    BY EventAssumption
<1> DEFINE G == 0..(gap[x] - 1)
<1>1. IsFiniteSet(G) /\ Cardinality(G) = gap[x]
    <2>1. PICK top \in Int : top = gap[x] - 1
        BY <1>0
    <2>2. IsFiniteSet(0..top) /\ Cardinality(0..top) = IF 0 > top THEN 0 ELSE top - 0 + 1
        BY FS_Interval
    <2> QED BY <1>0, <2>1, <2>2
<1>2. IsFiniteSet({x}) /\ Cardinality({x}) = 1
    BY FS_Singleton
<1>3. {x} \X G \subseteq Below(gap)
    BY <1>0 DEF Below
<1> HIDE DEF G
<1>4. Cardinality({x} \X G) = 1 * gap[x]
    BY <1>1, <1>2, FS_Product
<1>5. Cardinality({x} \X G) <= Cardinality(Below(gap))
    BY <1>3, BelowFinite, FS_Subset
<1> QED BY <1>0, <1>4, <1>5

\* One more event of one tag.
LEMMA BelowGrows ==
    ASSUME NEW gap \in [Tags -> 0..(SeqMod - 1)], NEW x \in Tags, gap[x] + 1 < SeqMod,
           NEW wider, wider = [gap EXCEPT ![x] = gap[x] + 1]
    PROVE  Cardinality(Below(wider)) = Cardinality(Below(gap)) + 1
<1>0. gap[x] \in 0..(SeqMod - 1) /\ SeqMod \in Nat
    BY EventAssumption
<1>1. ~(<<x, gap[x]>> \in Below(gap))
    BY <1>0 DEF Below
<1>2. Below(wider) = Below(gap) \cup {<<x, gap[x]>>}
    <2>1. ASSUME NEW g \in Tags, NEW k \in 0..(SeqMod - 1)
          PROVE  k < wider[g] <=> k < gap[g] \/ (g = x /\ k = gap[x])
        <3>1. CASE g = x
            BY <1>0, <3>1
        <3>2. CASE g # x
            BY <3>2
        <3> QED BY <3>1, <3>2
    <2>2. <<x, gap[x]>> \in Tags \X (0..(SeqMod - 1))
        BY <1>0
    <2>3. ASSUME NEW m \in Tags \X (0..(SeqMod - 1))
          PROVE  m \in Below(wider) <=> m \in Below(gap) \/ m = <<x, gap[x]>>
        <3>1. m[1] \in Tags /\ m[2] \in 0..(SeqMod - 1) /\ m = <<m[1], m[2]>>
            OBVIOUS
        <3>2. m = <<x, gap[x]>> <=> m[1] = x /\ m[2] = gap[x]
            BY <3>1
        <3> QED BY <2>1, <3>1, <3>2 DEF Below
    <2>4. Below(wider) \subseteq Tags \X (0..(SeqMod - 1))
          /\ Below(gap) \subseteq Tags \X (0..(SeqMod - 1))
        BY DEF Below
    <2> QED BY <2>2, <2>3, <2>4
<1> QED BY <1>1, <1>2, BelowFinite, FS_AddElement

\* No event missed at all.
LEMMA BelowEmpty ==
    ASSUME NEW gap, \A x \in Tags : gap[x] = 0
    PROVE  Cardinality(Below(gap)) = 0
<1>1. Below(gap) = {}
    BY DEF Below
<1> QED BY <1>1, FS_EmptySet

-----------------------------------------------------------------------------
(* The slots of a buffer of N places whose head is h and whose tail is t.  *)

LEMMA SlotFacts ==
    ASSUME NEW N \in Nat, N >= 2, NEW h \in 0..(N - 1), NEW t \in 0..(N - 1),
           NEW n, n = (h - t) % N
    PROVE  /\ n \in 0..(N - 1) /\ n = IF h < t THEN h - t + N ELSE h - t
           /\ \A i \in 1..n : (t + i - 1) % N \in 0..(N - 1) /\ (t + i - 1) % N # h
<1>1. n = IF h < t THEN h - t + N ELSE h - t
    BY ModFacts
<1>2. n \in 0..(N - 1)
    BY <1>1
<1>3. ASSUME NEW i \in 1..n
      PROVE  (t + i - 1) % N \in 0..(N - 1) /\ (t + i - 1) % N # h
    <2>1. (t + i - 1) % N = IF t + i - 1 < N THEN t + i - 1 ELSE t + i - 1 - N
        <3>1. PICK x \in Int : x = t + i - 1
            BY <1>2
        <3>2. -N <= x /\ x < 2 * N /\ ~(x < 0)
            BY <1>2, <3>1
        <3> QED BY <3>1, <3>2, ModFacts
    <2> QED BY <1>1, <1>2, <2>1
<1> QED BY <1>1, <1>2, <1>3

\* The tail moves on by k: the count follows and the records left keep their
\* slots.
Popped(N, h, t, n, k, t2) ==
    /\ t2 \in 0..(N - 1) /\ (h - t2) % N = n - k
    /\ \A i \in 1..(n - k) : (t2 + i - 1) % N = (t + (i + k) - 1) % N

LEMMA PopSlots ==
    ASSUME NEW N \in Nat, N >= 2, NEW h \in 0..(N - 1), NEW t \in 0..(N - 1),
           NEW n, n = (h - t) % N, NEW k \in 0..n, NEW t2, t2 = (t + k) % N
    PROVE  Popped(N, h, t, n, k, t2)
<1> USE DEF Popped
<1>1. n \in 0..(N - 1) /\ n = IF h < t THEN h - t + N ELSE h - t
    BY SlotFacts
<1>2. t2 = IF t + k < N THEN t + k ELSE t + k - N
    <2>1. PICK x \in Int : x = t + k
        BY <1>1
    <2>2. -N <= x /\ x < 2 * N /\ ~(x < 0)
        BY <1>1, <2>1
    <2> QED BY <2>1, <2>2, ModFacts
<1>3. t2 \in 0..(N - 1)
    BY <1>1, <1>2
<1>4. (h - t2) % N = n - k
    <2>1. (h - t2) % N = IF h - t2 < 0 THEN h - t2 + N ELSE h - t2
        BY <1>3, ModFacts
    <2> QED BY <1>1, <1>2, <1>3, <2>1
<1>5. ASSUME NEW i \in 1..(n - k)
      PROVE  (t2 + i - 1) % N = (t + (i + k) - 1) % N
    <2>1. PICK x \in Int, y \in Int : x = t2 + i - 1 /\ y = t + (i + k) - 1
        BY <1>1, <1>3
    <2>2. -N <= x /\ x < 2 * N /\ ~(x < 0) /\ -N <= y /\ y < 2 * N /\ ~(y < 0)
        BY <1>1, <1>3, <2>1
    <2>3. x % N = (IF x < N THEN x ELSE x - N) /\ y % N = (IF y < N THEN y ELSE y - N)
        BY <2>2, ModFacts
    <2>4. x = y \/ x = y - N
        BY <1>1, <1>2, <2>1
    <2>5. x % N = y % N
        BY <2>2, <2>3, <2>4
    <2> QED BY <2>1, <2>5
<1> QED BY <1>3, <1>4, <1>5

\* The head moves on, and the tail if s is 1.
Move(N, h, t, n, h2, t2, s) ==
    /\ n = (h - t) % N
    /\ h2 = IF h + 1 = N THEN 0 ELSE h + 1
    /\ s = IF h2 = t THEN 1 ELSE 0
    /\ t2 = IF h2 = t THEN IF t + 1 = N THEN 0 ELSE t + 1 ELSE t

\* The count follows, the records left keep their slots and the last slot is
\* the one the head was at.
Moved(N, h, t, n, h2, t2, s) ==
    /\ s <= n /\ h2 \in 0..(N - 1) /\ t2 \in 0..(N - 1)
    /\ (h2 - t2) % N = n + 1 - s
    /\ \A i \in 1..(n - s) : (t2 + i - 1) % N = (t + (i + s) - 1) % N
    /\ (t2 + (n + 1 - s) - 1) % N = h

LEMMA PushSlots ==
    ASSUME NEW N \in Nat, N >= 2, NEW h \in 0..(N - 1), NEW t \in 0..(N - 1),
           NEW n, NEW h2, NEW t2, NEW s, Move(N, h, t, n, h2, t2, s)
    PROVE  Moved(N, h, t, n, h2, t2, s)
<1> USE DEF Move, Moved
<1>1. n \in 0..(N - 1) /\ n = IF h < t THEN h - t + N ELSE h - t
    BY SlotFacts
<1>2. h2 \in 0..(N - 1) /\ t2 \in 0..(N - 1) /\ s \in 0..1 /\ s <= n
    BY <1>1
<1>3. (h2 - t2) % N = n + 1 - s
    <2>1. (h2 - t2) % N = IF h2 - t2 < 0 THEN h2 - t2 + N ELSE h2 - t2
        BY <1>2, ModFacts
    <2> QED BY <1>1, <1>2, <2>1
<1>4. ASSUME NEW i \in 1..(n - s)
      PROVE  (t2 + i - 1) % N = (t + (i + s) - 1) % N
    <2>1. PICK x \in Int, y \in Int : x = t2 + i - 1 /\ y = t + (i + s) - 1
        BY <1>1, <1>2
    <2>2. -N <= x /\ x < 2 * N /\ ~(x < 0) /\ -N <= y /\ y < 2 * N /\ ~(y < 0)
        BY <1>1, <1>2, <2>1
    <2>3. x % N = (IF x < N THEN x ELSE x - N) /\ y % N = (IF y < N THEN y ELSE y - N)
        BY <2>2, ModFacts
    <2>4. x = y \/ x = y - N
        BY <1>1, <2>1
    <2>5. x % N = y % N
        BY <2>2, <2>3, <2>4
    <2> QED BY <2>1, <2>5
<1>5. (t2 + (n + 1 - s) - 1) % N = h
    <2>1. PICK x \in Int : x = t2 + (n + 1 - s) - 1
        BY <1>1, <1>2
    <2>2. -N <= x /\ x < 2 * N /\ ~(x < 0)
        BY <1>1, <1>2, <2>1
    <2>3. x % N = IF x < N THEN x ELSE x - N
        BY <2>2, ModFacts
    <2>4. x = h \/ x = h + N
        BY <1>1, <1>2, <2>1
    <2> QED BY <2>1, <2>2, <2>3, <2>4
<1> QED BY <1>2, <1>3, <1>4, <1>5

-----------------------------------------------------------------------------
(* The buffer of the program.                                              *)

Buf == [i \in 1..Count |-> Record(i)]

Gaps == [tag \in Tags |-> Gap(tag)]

BufOK ==
    /\ Count \in 0..(NumRecords - 1)
    /\ \A i \in 1..Count : /\ Buf[i] = xBSP430eventRecord[(event_tail + i - 1) % NumRecords]
                           /\ Buf[i] \in Recs
    /\ \A tag \in Tags : \A i \in 1..(Count + 1) :
           /\ OldestFrom(tag, i) = Oldest(Buf, Count, seqno[tag], tag, i)
           /\ OldestFrom(tag, i) \in 0..(SeqMod - 1)
    /\ Gaps \in [Tags -> 0..(SeqMod - 1)]
    /\ \A tag \in Tags :
           Gaps[tag] = (Oldest(Buf, Count, seqno[tag], tag, 1) - expected[tag]) % SeqMod
    /\ LossesCounted <=> /\ InOrder(Buf, Count, seqno)
                         /\ event_lost_count = Cardinality(Below(Gaps))

LEMMA BufFacts == TypeOK => BufOK
<1> SUFFICES ASSUME TypeOK PROVE BufOK
    OBVIOUS
<1>0. /\ NumRecords \in Nat /\ NumRecords >= 2 /\ SeqMod \in Nat /\ SeqMod > 0
      /\ event_head \in 0..(NumRecords - 1) /\ event_tail \in 0..(NumRecords - 1)
    BY EventAssumption DEF TypeOK
<1>1. Count \in 0..(NumRecords - 1)
    BY <1>0, SlotFacts DEF Count
<1>2. ASSUME NEW i \in 1..Count
      PROVE  /\ Buf[i] = Record(i)
             /\ Buf[i] = xBSP430eventRecord[(event_tail + i - 1) % NumRecords]
             /\ Buf[i] \in Recs
    <2>1. Buf[i] = Record(i)
        BY DEF Buf
    <2>2. (event_tail + i - 1) % NumRecords \in 0..(NumRecords - 1)
        BY <1>0, <1>2, SlotFacts DEF Count
    <2>3. xBSP430eventRecord[(event_tail + i - 1) % NumRecords] \in Recs
        BY <2>2 DEF TypeOK, Recs
    <2> QED BY <2>1, <2>3 DEF Record
<1>3. ASSUME NEW tag \in Tags, NEW i \in 1..(Count + 1)
      PROVE  OldestFrom(tag, i) = Oldest(Buf, Count, seqno[tag], tag, i)
    <2>1. \A j \in i..Count : j \in 1..Count
        BY <1>1
    <2>2. {j \in i..Count : Record(j).tag = tag} = {j \in i..Count : Buf[j].tag = tag}
        BY <1>2, <2>1
    <2>3. {j \in i..Count : Record(j).tag = tag} \subseteq 1..Count
        BY <2>1
    <2> DEFINE of == {j \in i..Count : Record(j).tag = tag}
    <2>4. of # {} => Record(Min(of)) = Buf[Min(of)]
        <3> HIDE DEF of
        <3>1. of # {} => Min(of) \in 1..Count
            BY <1>1, <2>3, MinMaxFacts DEF of
        <3> QED BY <1>2, <3>1
    <2>5. OldestFrom(tag, i) = IF of = {} THEN seqno[tag] ELSE Record(Min(of)).seqno
        BY DEF OldestFrom
    <2>6. Oldest(Buf, Count, seqno[tag], tag, i)
              = IF of = {} THEN seqno[tag] ELSE Buf[Min(of)].seqno
        BY <2>2 DEF Oldest
    <2> QED BY <2>4, <2>5, <2>6
<1>4. ASSUME NEW tag \in Tags, NEW i \in 1..(Count + 1)
      PROVE  OldestFrom(tag, i) \in 0..(SeqMod - 1)
    <2>1. seqno[tag] \in 0..(SeqMod - 1)
        BY DEF TypeOK
    <2>2. Count \in Nat /\ \A j \in 1..Count : Buf[j] \in Recs
        BY <1>1, <1>2
    <2>3. Oldest(Buf, Count, seqno[tag], tag, i) \in 0..(SeqMod - 1)
        BY <2>1, <2>2, OldestType
    <2> QED BY <1>3, <2>3
<1>5. ASSUME NEW tag \in Tags
      PROVE  /\ Gaps[tag] = (Oldest(Buf, Count, seqno[tag], tag, 1) - expected[tag]) % SeqMod
             /\ Gaps[tag] \in 0..(SeqMod - 1)
    <2>1. 1 \in 1..(Count + 1)
        BY <1>1
    <2>2. expected[tag] \in 0..(SeqMod - 1)
        BY DEF TypeOK
    <2>3. PICK x \in 0..(SeqMod - 1) : x = OldestFrom(tag, 1)
        BY <1>4, <2>1
    <2>4. (x - expected[tag]) % SeqMod \in 0..(SeqMod - 1)
        BY <1>0, <2>2, <2>3
    <2>5. Gaps[tag] = (x - expected[tag]) % SeqMod
        BY <2>3 DEF Gaps, Gap
    <2> QED BY <1>3, <2>1, <2>3, <2>4, <2>5
<1>6. Gaps \in [Tags -> 0..(SeqMod - 1)]
    BY <1>5 DEF Gaps
<1>7. Missed = Below(Gaps)
    <2>1. \A tag \in Tags : Gaps[tag] = Gap(tag)
        BY DEF Gaps
    <2>2. \A m \in Tags \X (0..(SeqMod - 1)) : Gaps[m[1]] = Gap(m[1])
        BY <2>1
    <2> QED BY <2>2 DEF Missed, Below
<1>8. (\A i \in 1..Count :
           OldestFrom(Record(i).tag, i + 1) = (Record(i).seqno + 1) % SeqMod)
      <=> InOrder(Buf, Count, seqno)
    <2>1. ASSUME NEW i \in 1..Count
          PROVE  OldestFrom(Record(i).tag, i + 1)
                     = Oldest(Buf, Count, seqno[Buf[i].tag], Buf[i].tag, i + 1)
        <3>1. Buf[i].tag \in Tags /\ i + 1 \in 1..(Count + 1)
            BY <1>1, <1>2 DEF Recs
        <3> QED BY <1>2, <1>3, <3>1
    <2> QED BY <1>2, <2>1 DEF InOrder
<1>9. LossesCounted <=> /\ InOrder(Buf, Count, seqno)
                        /\ event_lost_count = Cardinality(Below(Gaps))
    BY <1>7, <1>8 DEF LossesCounted
<1> QED BY <1>1, <1>2, <1>3, <1>4, <1>5, <1>6, <1>9 DEF BufOK

LEMMA BufFactsNext == TypeOK' => BufOK'
BY BufFacts, PTL

-----------------------------------------------------------------------------
(* The steps.                                                              *)

Inv == TypeOK /\ LossesCounted

\* A fetch takes no more records than there are.
LEMMA FetchedFacts ==
    ASSUME TypeOK, BufOK, NEW len \in Lens PROVE Fetched(len) \in 0..Count
<1>1. Count \in Nat /\ len \in Nat /\ len > 0
    BY EventAssumption DEF BufOK
<1>2. PICK room \in Nat : room = len - (IF event_lost_count > 0 THEN 1 ELSE 0)
    BY <1>1
<1>3. \E x \in {Count, room} : \A y \in {Count, room} : x <= y
    BY <1>1
<1>4. Min({Count, room}) \in {Count, room} /\ Min({Count, room}) <= Count
    BY <1>3 DEF Min
<1>5. Fetched(len) = Min({Count, room})
    BY <1>2 DEF Fetched
<1> QED BY <1>1, <1>4, <1>5

\* What the application expects after a fetch is what the buffer goes on with.
LEMMA ExpectedFacts ==
    ASSUME TypeOK, BufOK, LossesCounted, NEW k \in 0..Count, NEW tag \in Tags
    PROVE  ExpectedAfter(tag, k) = Oldest(Buf, Count, seqno[tag], tag, k + 1)
<1>0. /\ Count \in Nat /\ k + 1 \in 1..(Count + 1) /\ 1 \in 1..(Count + 1)
      /\ \A j \in 1..k : j \in 1..Count
    BY DEF BufOK
<1> DEFINE of == {j \in 1..k : Buf[j].tag = tag}
<1>1. \A j \in 1..Count : Buf[j] = Record(j)
    BY DEF BufOK, Record
<1>2. ExpectedAfter(tag, k)
          = IF of # {} THEN (Buf[Max(of)].seqno + 1) % SeqMod
            ELSE IF event_lost_count > 0 THEN OldestFrom(tag, 1) ELSE expected[tag]
    <2>1. of = {j \in 1..k : Record(j).tag = tag}
        BY <1>0, <1>1
    <2>2. of # {} => Max(of) \in 1..Count
        <3>1. of \subseteq 1..Count
            BY <1>0
        <3> HIDE DEF of
        <3> QED BY <1>0, <3>1, MinMaxFacts
    <2>3. of # {} => Buf[Max(of)] = Record(Max(of))
        BY <1>1, <2>2
    <2>4. ExpectedAfter(tag, k)
              = IF of # {} THEN (Record(Max(of)).seqno + 1) % SeqMod
                ELSE IF event_lost_count > 0 THEN OldestFrom(tag, 1) ELSE expected[tag]
        BY <2>1 DEF ExpectedAfter
    <2> QED BY <2>3, <2>4
<1>3. CASE of # {}
    <2>1. of \subseteq 1..k
        OBVIOUS
    <2>2. Max(of) \in of /\ \A y \in of : y <= Max(of)
        <3> HIDE DEF of
        <3> QED BY <1>0, <1>3, <2>1, MinMaxFacts
    <2>3. PICK z \in 1..k : z = Max(of) /\ Buf[z].tag = tag
        BY <2>2
    <2>4. ASSUME NEW j \in (z + 1)..k PROVE Buf[j].tag # tag
        <3>1. j \in 1..k /\ ~(j <= z)
            BY <2>3
        <3>2. ~(j \in of)
            <4> HIDE DEF of
            <4> QED BY <2>2, <2>3, <3>1
        <3> QED BY <3>1, <3>2
    <2>5. /\ z \in 1..Count /\ z + 1 \in 1..(Count + 1)
          /\ k + 1 \in (z + 1)..(Count + 1) /\ (k + 1) - 1 = k
        BY <1>0
    <2>6. Oldest(Buf, Count, seqno[tag], tag, z + 1)
              = Oldest(Buf, Count, seqno[tag], tag, k + 1)
        BY <1>0, <2>4, <2>5, SkipOthers
    <2>7. Oldest(Buf, Count, seqno[tag], tag, z + 1) = (Buf[z].seqno + 1) % SeqMod
        BY <2>3, <2>5 DEF InOrder, BufOK
    <2> HIDE DEF of
    <2> QED BY <1>2, <1>3, <2>3, <2>6, <2>7
<1>4. CASE of = {}
    <2>1. /\ 1 \in 1..(Count + 1) /\ k + 1 \in 1..(Count + 1) /\ (k + 1) - 1 = k
          /\ \A j \in 1..k : Buf[j].tag # tag
        BY <1>0, <1>4
    <2>2. Oldest(Buf, Count, seqno[tag], tag, 1) = Oldest(Buf, Count, seqno[tag], tag, k + 1)
        BY <1>0, <2>1, SkipOthers
    <2>3. OldestFrom(tag, 1) = Oldest(Buf, Count, seqno[tag], tag, 1)
        BY <1>0 DEF BufOK
    <2>4. ASSUME ~(event_lost_count > 0) PROVE expected[tag] = OldestFrom(tag, 1)
        <3>1. event_lost_count = 0 /\ Gaps \in [Tags -> 0..(SeqMod - 1)]
            BY <2>4 DEF TypeOK, BufOK
        <3>2. Gaps[tag] <= 0
            BY <3>1, BelowBounds DEF BufOK
        <3>3. PICK x \in 0..(SeqMod - 1) : x = OldestFrom(tag, 1)
            BY <1>0 DEF BufOK
        <3>4. PICK e \in 0..(SeqMod - 1) : e = expected[tag]
            BY DEF TypeOK
        <3>5. (x - e) % SeqMod = 0
            BY <2>3, <3>1, <3>2, <3>3, <3>4 DEF BufOK
        <3>6. SeqMod \in Nat /\ SeqMod > 0
            BY EventAssumption
        <3>7. (x - e) % SeqMod = IF x - e < 0 THEN x - e + SeqMod ELSE x - e
            BY <3>6, ModFacts
        <3>8. x = e
            BY <3>5, <3>6, <3>7
        <3> QED BY <3>3, <3>4, <3>8
    <2> QED BY <1>2, <1>4, <2>2, <2>3, <2>4
<1> QED BY <1>3, <1>4

\* A record is taken in order, and one that overwrites the oldest is counted.
LEMMA RecordStep ==
    ASSUME Inv, NEW tag \in Tags, RecordEvent(tag) PROVE Inv'
<1>0. /\ NumRecords \in Nat /\ NumRecords >= 2 /\ SeqMod \in Nat /\ SeqMod > 0
      /\ MaxLost \in Nat /\ MaxLost < SeqMod
    BY EventAssumption
<1>1. TypeOK /\ BufOK /\ LossesCounted
    BY BufFacts DEF Inv
<1>2. /\ event_head \in 0..(NumRecords - 1) /\ event_tail \in 0..(NumRecords - 1)
      /\ seqno \in [Tags -> 0..(SeqMod - 1)] /\ event_lost_count \in 0..MaxLost
    BY <1>1 DEF TypeOK
<1>3. PICK s \in 0..1 : s = IF event_head' = event_tail THEN 1 ELSE 0
    OBVIOUS
<1>4. /\ event_head' = Increment(event_head)
      /\ event_tail' = IF event_head' = event_tail THEN Increment(event_tail) ELSE event_tail
      /\ event_lost_count' = event_lost_count + s /\ event_lost_count < MaxLost
      /\ xBSP430eventRecord' = [xBSP430eventRecord EXCEPT
                                  ![event_head] = [tag |-> tag, seqno |-> seqno[tag]]]
      /\ seqno' = [seqno EXCEPT ![tag] = (seqno[tag] + 1) % SeqMod]
      /\ expected' = expected
    BY <1>2, <1>3 DEF RecordEvent
<1>5. PICK n \in 0..(NumRecords - 1) : n = Count
    BY <1>1 DEF BufOK
<1>6. /\ s <= n /\ event_head' \in 0..(NumRecords - 1) /\ event_tail' \in 0..(NumRecords - 1)
      /\ Count' = n + 1 - s
      /\ \A i \in 1..(n - s) :
            (event_tail' + i - 1) % NumRecords = (event_tail + (i + s) - 1) % NumRecords
      /\ (event_tail' + (n + 1 - s) - 1) % NumRecords = event_head
    <2>1. PICK h, t, h2, t2 :
              /\ h \in 0..(NumRecords - 1) /\ t \in 0..(NumRecords - 1)
              /\ h = event_head /\ t = event_tail
              /\ h2 = event_head' /\ t2 = event_tail'
        BY <1>2
    <2>2. Move(NumRecords, h, t, n, h2, t2, s)
        BY <1>3, <1>4, <1>5, <2>1 DEF Move, Increment, Count
    <2>3. Moved(NumRecords, h, t, n, h2, t2, s)
        BY <1>0, <2>1, <2>2, PushSlots
    <2> QED BY <2>1, <2>3 DEF Moved, Count
<1>7. TypeOK'
    <2>1. (seqno[tag] + 1) % SeqMod \in 0..(SeqMod - 1)
        BY <1>0, <1>2
    <2>2. [tag |-> tag, seqno |-> seqno[tag]] \in Recs
        BY <1>2 DEF Recs
    <2>3. xBSP430eventRecord' \in [0..(NumRecords - 1) -> Recs]
        BY <1>1, <1>4, <2>2 DEF TypeOK, Recs
    <2>4. seqno' \in [Tags -> 0..(SeqMod - 1)]
        BY <1>2, <1>4, <2>1
    <2>5. event_lost_count' \in 0..MaxLost
        BY <1>0, <1>2, <1>4
    <2>6. flag' = TRUE /\ pc' \in {"collect", "fetch", "decide", "lpm"}
        BY <1>1 DEF RecordEvent, TypeOK
    <2> QED BY <1>1, <1>4, <1>6, <2>3, <2>4, <2>5, <2>6 DEF TypeOK, Recs
<1>8. BufOK'
    BY <1>7, BufFactsNext
<1>9. PICK q, p, next, after, m :
          /\ q = Buf /\ p = Buf' /\ next = seqno /\ after = seqno'
          /\ m \in Nat /\ m = n + 1 - s
    BY <1>6
<1>10. /\ \A i \in 1..n : q[i] = xBSP430eventRecord[(event_tail + i - 1) % NumRecords]
       /\ \A i \in 1..n : q[i] \in Recs
       /\ \A i \in 1..m : p[i] = xBSP430eventRecord'[(event_tail' + i - 1) % NumRecords]
    BY <1>1, <1>5, <1>6, <1>8, <1>9 DEF BufOK
<1>11. ASSUME NEW i \in 1..(m - 1) PROVE p[i] = q[i + s]
    <2>1. i \in 1..(n - s) /\ i + s \in 1..n /\ i \in 1..m
        BY <1>6, <1>9
    <2>2. PICK slot \in 0..(NumRecords - 1) :
              slot = (event_tail + (i + s) - 1) % NumRecords /\ slot # event_head
        <3>1. PICK j \in 1..n : j = i + s
            BY <2>1
        <3>2. /\ (event_tail + j - 1) % NumRecords \in 0..(NumRecords - 1)
              /\ (event_tail + j - 1) % NumRecords # event_head
            BY <1>0, <1>2, <1>5, SlotFacts DEF Count
        <3> QED BY <3>1, <3>2
    <2>3. p[i] = xBSP430eventRecord'[slot] /\ q[i + s] = xBSP430eventRecord[slot]
        BY <1>6, <1>10, <2>1, <2>2
    <2>4. xBSP430eventRecord'[slot] = xBSP430eventRecord[slot]
        BY <1>1, <1>4, <2>2 DEF TypeOK
    <2> QED BY <2>3, <2>4
<1>12. p[m] = [tag |-> tag, seqno |-> next[tag]]
    <2>1. m \in 1..m /\ p[m] = xBSP430eventRecord'[event_head]
        BY <1>6, <1>9, <1>10
    <2>2. xBSP430eventRecord'[event_head] = [tag |-> tag, seqno |-> seqno[tag]]
        BY <1>1, <1>2, <1>4 DEF TypeOK
    <2> QED BY <1>9, <2>1, <2>2
<1>13. /\ \A g \in Tags : \A i \in 1..m :
             Oldest(p, m, after[g], g, i) = Oldest(q, n, next[g], g, i + s)
       /\ InOrder(q, n, next) => InOrder(p, m, after)
    <2>1. \A i \in 1..n : q[i].tag \in Tags
        BY <1>10 DEF Recs
    <2>2. next \in [Tags -> 0..(SeqMod - 1)]
          /\ after = [next EXCEPT ![tag] = (next[tag] + 1) % SeqMod]
        BY <1>2, <1>4, <1>9
    <2>3. n \in Nat /\ s <= n /\ m = n + 1 - s
        BY <1>6, <1>9
    <2>4. Push(n, q, next, tag, s, m, p, after)
        BY <1>11, <1>12, <2>1, <2>2, <2>3 DEF Push
    <2> QED BY <2>3, <2>4, PushKeeps
<1>14. InOrder(q, n, next) /\ InOrder(Buf, Count, seqno)'
    <2>1. InOrder(q, n, next)
        BY <1>1, <1>5, <1>9 DEF BufOK
    <2>2. InOrder(p, m, after)
        BY <1>13, <2>1
    <2>3. Buf' = p /\ Count' = m /\ seqno' = after
        BY <1>6, <1>9
    <2> QED BY <2>1, <2>2, <2>3 DEF InOrder
<1>15. PICK gap, wider, e : gap = Gaps /\ wider = Gaps' /\ e = expected
    OBVIOUS
<1>16. /\ gap \in [Tags -> 0..(SeqMod - 1)] /\ wider \in [Tags -> 0..(SeqMod - 1)]
       /\ \A g \in Tags : gap[g] = (Oldest(q, n, next[g], g, 1) - e[g]) % SeqMod
       /\ \A g \in Tags : wider[g] = (Oldest(q, n, next[g], g, 1 + s) - e[g]) % SeqMod
    <2>1. /\ gap \in [Tags -> 0..(SeqMod - 1)] /\ wider \in [Tags -> 0..(SeqMod - 1)]
          /\ \A g \in Tags : gap[g] = (Oldest(q, n, next[g], g, 1) - e[g]) % SeqMod
        BY <1>1, <1>5, <1>8, <1>9, <1>15 DEF BufOK
    <2>2. ASSUME NEW g \in Tags
          PROVE  wider[g] = (Oldest(q, n, next[g], g, 1 + s) - e[g]) % SeqMod
        <3>1. wider[g] = (Oldest(Buf, Count, seqno[g], g, 1)' - expected'[g]) % SeqMod
            BY <1>8, <1>15 DEF BufOK
        <3>2. Oldest(Buf, Count, seqno[g], g, 1)' = Oldest(p, m, after[g], g, 1)
            BY <1>6, <1>9 DEF Oldest
        <3>3. Oldest(p, m, after[g], g, 1) = Oldest(q, n, next[g], g, 1 + s)
            BY <1>6, <1>9, <1>13
        <3> QED BY <1>4, <1>15, <3>1, <3>2, <3>3
    <2> QED BY <2>1, <2>2
<1>17. event_lost_count = Cardinality(Below(gap))
    BY <1>1, <1>15 DEF BufOK
<1>18. event_lost_count' = Cardinality(Below(wider))
    <2>1. CASE s = 0
        <3>1. \A g \in Tags : wider[g] = gap[g]
            BY <1>16, <2>1
        <3>2. wider = gap
            BY <1>16, <3>1
        <3> QED BY <1>2, <1>4, <1>17, <2>1, <3>2
    <2>2. CASE s = 1
        <3>1. 1 \in 1..n /\ 2 \in 1..(n + 1) /\ q[1].tag \in Tags /\ q[1].seqno \in 0..(SeqMod - 1)
            BY <1>6, <1>10, <2>2 DEF Recs
        <3>2. PICK x \in Tags, a \in 0..(SeqMod - 1) : x = q[1].tag /\ a = q[1].seqno
            BY <3>1
        <3>3. FirstAt(q, n, x, 1, 1)
            BY <3>1, <3>2 DEF FirstAt
        <3>4. Oldest(q, n, next[x], x, 1) = a
            BY <3>1, <3>2, <3>3, OldestFacts
        <3>5. Oldest(q, n, next[x], x, 2) = (a + 1) % SeqMod
            <4>1. 1 + 1 = 2
                OBVIOUS
            <4> QED BY <1>14, <3>1, <3>2, <4>1 DEF InOrder
        <3>6. PICK b \in 0..(SeqMod - 1) : b = e[x]
            BY <1>1, <1>15 DEF TypeOK
        <3>7. gap[x] = (a - b) % SeqMod /\ wider[x] = (((a + 1) % SeqMod) - b) % SeqMod
            BY <1>16, <2>2, <3>4, <3>5, <3>6
        <3>8. gap[x] \in 0..(SeqMod - 1) /\ gap[x] + 1 < SeqMod
            <4>1. gap[x] <= Cardinality(Below(gap))
                BY <1>16, BelowBounds
            <4>2. gap[x] \in 0..(SeqMod - 1)
                BY <1>16
            <4> QED BY <1>0, <1>2, <1>4, <1>17, <4>1, <4>2
        <3>9. wider[x] = gap[x] + 1
            <4>1. PICK c \in 0..(SeqMod - 1) : c = (a + 1) % SeqMod
                BY <1>0
            <4>2. c = IF a + 1 < SeqMod THEN a + 1 ELSE a + 1 - SeqMod
                BY <1>0, <4>1, ModFacts
            <4>3. gap[x] = IF a - b < 0 THEN a - b + SeqMod ELSE a - b
                BY <1>0, <3>7, ModFacts
            <4>4. wider[x] = IF c - b < 0 THEN c - b + SeqMod ELSE c - b
                BY <1>0, <3>7, <4>1, ModFacts
            <4> QED BY <1>0, <3>8, <4>2, <4>3, <4>4
        <3>10. ASSUME NEW g \in Tags, g # x PROVE wider[g] = gap[g]
            <4>1. \A j \in 1..(2 - 1) : q[j].tag # g
                BY <3>2, <3>10
            <4>2. 1 \in 1..(n + 1) /\ 2 \in 1..(n + 1) /\ n \in Nat
                BY <3>1
            <4>3. Oldest(q, n, next[g], g, 1) = Oldest(q, n, next[g], g, 2)
                BY <4>1, <4>2, SkipOthers
            <4> QED BY <1>16, <2>2, <4>3
        <3>11. wider = [gap EXCEPT ![x] = gap[x] + 1]
            BY <1>16, <3>9, <3>10
        <3>12. Cardinality(Below(wider)) = Cardinality(Below(gap)) + 1
            BY <1>16, <3>8, <3>11, BelowGrows
        <3> QED BY <1>4, <1>17, <2>2, <3>12
    <2> QED BY <2>1, <2>2
<1> QED BY <1>7, <1>8, <1>14, <1>15, <1>18 DEF Inv, BufOK

\* A fetch accounts for every loss and leaves no gap to what is left.
LEMMA FetchStep ==
    ASSUME Inv, NEW len \in Lens, GetRecords(len) PROVE Inv'
<1>0. /\ NumRecords \in Nat /\ NumRecords >= 2 /\ SeqMod \in Nat /\ SeqMod > 0
      /\ MaxLost \in Nat
    BY EventAssumption
<1>1. TypeOK /\ BufOK /\ LossesCounted
    BY BufFacts DEF Inv
<1>2. /\ event_head \in 0..(NumRecords - 1) /\ event_tail \in 0..(NumRecords - 1)
      /\ seqno \in [Tags -> 0..(SeqMod - 1)]
    BY <1>1 DEF TypeOK
<1>3. PICK n \in 0..(NumRecords - 1), k \in Nat : k \in 0..n /\ n = Count /\ k = Fetched(len)
    <2>1. Count \in 0..(NumRecords - 1) /\ Fetched(len) \in 0..Count
        BY <1>1, FetchedFacts DEF BufOK
    <2> QED BY <2>1
<1>4. /\ event_tail' = (event_tail + k) % NumRecords /\ event_lost_count' = 0
      /\ UNCHANGED <<xBSP430eventRecord, event_head, seqno>>
      /\ expected' = [tag \in Tags |-> ExpectedAfter(tag, k)]
    BY <1>3 DEF GetRecords
<1>5. \A tag \in Tags : ExpectedAfter(tag, k) = Oldest(Buf, Count, seqno[tag], tag, k + 1)
    BY <1>1, <1>3, ExpectedFacts
<1>6. /\ event_tail' \in 0..(NumRecords - 1) /\ Count' = n - k
      /\ \A i \in 1..(n - k) :
            (event_tail' + i - 1) % NumRecords = (event_tail + (i + k) - 1) % NumRecords
    <2>1. PICK h, t, t2 :
              /\ h \in 0..(NumRecords - 1) /\ t \in 0..(NumRecords - 1)
              /\ h = event_head /\ t = event_tail /\ t2 = event_tail'
        BY <1>2
    <2>2. k \in 0..n /\ n = (h - t) % NumRecords /\ t2 = (t + k) % NumRecords
        BY <1>3, <1>4, <2>1 DEF Count
    <2>3. Popped(NumRecords, h, t, n, k, t2)
        BY <1>0, <2>1, <2>2, PopSlots
    <2> QED BY <1>4, <2>1, <2>3 DEF Popped, Count
<1>7. expected' \in [Tags -> 0..(SeqMod - 1)]
    <2>1. Count \in Nat /\ k + 1 \in 1..(Count + 1) /\ \A j \in 1..Count : Buf[j] \in Recs
        BY <1>1, <1>3 DEF BufOK
    <2>2. ASSUME NEW tag \in Tags PROVE ExpectedAfter(tag, k) \in 0..(SeqMod - 1)
        <3>1. seqno[tag] \in 0..(SeqMod - 1)
            BY <1>2
        <3>2. Oldest(Buf, Count, seqno[tag], tag, k + 1) \in 0..(SeqMod - 1)
            BY <2>1, <3>1, OldestType
        <3> QED BY <1>5, <3>2
    <2> QED BY <1>4, <2>2
<1>8. TypeOK'
    <2>1. flag' \in BOOLEAN
        <3>1. flag' = (flag \/ ~Empty(event_head, event_tail'))
            BY DEF GetRecords
        <3>2. Empty(event_head, event_tail') \in BOOLEAN
            BY DEF Empty
        <3>3. flag \in BOOLEAN
            BY <1>1 DEF TypeOK
        <3> QED BY <3>1, <3>2, <3>3, Zenon
    <2>2. pc' \in {"collect", "fetch", "decide", "lpm"} /\ event_lost_count' \in 0..MaxLost
        BY <1>0, <1>4 DEF GetRecords
    <2> QED BY <1>1, <1>4, <1>6, <1>7, <2>1, <2>2, Zenon DEF TypeOK
<1>9. BufOK'
    BY <1>8, BufFactsNext
<1>10. PICK q, p, next, m :
           q = Buf /\ p = Buf' /\ next = seqno /\ m \in Nat /\ m = n - k
    BY <1>3
<1>11. Pop(n, q, k, p)
    <2>1. ASSUME NEW i \in 1..(n - k) PROVE p[i] = q[i + k]
        <3>1. i \in 1..Count' /\ i + k \in 1..Count
            BY <1>3, <1>6
        <3>2. p[i] = xBSP430eventRecord'[(event_tail' + i - 1) % NumRecords]
            BY <1>9, <1>10, <3>1 DEF BufOK
        <3>3. q[i + k] = xBSP430eventRecord[(event_tail + (i + k) - 1) % NumRecords]
            BY <1>1, <1>10, <3>1 DEF BufOK
        <3> QED BY <1>4, <1>6, <3>2, <3>3
    <2> QED BY <2>1 DEF Pop
<1>12. /\ \A tag, x : \A i \in 1..(n - k + 1) :
              Oldest(p, n - k, x, tag, i) = Oldest(q, n, x, tag, i + k)
       /\ InOrder(q, n, next) => InOrder(p, n - k, next)
    <2>1. n \in Nat /\ k \in 0..n
        BY <1>3
    <2> QED BY <1>11, <2>1, PopKeeps
<1>13. InOrder(Buf, Count, seqno)'
    <2>1. InOrder(q, n, next)
        BY <1>1, <1>3, <1>10 DEF BufOK
    <2>2. InOrder(p, n - k, next)
        BY <1>12, <2>1
    <2>3. Buf' = p /\ Count' = n - k /\ seqno' = next
        BY <1>4, <1>6, <1>10
    <2> QED BY <2>2, <2>3 DEF InOrder
<1>14. PICK gap : gap = Gaps'
    OBVIOUS
<1>15. ASSUME NEW tag \in Tags PROVE gap[tag] = 0
    <2>1. gap[tag] = (Oldest(Buf, Count, seqno[tag], tag, 1)' - expected'[tag]) % SeqMod
        BY <1>9, <1>14 DEF BufOK
    <2>2. Oldest(Buf, Count, seqno[tag], tag, 1)' = Oldest(p, n - k, next[tag], tag, 1)
        BY <1>4, <1>6, <1>10 DEF Oldest
    <2>3. 1 \in 1..(n - k + 1) /\ 1 + k = k + 1
        BY <1>3
    <2>4. Oldest(p, n - k, next[tag], tag, 1) = Oldest(q, n, next[tag], tag, k + 1)
        BY <1>12, <2>3
    <2>5. expected'[tag] = Oldest(q, n, next[tag], tag, k + 1)
        BY <1>3, <1>4, <1>5, <1>10
    <2>6. PICK x \in 0..(SeqMod - 1) : x = expected'[tag]
        BY <1>7
    <2>7. gap[tag] = (x - x) % SeqMod
        BY <2>1, <2>2, <2>4, <2>5, <2>6
    <2> QED BY <1>0, <2>6, <2>7, ModFacts
<1>16. Cardinality(Below(gap)) = 0
    BY <1>15, BelowEmpty
<1> QED BY <1>4, <1>8, <1>9, <1>13, <1>14, <1>16 DEF Inv, BufOK

\* A step of the main loop that only looks at the flag.
LEMMA LookKeeps ==
    ASSUME Inv, flag' \in BOOLEAN, pc' \in {"collect", "fetch", "decide", "lpm"},
           UNCHANGED <<xBSP430eventRecord, event_head, event_tail, event_lost_count,
                       seqno, expected>>
    PROVE  Inv'
<1>1. TypeOK'
    BY DEF Inv, TypeOK
<1>2. Count' = Count
    BY DEF Count
<1>3. ASSUME NEW i PROVE Record(i)' = Record(i)
    BY DEF Record
<1>4. ASSUME NEW tag, NEW i PROVE OldestFrom(tag, i)' = OldestFrom(tag, i)
    <2> DEFINE of == {j \in i..Count : Record(j).tag = tag}
    <2>1. of' = of
        BY <1>2, <1>3
    <2>2. OldestFrom(tag, i) = IF of = {} THEN seqno[tag] ELSE Record(Min(of)).seqno
        BY DEF OldestFrom
    <2>3. OldestFrom(tag, i)' = IF of' = {} THEN seqno'[tag] ELSE Record(Min(of))'.seqno
        BY DEF OldestFrom
    <2> HIDE DEF of
    <2>4. Record(Min(of))' = Record(Min(of))
        BY <2>1 DEF Record
    <2> QED BY <2>1, <2>2, <2>3, <2>4
<1>5. ASSUME NEW tag PROVE Gap(tag)' = Gap(tag)
    BY <1>4 DEF Gap
<1>6. Missed' = Missed
    BY <1>5 DEF Missed
<1>7. LossesCounted'
    BY <1>2, <1>3, <1>4, <1>6 DEF Inv, LossesCounted
<1> QED BY <1>1, <1>7 DEF Inv

LEMMA StepKeepsInv == Inv /\ [Next]_vars => Inv'
<1> SUFFICES ASSUME Inv, [Next]_vars PROVE Inv'
    OBVIOUS
<1>1. CASE \E tag \in Tags : RecordEvent(tag)
    BY <1>1, RecordStep
<1>2. CASE \E len \in Lens : GetRecords(len)
    BY <1>2, FetchStep
<1>3. CASE FlagsGet
    <2>1. flag' \in BOOLEAN /\ pc' \in {"collect", "fetch", "decide", "lpm"}
        BY <1>3 DEF FlagsGet
    <2> QED BY <1>3, <2>1, LookKeeps DEF FlagsGet
<1>4. CASE Decide
    <2>1. flag' \in BOOLEAN /\ pc' \in {"collect", "fetch", "decide", "lpm"}
        BY <1>4 DEF Decide, Inv, TypeOK
    <2> QED BY <1>4, <2>1, LookKeeps DEF Decide
<1>5. CASE UNCHANGED vars
    BY <1>5, LookKeeps DEF vars, Inv, TypeOK
<1> QED BY <1>1, <1>2, <1>3, <1>4, <1>5 DEF Next, MainLoop

LEMMA InitInv == Init => Inv
<1> SUFFICES ASSUME Init PROVE Inv
    OBVIOUS
<1>0. NumRecords \in Nat /\ NumRecords >= 2 /\ SeqMod \in Nat /\ SeqMod > 0 /\ MaxLost \in Nat
    BY EventAssumption
<1>1. (CHOOSE tag \in Tags : TRUE) \in Tags
    BY EventAssumption
<1>2. TypeOK
    <2>1. /\ 0 \in 0..(NumRecords - 1) /\ 0 \in 0..(SeqMod - 1) /\ 0 \in 0..MaxLost
        BY <1>0
    <2> QED BY <1>1, <2>1 DEF Init, TypeOK
<1>3. Count = 0
    BY <1>0, ModFacts DEF Init, Count
<1>4. BufOK
    BY <1>2, BufFacts
<1>5. InOrder(Buf, Count, seqno)
    BY <1>3 DEF InOrder
<1>6. PICK gap : gap = Gaps
    OBVIOUS
<1>7. ASSUME NEW tag \in Tags PROVE gap[tag] = 0
    <2>1. 1 \in 1..(0 + 1) /\ NoneFrom(Buf, 0, tag, 1)
        BY DEF NoneFrom
    <2>2. Oldest(Buf, Count, seqno[tag], tag, 1) = 0
        BY <1>3, <2>1, OldestFacts DEF Init
    <2>3. expected[tag] = 0
        BY DEF Init
    <2>4. gap[tag] = (0 - 0) % SeqMod
        BY <1>4, <1>6, <2>2, <2>3 DEF BufOK
    <2> QED BY <1>0, <2>4, ModFacts
<1>8. Cardinality(Below(gap)) = 0
    BY <1>7, BelowEmpty
<1> QED BY <1>2, <1>4, <1>5, <1>6, <1>8 DEF Init, Inv, BufOK

\* Every variable has its type.
THEOREM TypeCorrect == Spec => []TypeOK
BY InitInv, StepKeepsInv, PTL DEF Spec, Inv

\* However the handlers record and however little the main loop fetches at a
\* time, the buffer holds the newest events of each tag without a gap, and the
\* count the next fetch reports is the number of events, over all tags, that
\* the application will not see.
THEOREM LossesAreCounted == Spec => []LossesCounted
BY InitInv, StepKeepsInv, PTL DEF Spec, Inv

=============================================================================
