--------------------------- MODULE TimerAlarmProofs ---------------------------
(***************************************************************************)
(* Theorems about TimerAlarm, for any width of the counter.                *)
(***************************************************************************)
EXTENDS TimerAlarm, TLAPS

\* What the proof about the counter rests on.
CounterTypes ==
    /\ r \in 0..(CounterMod - 1)
    /\ pending \in 0..Latency
    /\ drift \in 0..MaxDrift

\* An overflow that is not yet handled happened no longer ago than interrupts
\* may stay pending, and the counter has counted since.
OverflowRecent == taifg => r <= pending

\* While a setting is decided on: how far the counter is from the value that
\* was read, and which side of an overflow that value belongs to.
ReadingKept ==
    pc = "decide" =>
        /\ lo \in 0..(CounterMod - 1)
        /\ r = IF lo + drift < CounterMod THEN lo + drift ELSE lo + drift - CounterMod
        /\ r < lo => taifg
        /\ snap = ((overflow_count + IF taifg /\ lo <= r THEN 1 ELSE 0) * CounterMod + lo)
                      % TimeMod

CInv == CounterTypes /\ OverflowRecent /\ ReadingKept

-----------------------------------------------------------------------------
LEMMA Sizes ==
    ASSUME 0 < CounterMod, 2 * Latency < CounterMod
    PROVE  /\ CounterMod \in Nat /\ Latency \in Nat /\ MaxDrift \in Nat
           /\ Latency + MaxDrift < CounterMod
           /\ 2 * (Latency + MaxDrift) <= CounterMod
BY TimerAssumption

\* A tick moves the counter, and wraps it at most once while a setting is
\* decided on.
LEMMA TickKeepsCounter ==
    ASSUME 0 < CounterMod, 2 * Latency < CounterMod, CInv, Tick
    PROVE  CInv'
<1> USE Sizes DEF CInv, CounterTypes
<1>1. r' = IF r = CounterMod - 1 THEN 0 ELSE r + 1
    BY SMT DEF Tick
<1>2. pending' \in 0..Latency /\ (Requested => pending' = pending + 1)
    BY DEF Tick
<1>3. drift' \in 0..MaxDrift /\ (pc = "decide" => drift' = drift + 1)
    BY DEF Tick
<1>4. r' \in 0..(CounterMod - 1)
    BY <1>1
<1>5. taifg' <=> taifg \/ r' = 0
    BY DEF Tick
<1>6. taifg => r + 1 < CounterMod /\ r' = r + 1 /\ pending' = pending + 1
    BY <1>1, <1>2 DEF OverflowRecent, Requested, Tick
<1>7. OverflowRecent'
    BY <1>1, <1>2, <1>5, <1>6 DEF OverflowRecent
<1>8. ReadingKept'
    <2> SUFFICES ASSUME pc = "decide" PROVE ReadingKept'
        BY DEF ReadingKept, Tick, call
    <2>1. UNCHANGED <<overflow_count, lo, snap, pc>> /\ lo \in 0..(CounterMod - 1)
        BY DEF Tick, call, ReadingKept
    <2>2. r' = IF lo + drift' < CounterMod THEN lo + drift' ELSE lo + drift' - CounterMod
        BY <1>1, <1>3, <2>1 DEF ReadingKept
    <2>3. r' < lo => taifg'
        BY <1>1, <1>3, <1>5, <2>1, <2>2 DEF ReadingKept
    <2>4. taifg /\ lo <= r <=> taifg' /\ lo <= r'
        BY <1>1, <1>3, <1>5, <1>6, <2>1, <2>2 DEF ReadingKept
    <2> QED BY <2>1, <2>2, <2>3, <2>4 DEF ReadingKept, TimeMod
<1> QED BY <1>2, <1>3, <1>4, <1>7, <1>8

\* Nothing else moves the counter, and an overflow is handled between calls.
LEMMA StepKeepsCounter ==
    ASSUME 0 < CounterMod, 2 * Latency < CounterMod, CInv, [Next]_vars
    PROVE  CInv'
<1> USE Sizes DEF CInv, CounterTypes
<1>1. CASE Tick
    BY <1>1, TickKeepsCounter
<1>2. CASE SetSome
    <2>1. PICK s, force : AlarmSet(s, force)
        BY <1>2 DEF SetSome
    <2>2. CounterTypes' /\ OverflowRecent'
        BY <2>1 DEF AlarmSet, OverflowRecent, timer
    <2>3. lo' = r /\ drift' = 0 /\ UNCHANGED <<r, taifg, overflow_count>>
          /\ snap' = ((overflow_count + IF taifg THEN 1 ELSE 0) * CounterMod + r) % TimeMod
        BY <2>1 DEF AlarmSet, timer, TrueNow
    <2>4. ReadingKept'
        BY <2>3 DEF ReadingKept, TimeMod
    <2> QED BY <2>2, <2>4
<1>3. ASSUME pc' # "decide", UNCHANGED r, pending' = pending \/ pending' = 0,
             taifg' => taifg /\ pending' = pending, drift' = drift \/ drift' = 0
      PROVE  CInv'
    BY <1>3 DEF OverflowRecent, ReadingKept
<1>4. CASE AlarmSetRefused \/ AlarmSetForcedNow \/ AlarmSetFuture \/ Configure \/ Compare
           \/ CallbackReturns
    <2>1. pc' # "decide" /\ UNCHANGED timer /\ UNCHANGED pending
          /\ (drift' = drift \/ drift' = 0)
        BY <1>4 DEF AlarmSetRefused, AlarmSetForcedNow, AlarmSetFuture, Configure, Compare,
                    CallbackReturns, Return
    <2> QED BY <1>3, <2>1 DEF timer
<1>5. CASE OverflowISR
    BY <1>3, <1>5 DEF OverflowISR, StillPending
<1>6. CASE CCISR
    BY <1>3, <1>6 DEF CCISR, StillPending, timer
<1>7. CASE AlarmCancel \/ AlarmDisable \/ AlarmEnable
    BY <1>3, <1>7 DEF AlarmCancel, AlarmDisable, AlarmEnable, CancelEffect, StillPending,
                      timer, call
<1>8. CASE UNCHANGED vars
    BY <1>8 DEF vars, timer, call, OverflowRecent, ReadingKept, TimeMod
<1> QED BY <1>1, <1>2, <1>4, <1>5, <1>6, <1>7, <1>8 DEF Next, Running

\* The value read is on the near side of an overflow just when it is small.
LEMMA CounterIsExactInv ==
    ASSUME 0 < CounterMod, 2 * Latency < CounterMod, CInv
    PROVE  CounterExact
<1> SUFFICES ASSUME pc = "decide" PROVE Counter(lo) = snap
    BY DEF CounterExact
<1>1. 2 * lo < CounterMod /\ taifg <=> taifg /\ lo <= r
    BY Sizes DEF CInv, CounterTypes, OverflowRecent, ReadingKept
<1> QED BY <1>1 DEF Counter, OverflowAdjusted, CInv, ReadingKept

\* If an overflow is handled within less than half a period of the counter,
\* the extended counter is the time at which it was read, for any width.
THEOREM CounterIsExact ==
    0 < CounterMod /\ 2 * Latency < CounterMod /\ Spec => []CounterExact
<1> SUFFICES ASSUME 0 < CounterMod, 2 * Latency < CounterMod PROVE Spec => []CounterExact
    OBVIOUS
<1>1. Init => CInv
    BY Sizes DEF Init, CInv, CounterTypes, OverflowRecent, ReadingKept
<1>2. CInv => CounterExact
    BY CounterIsExactInv
<1>3. CInv /\ [Next]_vars => CInv'
    BY StepKeepsCounter
<1> QED BY <1>1, <1>2, <1>3, PTL DEF Spec

-----------------------------------------------------------------------------
\* Only setting an alarm enables its interrupt, and whatever ends the setting
\* disables it: after a cancel, a disable or the callback nothing interrupts.
THEOREM NothingStray == Spec => []NoStrayInterrupt
<1> DEFINE SInv == NoStrayInterrupt /\ (pc \in {"configure", "compare"} => set /\ enabled)
<1>1. Init => SInv
    BY DEF Init, NoStrayInterrupt
<1>2. SInv /\ [Next]_vars => SInv'
    <2> SUFFICES ASSUME SInv, [Next]_vars PROVE SInv'
        OBVIOUS
    <2> USE DEF NoStrayInterrupt
    <2>1. CASE Tick \/ SetSome \/ UNCHANGED vars
        BY <2>1 DEF Tick, SetSome, AlarmSet, vars, timer, cc, alarm, call
    <2>2. CASE AlarmSetRefused \/ Compare \/ CallbackReturns
        BY <2>2 DEF AlarmSetRefused, Compare, CallbackReturns, Return, cc, alarm
    <2>3. CASE AlarmSetForcedNow
        BY <2>3 DEF AlarmSetForcedNow, RecordSetting, Return
    <2>4. CASE AlarmSetFuture
        BY <2>4 DEF AlarmSetFuture, RecordSetting
    <2>5. CASE Configure
        BY <2>5 DEF Configure, Return, alarm
    <2>6. CASE OverflowISR
        BY <2>6 DEF OverflowISR, cc, alarm
    <2>7. CASE CCISR
        BY <2>7 DEF CCISR
    <2>8. CASE AlarmCancel \/ AlarmEnable \/ AlarmDisable
        BY <2>8 DEF AlarmCancel, AlarmEnable, AlarmDisable, CancelEffect, cc, call
    <2> QED BY <2>1, <2>2, <2>3, <2>4, <2>5, <2>6, <2>7, <2>8 DEF Next, Running
<1>3. SInv => NoStrayInterrupt
    OBVIOUS
<1> HIDE DEF SInv
<1> QED BY <1>1, <1>2, <1>3, PTL DEF Spec

-----------------------------------------------------------------------------
(* Times.                                                                  *)

LEMMA TimeFacts ==
    ASSUME 0 < CounterMod
    PROVE  /\ CounterMod \in Nat /\ OverflowMod \in Nat /\ TimeMod \in Nat
           /\ TimeMod = CounterMod * OverflowMod /\ 4 * CounterMod <= TimeMod
<1>1. CounterMod \in Nat /\ OverflowMod \in Nat /\ OverflowMod >= 4
    BY TimerAssumption
<1>2. CounterMod * OverflowMod \in Nat /\ 4 * CounterMod <= CounterMod * OverflowMod
    BY <1>1, SMT
<1> QED BY <1>1, <1>2 DEF TimeMod

LEMMA ModFacts ==
    ASSUME NEW n \in Nat, n > 0
    PROVE  \A x \in Int : -n <= x /\ x < 2 * n =>
               x % n = IF x < 0 THEN x + n ELSE IF x < n THEN x ELSE x - n
BY SMT

\* The cycle and the place in it are unique.
LEMMA CycleUnique ==
    ASSUME NEW m \in Nat, m > 0, NEW a \in Int, NEW b \in Int,
           NEW x \in 0..(m - 1), NEW y \in 0..(m - 1), a * m + x = b * m + y
    PROVE  a = b /\ x = y
<1>1. CASE a >= b + 1
    <2>1. a * m >= (b + 1) * m
        BY <1>1, SMT
    <2>2. (b + 1) * m = b * m + m
        BY SMT
    <2>3. a * m \in Int /\ b * m \in Int
        OBVIOUS
    <2> QED BY <2>1, <2>2, <2>3
<1>2. CASE b >= a + 1
    <2>1. b * m >= (a + 1) * m
        BY <1>2, SMT
    <2>2. (a + 1) * m = a * m + m
        BY SMT
    <2>3. a * m \in Int /\ b * m \in Int
        OBVIOUS
    <2> QED BY <2>1, <2>2, <2>3
<1>3. CASE a = b
    BY <1>3
<1> QED BY <1>1, <1>2, <1>3

LEMMA DivFacts ==
    ASSUME NEW m \in Nat, m > 0, NEW x \in Int
    PROVE  /\ x \div m \in Int /\ x % m \in 0..(m - 1)
           /\ x = (x \div m) * m + (x % m)
BY SMT

\* A cycle and a place in it make a time.
LEMMA MakeTime ==
    ASSUME 0 < CounterMod, NEW c \in 0..(OverflowMod - 1), NEW x \in 0..(CounterMod - 1)
    PROVE  /\ c * CounterMod \in Nat /\ c * CounterMod + x \in 0..(TimeMod - 1)
           /\ (c * CounterMod + x) % CounterMod = x
           /\ (c * CounterMod + x) \div CounterMod = c
<1>0. CounterMod \in Nat /\ OverflowMod \in Nat /\ TimeMod = CounterMod * OverflowMod
    BY TimeFacts
<1>1. c * CounterMod \in Nat
    BY <1>0, SMT
<1>2. c * CounterMod <= (OverflowMod - 1) * CounterMod
    BY <1>0, SMT
<1>3. (OverflowMod - 1) * CounterMod = CounterMod * OverflowMod - CounterMod
    BY <1>0, SMT
<1>4. c * CounterMod + x \in 0..(TimeMod - 1)
    <2>1. CounterMod * OverflowMod \in Int
        BY <1>0
    <2> QED BY <1>0, <1>1, <1>2, <1>3, <2>1
<1>5. PICK z \in Int : z = c * CounterMod + x
    BY <1>1
<1>6. z \div CounterMod \in Int /\ z % CounterMod \in 0..(CounterMod - 1)
      /\ z = (z \div CounterMod) * CounterMod + (z % CounterMod)
    BY <1>0, DivFacts
<1>7. z \div CounterMod = c /\ z % CounterMod = x
    BY <1>0, <1>5, <1>6, CycleUnique
<1> QED BY <1>1, <1>4, <1>5, <1>7

\* The cycle and the place in it of a time.
LEMMA SplitTime ==
    ASSUME 0 < CounterMod, NEW t \in 0..(TimeMod - 1)
    PROVE  /\ t \div CounterMod \in 0..(OverflowMod - 1)
           /\ t % CounterMod \in 0..(CounterMod - 1)
           /\ t = (t \div CounterMod) * CounterMod + (t % CounterMod)
<1>0. CounterMod \in Nat /\ OverflowMod \in Nat /\ TimeMod = CounterMod * OverflowMod
      /\ TimeMod \in Nat
    BY TimeFacts
<1>1. PICK c \in Int, x \in 0..(CounterMod - 1) :
          c = t \div CounterMod /\ x = t % CounterMod /\ t = c * CounterMod + x
    BY <1>0, DivFacts
<1>2. c >= 0
    <2>1. SUFFICES ASSUME c <= -1 PROVE FALSE
        BY <1>1
    <2>2. c * CounterMod <= (-1) * CounterMod
        BY <1>0, <2>1, SMT
    <2>3. (-1) * CounterMod = -CounterMod /\ c * CounterMod \in Int
        BY <1>0
    <2> QED BY <1>0, <1>1, <2>2, <2>3
<1>3. c < OverflowMod
    <2>1. SUFFICES ASSUME c >= OverflowMod PROVE FALSE
        BY <1>0, <1>1
    <2>2. c * CounterMod >= OverflowMod * CounterMod
        BY <1>0, <2>1, SMT
    <2>3. OverflowMod * CounterMod = TimeMod /\ c * CounterMod \in Int
        BY <1>0
    <2> QED BY <1>0, <1>1, <2>2, <2>3
<1> QED BY <1>0, <1>1, <1>2, <1>3

\* The difference of two times as a signed number.
LEMMA SignedFacts ==
    ASSUME 0 < CounterMod, NEW s \in 0..(TimeMod - 1), NEW n \in 0..(TimeMod - 1)
    PROVE  /\ Signed(s - n) \in Int
           /\ -TimeMod <= 2 * Signed(s - n) /\ 2 * Signed(s - n) < TimeMod
           /\ Signed(s - n) \in {s - n, s - n + TimeMod, s - n - TimeMod}
           /\ \A d \in {s - n, s - n + TimeMod, s - n - TimeMod} :
                  -TimeMod <= 2 * d /\ 2 * d < TimeMod => Signed(s - n) = d
<1>0. TimeMod \in Nat /\ TimeMod > 0
    BY TimeFacts
<1>1. (s - n) % TimeMod = IF s - n < 0 THEN s - n + TimeMod ELSE s - n
    BY <1>0, ModFacts
<1>2. Signed(s - n) = IF 2 * ((s - n) % TimeMod) >= TimeMod
                      THEN ((s - n) % TimeMod) - TimeMod ELSE (s - n) % TimeMod
    BY DEF Signed
<1> QED BY <1>0, <1>1, <1>2

\* A tick later.
LEMMA SignedTick ==
    ASSUME 0 < CounterMod, NEW s \in 0..(TimeMod - 1), NEW n \in 0..(TimeMod - 1),
           NEW n2, n2 = IF n + 1 = TimeMod THEN 0 ELSE n + 1,
           -TimeMod <= 2 * (Signed(s - n) - 1)
    PROVE  n2 \in 0..(TimeMod - 1) /\ Signed(s - n2) = Signed(s - n) - 1
<1>0. TimeMod \in Nat /\ TimeMod > 0
    BY TimeFacts
<1>1. n2 \in 0..(TimeMod - 1)
    BY <1>0
<1>2. PICK d \in Int : d = Signed(s - n)
    BY SignedFacts
<1>3. -TimeMod <= 2 * d /\ 2 * d < TimeMod /\ d \in {s - n, s - n + TimeMod, s - n - TimeMod}
    BY <1>2, SignedFacts
<1>4. -TimeMod <= 2 * (d - 1) /\ 2 * (d - 1) < TimeMod
    BY <1>0, <1>2, <1>3
<1>5. d - 1 \in {s - n2, s - n2 + TimeMod, s - n2 - TimeMod}
    BY <1>0, <1>1, <1>3, <1>4
<1>6. Signed(s - n2) = d - 1
    BY <1>1, <1>4, <1>5, SignedFacts
<1> QED BY <1>1, <1>2, <1>6

-----------------------------------------------------------------------------
(* The time it is, and the time an alarm is due.                           *)

\* The ticks to the setting of the alarm, counted from the start of the cycle
\* the software counts.
Soft == Due(setting_tck) + r + (IF taifg THEN CounterMod ELSE 0)

Clock ==
    /\ 0 < CounterMod
    /\ r \in 0..(CounterMod - 1) /\ overflow_count \in 0..(OverflowMod - 1)
    /\ setting_tck \in 0..(TimeMod - 1)

\* The cycle of the time it is, and its place in the cycle.
Cycle == IF taifg THEN IF overflow_count + 1 = OverflowMod THEN 0 ELSE overflow_count + 1
         ELSE overflow_count

LEMMA NowFacts ==
    ASSUME Clock
    PROVE  /\ Cycle \in 0..(OverflowMod - 1) /\ TrueNow = Cycle * CounterMod + r
           /\ TrueNow \in 0..(TimeMod - 1) /\ TrueNow % CounterMod = r
<1>0. /\ CounterMod \in Nat /\ OverflowMod \in Nat /\ TimeMod \in Nat /\ 0 < CounterMod
      /\ TimeMod = CounterMod * OverflowMod /\ 4 * CounterMod <= TimeMod
      /\ r \in 0..(CounterMod - 1) /\ overflow_count \in 0..(OverflowMod - 1)
    BY TimeFacts DEF Clock
<1>1. PICK c \in 0..(OverflowMod - 1) : c = Cycle
    BY <1>0 DEF Cycle
<1>2. /\ c * CounterMod \in Nat /\ c * CounterMod + r \in 0..(TimeMod - 1)
      /\ (c * CounterMod + r) % CounterMod = r
    BY <1>0, MakeTime
<1>3. PICK up \in 0..1 : up = IF taifg THEN 1 ELSE 0
    OBVIOUS
<1>4. TrueNow = ((overflow_count + up) * CounterMod + r) % TimeMod
    BY <1>3 DEF TrueNow
<1>5. TrueNow = c * CounterMod + r
    <2>1. CASE overflow_count + up < OverflowMod
        <3>1. c = overflow_count + up
            BY <1>0, <1>1, <1>3, <2>1 DEF Cycle
        <3>2. PICK z \in 0..(TimeMod - 1) : z = c * CounterMod + r
            BY <1>2
        <3>3. z % TimeMod = z
            BY <1>0, <3>2, ModFacts
        <3> QED BY <1>4, <3>1, <3>2, <3>3
    <2>2. CASE overflow_count + up = OverflowMod
        <3>1. c = 0
            BY <1>0, <1>1, <1>3, <2>2 DEF Cycle
        <3>2. (overflow_count + up) * CounterMod = TimeMod
            BY <1>0, <2>2
        <3>3. TrueNow = (TimeMod + r) % TimeMod
            BY <1>4, <3>2
        <3>4. (TimeMod + r) % TimeMod = r
            <4>1. PICK z \in Int : z = TimeMod + r
                BY <1>0
            <4>2. z % TimeMod = r
                BY <1>0, <4>1, ModFacts
            <4> QED BY <4>1, <4>2
        <3>5. c * CounterMod + r = r
            BY <1>0, <3>1
        <3> QED BY <3>3, <3>4, <3>5
    <2> QED BY <1>0, <1>3, <2>1, <2>2
<1> QED BY <1>1, <1>2, <1>5

\* A time d ticks away, seen from the start of the cycle oc that the software
\* counts when the counter stands at x in cycle c: oc, or if up is 1 the next.
Seen(m, o, C, V, oc, c, x, up, d, S) ==
    /\ C \in 0..(o - 1) /\ oc \in 0..(o - 1) /\ V \in 0..(m - 1) /\ x \in 0..(m - 1)
    /\ up \in 0..1 /\ c = IF up = 0 THEN oc ELSE IF oc + 1 = o THEN 0 ELSE oc + 1
    /\ d \in Int /\ -(m * o) <= 2 * d /\ 2 * d < m * o
    /\ \E j \in -1..1 : d = (C * m + V) - (c * m + x) + j * (m * o)
    /\ S = d + x + up * m

LEMMA SeenFacts ==
    ASSUME NEW m \in Nat, NEW o \in Nat, m > 0, o >= 4, NEW C, NEW V, NEW oc, NEW c, NEW x,
           NEW up, NEW d, NEW S, Seen(m, o, C, V, oc, c, x, up, d, S)
    PROVE  /\ C = oc <=> S \in 0..(m - 1)
           /\ S \in 0..(m - 1) => S = V
<1> USE DEF Seen
<1>0. PICK t \in Nat : t = m * o
    OBVIOUS
<1>1. 4 * m <= t
    BY <1>0, SMT
<1>2. PICK j \in -1..1 : d = (C * m + V) - (c * m + x) + j * t
    BY <1>0
<1>3. PICK e \in 0..1 : c = oc + up - e * o
    <2>1. CASE up = 1 /\ oc + 1 = o
        <3>1. c = oc + up - 1 * o
            BY <2>1
        <3> QED BY <3>1
    <2>2. CASE ~(up = 1 /\ oc + 1 = o)
        <3>1. c = oc + up - 0 * o
            BY <2>2
        <3> QED BY <3>1
    <2> QED BY <2>1, <2>2
<1>4. PICK i \in -1..2 : i = j + e
    OBVIOUS
<1>5. PICK Cm \in Int, om \in Int, cm \in Int : Cm = C * m /\ om = oc * m /\ cm = c * m
    OBVIOUS
<1>6. cm = om + up * m - e * t
    <2>1. c * m = (oc + up - e * o) * m
        BY <1>3
    <2>2. (oc + up - e * o) * m = oc * m + up * m - e * (m * o)
        BY SMT
    <2> QED BY <1>0, <1>5, <2>1, <2>2
<1>7. S = Cm - om + V + i * t
    <2>1. d = (Cm + V) - (cm + x) + j * t
        BY <1>2, <1>5
    <2>2. PICK ut \in Int, jt \in Int, et \in Int : ut = up * m /\ jt = j * t /\ et = e * t
        OBVIOUS
    <2>3. S = Cm + V - om + jt + et
        BY <1>6, <2>1, <2>2
    <2>4. i * t = jt + et
        BY <1>4, <2>2, SMT
    <2> QED BY <2>2, <2>3, <2>4
<1>8. i * t = IF i = -1 THEN -t ELSE IF i = 0 THEN 0 ELSE IF i = 1 THEN t ELSE t + t
    OBVIOUS
<1>9. -t <= 2 * (S - x - up * m) /\ 2 * (S - x - up * m) < t /\ S \in Int
    BY <1>0
<1>10. ASSUME C = oc PROVE S \in 0..(m - 1)
    <2>1. Cm = om
        BY <1>5, <1>10
    <2>2. S = V + i * t
        BY <1>7, <2>1
    <2>3. up * m = IF up = 1 THEN m ELSE 0
        OBVIOUS
    <2>4. i # -1 /\ i # 1 /\ i # 2
        BY <1>1, <1>8, <1>9, <2>2, <2>3
    <2> QED BY <1>8, <2>2, <2>4
<1>11. ASSUME S \in 0..(m - 1) PROVE C = oc /\ S = V
    <2>1. PICK K \in Int : K = C - oc + i * o
        OBVIOUS
    <2>2. K * m = Cm - om + i * t
        <3>1. (C - oc + i * o) * m = C * m - oc * m + i * (m * o)
            BY SMT
        <3> QED BY <1>0, <1>5, <2>1, <3>1
    <2>3. K * m + V = 0 * m + S
        BY <1>7, <1>8, <2>2
    <2>4. K = 0 /\ V = S
        BY <1>11, <2>3, CycleUnique
    <2>5. i * o = IF i = -1 THEN -o ELSE IF i = 0 THEN 0 ELSE IF i = 1 THEN o ELSE o + o
        OBVIOUS
    <2> QED BY <2>1, <2>4, <2>5
<1> QED BY <1>10, <1>11

\* The software counts the cycle an alarm is due in if and only if its setting
\* is less than a period after the start of that cycle.
LEMMA DueFacts ==
    ASSUME Clock
    PROVE  /\ Due(setting_tck) \in Int
           /\ setting_tck % CounterMod \in 0..(CounterMod - 1)
           /\ InCycle <=> Soft \in 0..(CounterMod - 1)
           /\ Soft \in 0..(CounterMod - 1) => setting_tck % CounterMod = Soft
           /\ Due(setting_tck) = 0 => setting_tck % CounterMod = r
<1>0. /\ CounterMod \in Nat /\ OverflowMod \in Nat /\ TimeMod \in Nat /\ 0 < CounterMod
      /\ TimeMod = CounterMod * OverflowMod /\ OverflowMod >= 4 /\ TimeMod > 0
      /\ r \in 0..(CounterMod - 1) /\ overflow_count \in 0..(OverflowMod - 1)
      /\ setting_tck \in 0..(TimeMod - 1)
    BY TimeFacts, TimerAssumption DEF Clock
<1>1. /\ Cycle \in 0..(OverflowMod - 1) /\ TrueNow = Cycle * CounterMod + r
      /\ TrueNow \in 0..(TimeMod - 1) /\ TrueNow % CounterMod = r
    BY NowFacts
<1>2. PICK C \in 0..(OverflowMod - 1), V \in 0..(CounterMod - 1) :
          /\ C = setting_tck \div CounterMod /\ V = setting_tck % CounterMod
          /\ setting_tck = C * CounterMod + V
    BY <1>0, SplitTime
<1>3. PICK d \in Int : d = Due(setting_tck)
    BY <1>0, <1>1, SignedFacts DEF Due
<1>4. /\ -TimeMod <= 2 * d /\ 2 * d < TimeMod
      /\ d \in {setting_tck - TrueNow, setting_tck - TrueNow + TimeMod,
                setting_tck - TrueNow - TimeMod}
    BY <1>0, <1>1, <1>3, SignedFacts DEF Due
<1>5. PICK up \in 0..1 : up = IF taifg THEN 1 ELSE 0
    OBVIOUS
<1>6. Soft = d + r + up * CounterMod
    BY <1>0, <1>3, <1>5 DEF Soft
<1>7. \E j \in -1..1 : d = setting_tck - TrueNow + j * TimeMod
    <2>1. PICK a \in Int : a = setting_tck - TrueNow
        BY <1>0, <1>1
    <2>2. d = a + 0 * TimeMod \/ d = a + 1 * TimeMod \/ d = a + (-1) * TimeMod
        BY <1>0, <1>4, <2>1
    <2> QED BY <2>1, <2>2
<1>8. \E j \in -1..1 : d = (C * CounterMod + V) - (Cycle * CounterMod + r)
                               + j * (CounterMod * OverflowMod)
    BY <1>0, <1>1, <1>2, <1>7
<1>9. Seen(CounterMod, OverflowMod, C, V, overflow_count, Cycle, r, up, d, Soft)
    BY <1>0, <1>4, <1>5, <1>6, <1>8 DEF Seen, Cycle
<1>10. /\ C = overflow_count <=> Soft \in 0..(CounterMod - 1)
       /\ Soft \in 0..(CounterMod - 1) => Soft = V
    BY <1>0, <1>9, SeenFacts
<1>11. ASSUME d = 0 PROVE V = r
    <2>1. setting_tck = TrueNow
        BY <1>0, <1>1, <1>4, <1>11
    <2> QED BY <1>1, <1>2, <2>1
<1> QED BY <1>2, <1>3, <1>10, <1>11 DEF InCycle

-----------------------------------------------------------------------------
(* How a step moves the time.                                              *)

ClockOK ==
    /\ Cycle \in 0..(OverflowMod - 1) /\ TrueNow = Cycle * CounterMod + r
    /\ TrueNow \in 0..(TimeMod - 1)
    /\ Due(setting_tck) \in Int
    /\ setting_tck % CounterMod \in 0..(CounterMod - 1)
    /\ InCycle <=> Soft \in 0..(CounterMod - 1)
    /\ Soft \in 0..(CounterMod - 1) => setting_tck % CounterMod = Soft
    /\ Due(setting_tck) = 0 => setting_tck % CounterMod = r

LEMMA ClockFacts == Clock => ClockOK
BY NowFacts, DueFacts DEF ClockOK

LEMMA ClockFactsNext == Clock' => ClockOK'
BY ClockFacts, PTL

LEMMA TickNow ==
    ASSUME 2 * Latency < CounterMod, Clock, CInv, Tick
    PROVE  /\ Clock'
           /\ r' = (IF r + 1 = CounterMod THEN 0 ELSE r + 1)
           /\ (taifg' <=> taifg \/ r' = 0) /\ (taifg => r + 1 < CounterMod)
           /\ TrueNow' = IF TrueNow + 1 = TimeMod THEN 0 ELSE TrueNow + 1
<1>0. /\ CounterMod \in Nat /\ OverflowMod \in Nat /\ TimeMod \in Nat /\ 0 < CounterMod
      /\ TimeMod = CounterMod * OverflowMod /\ Latency \in Nat
      /\ r \in 0..(CounterMod - 1) /\ overflow_count \in 0..(OverflowMod - 1)
    BY TimeFacts, Sizes DEF Clock
<1>1. r' = IF r + 1 = CounterMod THEN 0 ELSE r + 1
    <2>1. r' = (r + 1) % CounterMod
        BY DEF Tick
    <2> QED BY <1>0, <2>1, ModFacts
<1>2. taifg' <=> taifg \/ r' = 0
    BY DEF Tick
<1>3. taifg => r + 1 < CounterMod
    <2>1. pending \in 0..Latency /\ (taifg => r <= pending /\ pending < Latency)
        BY DEF CInv, CounterTypes, OverflowRecent, Tick, Requested
    <2> QED BY <1>0, <2>1
<1>4. UNCHANGED <<overflow_count, setting_tck>>
    BY DEF Tick, alarm
<1>5. Clock'
    BY <1>0, <1>1, <1>4 DEF Clock, TimeMod
<1>6. PICK c \in 0..(OverflowMod - 1), c2 \in 0..(OverflowMod - 1),
               n \in 0..(TimeMod - 1), n2 \in 0..(TimeMod - 1) :
          /\ c = Cycle /\ c2 = Cycle' /\ n = TrueNow /\ n2 = TrueNow'
          /\ n = c * CounterMod + r /\ n2 = c2 * CounterMod + r'
    BY <1>5, ClockFacts, ClockFactsNext DEF ClockOK
<1>7. n2 = IF n + 1 = TimeMod THEN 0 ELSE n + 1
    <2>1. CASE r + 1 < CounterMod
        <3>1. c2 = c
            BY <1>0, <1>1, <1>2, <1>4, <1>6, <2>1 DEF Cycle
        <3>2. PICK z \in Int : z = c * CounterMod
            BY <1>0
        <3>3. n = z + r /\ n2 = z + r'
            BY <1>6, <3>1, <3>2
        <3>4. n2 = n + 1 /\ n2 \in 0..(TimeMod - 1) /\ n \in Int
            <4>1. r' = r + 1 /\ r \in Int
                BY <1>0, <1>1, <2>1
            <4> QED BY <1>6, <3>2, <3>3, <4>1
        <3> QED BY <3>4, TimeFacts, <1>0
    <2>2. CASE r + 1 = CounterMod
        <3>1. ~taifg /\ taifg'
            BY <1>0, <1>1, <1>2, <1>3, <2>2
        <3>2. c = overflow_count /\ c2 = IF c + 1 = OverflowMod THEN 0 ELSE c + 1
            BY <1>4, <1>6, <3>1 DEF Cycle
        <3>3. n + 1 = (c + 1) * CounterMod
            BY <1>0, <1>6, <2>2, SMT
        <3>4. n2 = c2 * CounterMod
            BY <1>0, <1>1, <1>6, <2>2
        <3>5. CASE c + 1 = OverflowMod
            <4>1. n + 1 = TimeMod
                BY <1>0, <3>3, <3>5
            <4>2. n2 = 0
                BY <1>0, <3>2, <3>4, <3>5
            <4> QED BY <4>1, <4>2
        <3>6. CASE c + 1 # OverflowMod
            <4>1. n2 = n + 1
                BY <3>2, <3>3, <3>4, <3>6
            <4> QED BY <1>0, <1>6, <4>1
        <3> QED BY <3>5, <3>6
    <2> QED BY <1>0, <2>1, <2>2
<1> QED BY <1>1, <1>2, <1>3, <1>5, <1>6, <1>7

\* Handling an overflow does not change the time it is.
LEMMA OverflowNow ==
    ASSUME Clock, OverflowISR
    PROVE  Clock' /\ TrueNow' = TrueNow
<1>0. /\ CounterMod \in Nat /\ OverflowMod \in Nat /\ OverflowMod > 0
      /\ r \in 0..(CounterMod - 1) /\ overflow_count \in 0..(OverflowMod - 1)
    BY TimeFacts, TimerAssumption DEF Clock
<1>1. /\ overflow_count' = (overflow_count + 1) % OverflowMod /\ taifg /\ taifg' = FALSE
      /\ UNCHANGED <<r, setting_tck>>
    BY DEF OverflowISR, alarm
<1>2. overflow_count' = IF overflow_count + 1 = OverflowMod THEN 0 ELSE overflow_count + 1
    BY <1>0, <1>1, ModFacts
<1>3. Clock'
    BY <1>0, <1>1, <1>2 DEF Clock, TimeMod
<1>4. Cycle' = Cycle
    BY <1>1, <1>2 DEF Cycle
<1>5. TrueNow = Cycle * CounterMod + r /\ TrueNow' = Cycle' * CounterMod + r'
    BY <1>3, ClockFacts, ClockFactsNext DEF ClockOK
<1> QED BY <1>1, <1>3, <1>4, <1>5

-----------------------------------------------------------------------------
(* The types.                                                              *)

Flags == taifg \in BOOLEAN /\ ccie \in BOOLEAN /\ ccifg \in BOOLEAN
         /\ enabled \in BOOLEAN /\ set \in BOOLEAN

Numbers ==
    /\ r \in 0..(CounterMod - 1) /\ ccr \in 0..(CounterMod - 1)
    /\ overflow_count \in 0..(OverflowMod - 1) /\ setting_tck \in 0..(TimeMod - 1)
    /\ arg \in [setting : 0..(TimeMod - 1), force : BOOLEAN]
    /\ lo \in 0..(CounterMod - 1) /\ snap \in 0..(TimeMod - 1)
    /\ drift \in 0..MaxDrift /\ pending \in 0..Latency

Phases == {"idle", "decide", "configure", "compare", "callback"}

LEMMA TypeParts == TypeOK <=> Flags /\ Numbers /\ pc \in Phases
BY DEF TypeOK, Flags, Numbers, Phases

LEMMA TypePartsNext == TypeOK' <=> Flags' /\ Numbers' /\ pc' \in Phases
BY DEF TypeOK, Flags, Numbers, Phases

LEMMA StepKeepsTypes ==
    ASSUME 0 < CounterMod, TypeOK, [Next]_vars
    PROVE  TypeOK'
<1>0. /\ CounterMod \in Nat /\ OverflowMod \in Nat /\ TimeMod \in Nat /\ OverflowMod > 0
      /\ Latency \in Nat /\ MaxDrift \in Nat /\ CounterMod > 0 /\ TimeMod > 0
    BY TimeFacts, TimerAssumption
<1>1. Flags /\ Numbers /\ pc \in Phases
    BY TypeParts
<1> DEFINE zero == [setting |-> 0, force |-> FALSE]
<1>2. ASSUME Return
      PROVE  /\ arg' = zero /\ lo' = 0 /\ snap' = 0 /\ drift' = 0 /\ pc' = "idle"
             /\ zero \in [setting : 0..(TimeMod - 1), force : BOOLEAN]
             /\ 0 \in 0..(CounterMod - 1) /\ 0 \in 0..(TimeMod - 1) /\ 0 \in 0..MaxDrift
    BY <1>0, <1>2 DEF Return
<1>3. arg.setting % CounterMod \in 0..(CounterMod - 1) /\ arg.setting \in 0..(TimeMod - 1)
    BY <1>0, <1>1 DEF Numbers
<1>4. CASE Tick
    <2>1. Flags' /\ pc' \in Phases
        BY <1>1, <1>4 DEF Tick, Flags, alarm, call
    <2>2. r' \in 0..(CounterMod - 1)
        BY <1>0, <1>1, <1>4 DEF Tick, Numbers
    <2>3. pending' \in 0..Latency /\ drift' \in 0..MaxDrift
        BY <1>0, <1>1, <1>4 DEF Tick, Numbers
    <2>4. Numbers'
        BY <1>1, <1>4, <2>2, <2>3 DEF Tick, Numbers, alarm, call, TimeMod
    <2> QED BY <2>1, <2>4, TypePartsNext
<1>5. ASSUME NEW s \in 0..(TimeMod - 1), NEW force \in BOOLEAN, AlarmSet(s, force)
      PROVE  TypeOK'
    <2>1. Flags' /\ pc' \in Phases
        BY <1>1, <1>5 DEF AlarmSet, Flags, timer, cc, alarm, Phases
    <2>2. TrueNow \in 0..(TimeMod - 1)
        BY <1>0, <1>1, ClockFacts DEF ClockOK, Clock, Numbers
    <2>3. arg' = [setting |-> s, force |-> force] /\ lo' = r /\ snap' = TrueNow /\ drift' = 0
          /\ UNCHANGED <<timer, cc, alarm, pending>>
        BY <1>5 DEF AlarmSet
    <2>4. 0 \in 0..MaxDrift /\ arg' \in [setting : 0..(TimeMod - 1), force : BOOLEAN]
        BY <1>0, <2>3
    <2>5. Numbers'
        BY <1>1, <2>2, <2>3, <2>4 DEF Numbers, timer, cc, alarm, TimeMod
    <2> QED BY <2>1, <2>5, TypePartsNext
<1>6. CASE AlarmSetRefused \/ Compare \/ CallbackReturns
    <2>1. Return /\ UNCHANGED <<timer, ccr, ccie, alarm, pending>> /\ ccifg' \in BOOLEAN
        BY <1>1, <1>6 DEF AlarmSetRefused, Compare, CallbackReturns, cc, Flags
    <2>2. Flags' /\ pc' \in Phases
        BY <1>1, <1>2, <2>1 DEF Flags, timer, alarm, Phases
    <2>3. Numbers'
        BY <1>1, <1>2, <2>1 DEF Numbers, timer, alarm, TimeMod
    <2> QED BY <2>2, <2>3, TypePartsNext
<1>7. CASE AlarmSetForcedNow
    <2>1. /\ Return /\ UNCHANGED <<timer, pending, enabled>> /\ ccifg' = TRUE /\ ccie' = TRUE
          /\ set' = TRUE /\ setting_tck' = arg.setting /\ ccr' = arg.setting % CounterMod
        BY <1>7 DEF AlarmSetForcedNow, RecordSetting
    <2>2. Flags' /\ pc' \in Phases
        BY <1>1, <1>2, <2>1 DEF Flags, timer, Phases
    <2>3. Numbers'
        BY <1>1, <1>2, <1>3, <2>1 DEF Numbers, timer, TimeMod
    <2> QED BY <2>2, <2>3, TypePartsNext
<1>8. CASE AlarmSetFuture
    <2>1. /\ UNCHANGED <<timer, ccie, ccifg, arg, lo, snap, drift, pending, enabled>>
          /\ set' = TRUE /\ setting_tck' = arg.setting /\ ccr' = arg.setting % CounterMod
          /\ pc' = "configure"
        BY <1>8 DEF AlarmSetFuture, RecordSetting
    <2>2. Flags' /\ pc' \in Phases
        BY <1>1, <2>1 DEF Flags, timer, Phases
    <2>3. Numbers'
        BY <1>1, <1>3, <2>1 DEF Numbers, timer, TimeMod
    <2> QED BY <2>2, <2>3, TypePartsNext
<1>9. CASE Configure
    <2>1. UNCHANGED <<timer, ccr, alarm, pending>> /\ ccifg' \in BOOLEAN /\ ccie' \in BOOLEAN
        BY <1>1, <1>9 DEF Configure, Flags
    <2>2. \/ Return
          \/ UNCHANGED <<arg, lo, snap, drift>> /\ pc' = "compare"
        BY <1>9 DEF Configure
    <2>3. Flags' /\ pc' \in Phases
        BY <1>1, <1>2, <2>1, <2>2 DEF Flags, timer, alarm, Phases
    <2>4. Numbers'
        BY <1>1, <1>2, <2>1, <2>2 DEF Numbers, timer, alarm, TimeMod
    <2> QED BY <2>3, <2>4, TypePartsNext
<1>10. ASSUME UNCHANGED <<r, ccr, setting_tck, arg, lo, snap>>, drift' = drift \/ drift' = 0,
              pending' = pending \/ pending' = 0, overflow_count' \in 0..(OverflowMod - 1),
              Flags', pc' \in Phases
       PROVE  TypeOK'
    <2>1. 0 \in 0..MaxDrift /\ 0 \in 0..Latency
        BY <1>0
    <2>2. Numbers'
        BY <1>1, <1>10, <2>1 DEF Numbers, TimeMod
    <2> QED BY <1>10, <2>2, TypePartsNext
<1>11. CASE OverflowISR
    <2>1. overflow_count' \in 0..(OverflowMod - 1)
        BY <1>0, <1>1, <1>11 DEF OverflowISR, Numbers
    <2>2. Flags' /\ pc' \in Phases
        BY <1>1, <1>11 DEF OverflowISR, Flags, cc, alarm, Phases
    <2> QED BY <1>10, <1>11, <2>1, <2>2 DEF OverflowISR, cc, alarm, StillPending
<1>12. CASE CCISR
    <2>1. set' \in BOOLEAN /\ ccie' \in BOOLEAN /\ ccifg' = FALSE
        BY <1>1, <1>12 DEF CCISR, Flags
    <2>2. Flags' /\ pc' \in Phases
        BY <1>1, <1>12, <2>1 DEF CCISR, Flags, timer, Phases
    <2> QED BY <1>1, <1>10, <1>12, <2>2 DEF CCISR, timer, StillPending, Numbers
<1>13. CASE AlarmCancel \/ AlarmEnable \/ AlarmDisable
    <2>1. Flags' /\ pc' \in Phases
        BY <1>1, <1>13 DEF AlarmCancel, AlarmEnable, AlarmDisable, CancelEffect, Flags,
                           timer, cc, call
    <2> QED BY <1>1, <1>10, <1>13, <2>1 DEF AlarmCancel, AlarmEnable, AlarmDisable,
                       CancelEffect, StillPending, timer, cc, call, Numbers
<1>14. CASE UNCHANGED vars
    BY <1>14 DEF vars, timer, cc, alarm, call, TypeOK, TimeMod
<1> HIDE DEF zero
<1> QED BY <1>4, <1>5, <1>6, <1>7, <1>8, <1>9, <1>11, <1>12, <1>13, <1>14
        DEF Next, SetSome, Running

-----------------------------------------------------------------------------
(* The alarm.                                                              *)

\* What the code needs of the timing: an overflow is handled within less than
\* half a period, and a function takes less than FutureLimit ticks.
Timely == 0 < CounterMod /\ 2 * Latency < CounterMod /\ MaxDrift < FutureLimit

\* While a setting is decided on, it is drift ticks nearer than it was when
\* the counter was read.
Deciding ==
    pc = "decide" =>
        /\ Due(arg.setting) + drift \in -PastLimit..Horizon
        /\ Signed(arg.setting - snap) = Due(arg.setting) + drift

\* An alarm does not stay set long after it is due: it was late when it was
\* forced or when an overflow was handled, and its interrupt is pending since.
NotLong ==
    \/ Due(setting_tck) >= -(PastLimit + MaxDrift + pending)
    \/ Due(setting_tck) >= -(Latency + MaxDrift + pending)

\* alarmConfigureInterrupts_ni for a setting that was far enough ahead, or for
\* an overflow that was handled just now.
FromSet == ~ccie /\ Due(setting_tck) >= FutureLimit - drift

FromOverflow ==
    /\ ~taifg /\ r <= Latency + drift
    /\ ~ccie => Soft >= 0
    /\ Due(setting_tck) >= -(Latency + drift) \/ (ccie /\ ccifg)

\* The interrupt is enabled in the cycle the alarm is due in, or requested.
Armed ==
    /\ ccie /\ ccifg => Due(setting_tck) < FutureLimit
    /\ ccie /\ ~ccifg => Soft \in 0..(CounterMod - 1)
    /\ pc # "compare" /\ ccie /\ Due(setting_tck) <= 0 => ccifg

\* Between functions the alarm is armed or due in a later cycle.
SetInv ==
    /\ enabled /\ ccr = setting_tck % CounterMod
    /\ Due(setting_tck) <= Horizon /\ NotLong
    /\ Armed
    /\ pc \in {"idle", "decide"} /\ ~ccie => Soft >= CounterMod
    /\ pc = "configure" => FromSet \/ FromOverflow
    /\ pc = "compare" =>
          /\ ccie /\ Soft \in 0..(CounterMod - 1)
          /\ \/ Due(setting_tck) >= FutureLimit - drift
             \/ ~taifg /\ r <= Latency + drift

AInv ==
    /\ ccie => set
    /\ pc \in {"configure", "compare"} => set
    /\ pc = "callback" => ~set
    /\ set => SetInv

Inv == TypeOK /\ CInv /\ Deciding /\ AInv

LEMMA Bounds ==
    ASSUME Timely
    PROVE  /\ CounterMod \in Nat /\ TimeMod \in Nat /\ Latency \in Nat /\ MaxDrift \in Nat
           /\ PastLimit \in Nat /\ Horizon \in Nat /\ FutureLimit \in Nat
           /\ 0 < CounterMod /\ 4 * CounterMod <= TimeMod
           /\ 2 * (Latency + MaxDrift) <= CounterMod /\ Latency + MaxDrift < CounterMod
           /\ MaxDrift < FutureLimit
           /\ 2 * (Horizon + 1) <= TimeMod /\ 2 * (PastLimit + Latency + MaxDrift) < TimeMod
<1>1. TimeMod \in Nat /\ TimeMod = CounterMod * OverflowMod /\ 4 * CounterMod <= TimeMod
    BY TimeFacts DEF Timely
<1>2. /\ 2 * (Horizon + 1) <= TimeMod /\ 2 * (PastLimit + Latency + MaxDrift) < TimeMod
      /\ PastLimit \in Nat /\ Horizon \in Nat /\ FutureLimit \in Nat
    BY <1>1, TimerAssumption
<1> QED BY <1>1, <1>2, Sizes DEF Timely

\* The numbers of a state.
LEMMA InvNumbers ==
    ASSUME Timely, Inv
    PROVE  /\ Clock /\ r \in 0..(CounterMod - 1) /\ drift \in 0..MaxDrift
           /\ pending \in 0..Latency /\ setting_tck \in 0..(TimeMod - 1)
           /\ arg.setting \in 0..(TimeMod - 1) /\ TrueNow \in 0..(TimeMod - 1)
           /\ Due(setting_tck) \in Int /\ Due(arg.setting) \in Int
           /\ Soft = Due(setting_tck) + r + (IF taifg THEN CounterMod ELSE 0)
           /\ Soft \in Int
           /\ setting_tck % CounterMod \in 0..(CounterMod - 1)
           /\ InCycle <=> Soft \in 0..(CounterMod - 1)
           /\ Soft \in 0..(CounterMod - 1) => setting_tck % CounterMod = Soft
           /\ taifg => r <= pending
<1>1. Numbers
    BY TypeParts DEF Inv
<1>2. Clock
    BY <1>1 DEF Numbers, Clock, Timely
<1>3. ClockOK
    BY <1>2, ClockFacts
<1>4. Due(arg.setting) \in Int
    BY <1>1, <1>3, SignedFacts DEF Timely, Numbers, ClockOK, Due
<1>5. taifg => r <= pending
    BY DEF Inv, CInv, OverflowRecent
<1>6. CounterMod \in Nat
    BY Bounds
<1>7. Soft = Due(setting_tck) + r + (IF taifg THEN CounterMod ELSE 0)
    BY DEF Soft
<1>8. Soft \in Int
    BY <1>1, <1>3, <1>6, <1>7 DEF Numbers, ClockOK
<1> QED BY <1>1, <1>2, <1>3, <1>4, <1>5, <1>7, <1>8 DEF Numbers, ClockOK

\* An alarm that has requested nothing is not due, or a function is at it.
LEMMA NotOverdue ==
    ASSUME Timely, Inv, set, ~Requested
    PROVE  \/ Due(setting_tck) > 0
           \/ pc \in {"configure", "compare"} /\ Due(setting_tck) >= -(Latency + drift)
<1>1. ~taifg /\ ~(ccie /\ ccifg)
    BY DEF Requested
<1>2. SetInv /\ pc \in Phases /\ pc # "callback"
    BY TypeParts DEF Inv, AInv
<1>3. PICK d \in Int, s \in Int, x \in 0..(CounterMod - 1), y \in 0..MaxDrift :
          d = Due(setting_tck) /\ s = Soft /\ x = r /\ y = drift /\ s = d + x
    BY <1>1, InvNumbers, Bounds
<1>4. CASE pc \in {"idle", "decide"}
    <2>1. CASE ccie
        BY <1>1, <1>2, <1>3, <1>4, <2>1 DEF SetInv, Armed
    <2>2. CASE ~ccie
        <3>1. s >= CounterMod
            BY <1>2, <1>3, <1>4, <2>2 DEF SetInv
        <3> QED BY <1>3, <3>1, Bounds
    <2> QED BY <2>1, <2>2
<1>5. CASE pc = "configure"
    <2>1. d >= FutureLimit - y \/ d >= -(Latency + y)
        BY <1>1, <1>2, <1>3, <1>5 DEF SetInv, FromSet, FromOverflow
    <2> QED BY <1>3, <1>5, <2>1, Bounds
<1>6. CASE pc = "compare"
    <2>1. s >= 0 /\ (d >= FutureLimit - y \/ x <= Latency + y)
        BY <1>2, <1>3, <1>6 DEF SetInv
    <2> QED BY <1>3, <1>6, <2>1, Bounds
<1> QED BY <1>2, <1>4, <1>5, <1>6 DEF Phases

\* An alarm that is due has requested its interrupt, or the overflow before it
\* is not handled.
LEMMA InvIsDue == ASSUME Timely, Inv PROVE DueIsRequested
<1> SUFFICES ASSUME pc = "idle", set, Due(setting_tck) <= 0 PROVE Requested
    BY DEF DueIsRequested, Requested
<1>1. Due(setting_tck) \in Int
    BY InvNumbers
<1> QED BY <1>1, NotOverdue

\* A tick brings the alarm nearer by one.
LEMMA TickIsNearer ==
    ASSUME Timely, Inv, set, Tick
    PROVE  Due(setting_tck)' = Due(setting_tck) - 1
<1>0. /\ UNCHANGED <<overflow_count, ccr, ccie, enabled, set, setting_tck, pc, arg, lo, snap>>
      /\ (ccifg' <=> ccifg \/ r' = ccr)
      /\ (pc # "idle" => drift < MaxDrift /\ drift' = drift + 1)
      /\ (Requested => pending < Latency /\ pending' = pending + 1)
      /\ (~Requested => pending' = 0)
    BY DEF Tick, alarm, call
<1>1. /\ r' = (IF r + 1 = CounterMod THEN 0 ELSE r + 1)
      /\ (taifg' <=> taifg \/ r' = 0) /\ (taifg => r + 1 < CounterMod)
      /\ TrueNow' = IF TrueNow + 1 = TimeMod THEN 0 ELSE TrueNow + 1
      /\ Clock'
    BY InvNumbers, TickNow DEF Inv, Timely
<1>2. SetInv /\ pc \in Phases
    BY TypeParts DEF Inv, AInv
<1>3. PICK d \in Int, x \in 0..(CounterMod - 1), y \in 0..MaxDrift,
           p \in 0..Latency, tck \in 0..(TimeMod - 1) :
          d = Due(setting_tck) /\ x = r /\ y = drift /\ p = pending /\ tck = setting_tck
    BY InvNumbers
<1>4. -TimeMod <= 2 * (d - 1)
    <2>1. CASE Requested
        <3>1. p < Latency /\ (d >= -(PastLimit + MaxDrift + p) \/ d >= -(Latency + MaxDrift + p))
            BY <1>0, <1>2, <1>3, <2>1 DEF SetInv, NotLong
        <3> QED BY <1>3, <3>1, Bounds
    <2>2. CASE ~Requested
        <3>1. d > 0 \/ (y < MaxDrift /\ d >= -(Latency + y))
            BY <1>0, <1>3, <2>2, NotOverdue
        <3> QED BY <1>3, <3>1, Bounds
    <2> QED BY <2>1, <2>2
<1>5. Due(setting_tck)' = d - 1
    <2>1. PICK n \in 0..(TimeMod - 1), n2 \in Int :
              n = TrueNow /\ n2 = TrueNow' /\ n2 = IF n + 1 = TimeMod THEN 0 ELSE n + 1
        BY <1>1, InvNumbers
    <2>2. d = Signed(tck - n) /\ Due(setting_tck)' = Signed(tck - n2)
        BY <1>0, <1>3, <2>1 DEF Due
    <2> QED BY <1>4, <2>1, <2>2, SignedTick DEF Timely
<1> QED BY <1>3, <1>5

\* If the alarm was due in a tick, the counter has reached ccr.
LEMMA TickKeepsAlarm ==
    ASSUME Timely, Inv, TypeOK', CInv', Tick
    PROVE  Deciding' /\ AInv'
<1>0. /\ UNCHANGED <<overflow_count, ccr, ccie, enabled, set, setting_tck, pc, arg, lo, snap>>
      /\ (ccifg' <=> ccifg \/ r' = ccr)
      /\ (pc # "idle" => drift < MaxDrift /\ drift' = drift + 1)
      /\ (Requested => pending < Latency /\ pending' = pending + 1)
      /\ (~Requested => pending' = 0)
    BY DEF Tick, alarm, call
<1>1. /\ r' = (IF r + 1 = CounterMod THEN 0 ELSE r + 1)
      /\ (taifg' <=> taifg \/ r' = 0) /\ (taifg => r + 1 < CounterMod)
      /\ TrueNow' = IF TrueNow + 1 = TimeMod THEN 0 ELSE TrueNow + 1
      /\ Clock'
    BY InvNumbers, TickNow DEF Inv, Timely
<1>2. Deciding'
    <2> SUFFICES ASSUME pc = "decide" PROVE Deciding'
        BY <1>0 DEF Deciding
    <2>1. PICK d \in Int, y \in 0..(MaxDrift - 1), a \in 0..(TimeMod - 1) :
              d = Due(arg.setting) /\ y = drift /\ a = arg.setting /\ y + 1 = drift'
        BY <1>0, InvNumbers, Bounds
    <2>2. d + y \in -PastLimit..Horizon /\ Signed(a - snap) = d + y
        BY <2>1 DEF Deciding, Inv
    <2>3. -TimeMod <= 2 * (d - 1)
        BY <2>1, <2>2, Bounds
    <2>4. Due(arg.setting)' = d - 1
        <3>1. PICK n \in 0..(TimeMod - 1), n2 \in Int :
                  n = TrueNow /\ n2 = TrueNow' /\ n2 = IF n + 1 = TimeMod THEN 0 ELSE n + 1
            BY <1>1, InvNumbers
        <3>2. d = Signed(a - n) /\ Due(arg.setting)' = Signed(a - n2)
            BY <1>0, <2>1, <3>1 DEF Due
        <3> QED BY <2>3, <3>1, <3>2, SignedTick DEF Timely
    <2>5. Signed(arg.setting - snap)' = Signed(a - snap)
        BY <1>0, <2>1 DEF Signed, TimeMod
    <2>6. Due(arg.setting)' + drift' = d + y
        BY <2>1, <2>4
    <2> QED BY <2>2, <2>5, <2>6 DEF Deciding
<1>3. CASE ~set
    <2>1. AInv /\ set' = set /\ ccie' = ccie /\ pc' = pc
        BY <1>0 DEF Inv
    <2> QED BY <1>2, <1>3, <2>1, Zenon DEF AInv
<1>4. CASE set
    <2>0. SetInv /\ pc \in Phases /\ pc # "callback"
        BY <1>4, TypeParts DEF Inv, AInv
    <2>1. PICK d \in Int, s \in Int, x \in 0..(CounterMod - 1), y \in 0..MaxDrift,
               p \in 0..Latency, tck \in 0..(TimeMod - 1), x2 \in 0..(CounterMod - 1) :
              /\ d = Due(setting_tck) /\ s = Soft /\ x = r /\ y = drift /\ p = pending
              /\ tck = setting_tck /\ x2 = r'
              /\ s = d + x + (IF taifg THEN CounterMod ELSE 0)
        <3>1. r' \in 0..(CounterMod - 1)
            BY <1>1 DEF Clock
        <3> QED BY <3>1, InvNumbers
    <2>3. Due(setting_tck)' = d - 1
        BY <1>4, <2>1, TickIsNearer
    <2>4. Soft' = s
        <3>1. Soft' = (d - 1) + x2 + (IF taifg' THEN CounterMod ELSE 0)
            BY <2>1, <2>3 DEF Soft
        <3> QED BY <1>1, <2>1, <3>1, Bounds
    <2>5. d - 1 = 0 => x2 = ccr
        <3>1. ClockOK'
            BY <1>1, ClockFactsNext
        <3>2. d - 1 = 0 => tck % CounterMod = x2
            BY <1>0, <2>1, <2>3, <3>1 DEF ClockOK
        <3> QED BY <2>0, <2>1, <3>2 DEF SetInv
    <2>6. s \in 0..(CounterMod - 1) => ccr = s
        BY <2>0, <2>1, InvNumbers DEF SetInv
    <2>7. NotLong'
        <3>1. PICK p2 \in 0..Latency : p2 = pending'
            BY <1>0, InvNumbers, Bounds
        <3>2. CASE Requested
            <4>1. p2 = p + 1 /\ (d >= -(PastLimit + MaxDrift + p) \/ d >= -(Latency + MaxDrift + p))
                BY <1>0, <2>0, <2>1, <3>1, <3>2 DEF SetInv, NotLong
            <4>2. d - 1 >= -(PastLimit + MaxDrift + p2) \/ d - 1 >= -(Latency + MaxDrift + p2)
                BY <2>1, <3>1, <4>1, Bounds
            <4> QED BY <2>3, <3>1, <4>2 DEF NotLong
        <3>3. CASE ~Requested
            <4>1. d > 0 \/ (y < MaxDrift /\ d >= -(Latency + y))
                BY <1>0, <1>4, <2>1, <3>3, NotOverdue
            <4>2. d - 1 >= -(Latency + MaxDrift + p2)
                BY <2>1, <3>1, <4>1, Bounds
            <4> QED BY <2>3, <3>1, <4>2 DEF NotLong
        <3> QED BY <3>2, <3>3
    <2>8. Armed'
        <3>1. ASSUME ccie, ccifg' PROVE d - 1 < FutureLimit
            <4>1. CASE ccifg
                BY <2>0, <2>1, <3>1, <4>1, Bounds DEF SetInv, Armed
            <4>2. CASE ~ccifg
                <5>1. s \in 0..(CounterMod - 1) /\ x2 = s
                    BY <1>0, <2>0, <2>1, <2>6, <3>1, <4>2 DEF SetInv, Armed
                <5>2. s = (d - 1) + x2 + (IF taifg' THEN CounterMod ELSE 0)
                    BY <2>1, <2>3, <2>4 DEF Soft
                <5> QED BY <2>1, <5>1, <5>2, Bounds
            <4> QED BY <4>1, <4>2
        <3>2. ccie /\ ~ccifg' => s \in 0..(CounterMod - 1)
            BY <1>0, <2>0, <2>1 DEF SetInv, Armed
        <3>3. ASSUME pc # "compare", ccie, d - 1 <= 0 PROVE ccifg'
            <4>1. CASE d <= 0
                BY <1>0, <2>0, <2>1, <3>3, <4>1 DEF SetInv, Armed
            <4>2. CASE d > 0
                <5>1. d - 1 = 0
                    BY <2>1, <3>3, <4>2
                <5> QED BY <1>0, <2>1, <2>5, <5>1
            <4> QED BY <2>1, <4>1, <4>2
        <3> QED BY <1>0, <2>3, <2>4, <3>1, <3>2, <3>3 DEF Armed
    <2>9. pc = "configure" => FromSet' \/ FromOverflow'
        <3> SUFFICES ASSUME pc = "configure" PROVE FromSet' \/ FromOverflow'
            OBVIOUS
        <3>1. PICK y2 \in Int : y2 = drift' /\ y2 = y + 1 /\ y < MaxDrift
            BY <1>0, <2>1
        <3>2. CASE FromSet
            <4>1. ~ccie' /\ d - 1 >= FutureLimit - y2
                BY <1>0, <2>1, <3>1, <3>2, Bounds DEF FromSet
            <4> QED BY <2>3, <3>1, <4>1 DEF FromSet
        <3>3. CASE FromOverflow
            <4>1. x <= Latency + y /\ ~taifg
                BY <2>1, <3>3 DEF FromOverflow
            <4>2. x2 = x + 1
                BY <1>1, <2>1, <3>1, <4>1, Bounds
            <4>3. ~taifg' /\ x2 <= Latency + y2
                <5>1. r' # 0
                    BY <2>1, <4>2
                <5>2. x2 <= Latency + y2
                    BY <2>1, <3>1, <4>1, <4>2, Bounds
                <5> QED BY <1>1, <4>1, <5>1, <5>2, Zenon
            <4>4. ~ccie' => Soft' >= 0
                BY <1>0, <2>1, <2>4, <3>3 DEF FromOverflow
            <4>5. d - 1 >= -(Latency + y2) \/ (ccie' /\ ccifg')
                <5>1. d >= -(Latency + y) \/ (ccie /\ ccifg)
                    BY <2>1, <3>3 DEF FromOverflow
                <5> QED BY <1>0, <2>1, <3>1, <5>1, Bounds
            <4> QED BY <2>1, <2>3, <3>1, <4>3, <4>4, <4>5 DEF FromOverflow
        <3> QED BY <2>0, <3>2, <3>3 DEF SetInv
    <2>10. pc = "compare" =>
              /\ ccie /\ s \in 0..(CounterMod - 1)
              /\ \/ Due(setting_tck)' >= FutureLimit - drift'
                 \/ ~taifg' /\ r' <= Latency + drift'
        <3> SUFFICES ASSUME pc = "compare"
                     PROVE  /\ ccie /\ s \in 0..(CounterMod - 1)
                            /\ \/ Due(setting_tck)' >= FutureLimit - drift'
                               \/ ~taifg' /\ r' <= Latency + drift'
            OBVIOUS
        <3>1. PICK y2 \in Int : y2 = drift' /\ y2 = y + 1 /\ y < MaxDrift
            BY <1>0, <2>1
        <3>2. /\ ccie /\ s \in 0..(CounterMod - 1)
              /\ d >= FutureLimit - y \/ (~taifg /\ x <= Latency + y)
            BY <2>0, <2>1 DEF SetInv
        <3>3. d >= FutureLimit - y => d - 1 >= FutureLimit - y2
            BY <2>1, <3>1, Bounds
        <3>4. ASSUME ~taifg, x <= Latency + y PROVE ~taifg' /\ x2 <= Latency + y2
            <4>1. x2 = x + 1
                BY <1>1, <2>1, <3>1, <3>4, Bounds
            <4>2. r' # 0
                BY <2>1, <4>1
            <4>3. x2 <= Latency + y2
                BY <2>1, <3>1, <3>4, <4>1, Bounds
            <4> QED BY <1>1, <3>4, <4>2, <4>3, Zenon
        <3> QED BY <2>1, <2>3, <3>1, <3>2, <3>3, <3>4
    <2>11. SetInv'
        <3>1. enabled' /\ ccr' = (setting_tck % CounterMod)'
            BY <1>0, <2>0 DEF SetInv
        <3>2. Due(setting_tck)' <= Horizon
            BY <2>0, <2>1, <2>3, Bounds DEF SetInv
        <3>3. pc' \in {"idle", "decide"} /\ ~ccie' => Soft' >= CounterMod
            BY <1>0, <2>0, <2>1, <2>4 DEF SetInv
        <3> QED BY <1>0, <2>4, <2>7, <2>8, <2>9, <2>10, <3>1, <3>2, <3>3 DEF SetInv
    <2>12. AInv /\ set' = set /\ ccie' = ccie /\ pc' = pc
        BY <1>0 DEF Inv
    <2> QED BY <1>2, <1>4, <2>11, <2>12, Zenon DEF AInv
<1> QED BY <1>3, <1>4

LEMMA SameTime ==
    ASSUME UNCHANGED timer
    PROVE  /\ TrueNow' = TrueNow /\ \A x : Signed(x - TrueNow)' = Signed(x - TrueNow)
           /\ UNCHANGED <<r, taifg, overflow_count>>
<1>1. UNCHANGED <<r, taifg, overflow_count>>
    BY DEF timer
<1> QED BY <1>1 DEF TrueNow, Signed, TimeMod

\* A step between functions, or into or out of deciding, that leaves the alarm
\* and its interrupt alone.
LEMMA IdleKeepsAlarm ==
    ASSUME Timely, Inv, pc \in {"idle", "decide"}, pc' \in {"idle", "decide"},
           UNCHANGED <<timer, cc, alarm, pending>>
    PROVE  AInv'
<1>1. /\ UNCHANGED <<r, taifg, overflow_count, ccr, ccie, ccifg, enabled, set, setting_tck>>
      /\ UNCHANGED pending
    BY DEF timer, cc, alarm
<1>2. Due(setting_tck)' = Due(setting_tck) /\ Soft' = Soft
    BY <1>1, SameTime DEF Due, Soft
<1>3. AInv
    BY DEF Inv
<1>4. SetInv => SetInv'
    <2>1. NotLong => NotLong'
        BY <1>1, <1>2 DEF NotLong
    <2>2. pc # "compare" /\ pc' # "compare" /\ pc' # "configure"
        OBVIOUS
    <2>3. Armed => Armed'
        BY <1>1, <1>2, <2>2 DEF Armed
    <2> QED BY <1>1, <1>2, <2>1, <2>2, <2>3 DEF SetInv
<1>5. pc' # "callback" /\ pc' # "configure" /\ pc' # "compare"
    OBVIOUS
<1> QED BY <1>1, <1>3, <1>4, <1>5 DEF AInv

\* What ends a setting, or finds none, needs no more than that.
LEMMA UnsetKeepsAlarm ==
    ASSUME ~set', ~ccie', pc' \in {"idle", "decide", "callback"}
    PROVE  AInv'
BY DEF AInv

LEMMA ForcedKeepsAlarm ==
    ASSUME Timely, Inv, TypeOK', CInv', AlarmSetForcedNow
    PROVE  AInv'
<1>1. /\ pc = "decide" /\ enabled /\ ~set /\ Late /\ pc' = "idle"
      /\ setting_tck' = arg.setting /\ set' = TRUE /\ ccr' = arg.setting % CounterMod
      /\ ccie' = TRUE /\ ccifg' = TRUE /\ UNCHANGED <<timer, pending, enabled>>
    BY DEF AlarmSetForcedNow, RecordSetting, Return
<1>2. PICK d \in Int, y \in 0..MaxDrift, p \in 0..Latency :
          d = Due(arg.setting) /\ y = drift /\ p = pending
    BY InvNumbers
<1>3. d + y \in -PastLimit..Horizon /\ Delay = d + y
    <2>1. CounterExact
        BY CounterIsExactInv DEF Inv, Timely
    <2> QED BY <1>1, <1>2, <2>1 DEF Inv, Deciding, Delay, CounterExact
<1>4. Due(setting_tck)' = d
    BY <1>1, <1>2, SameTime DEF Due
<1>5. d < FutureLimit /\ d <= Horizon /\ d >= -(PastLimit + MaxDrift + p)
    BY <1>1, <1>2, <1>3, Bounds DEF Late
<1>6. NotLong'
    BY <1>1, <1>2, <1>4, <1>5 DEF NotLong
<1>7. Armed'
    BY <1>1, <1>4, <1>5 DEF Armed
<1>8. SetInv'
    BY <1>1, <1>4, <1>5, <1>6, <1>7 DEF SetInv
<1> QED BY <1>1, <1>8 DEF AInv

LEMMA FutureKeepsAlarm ==
    ASSUME Timely, Inv, TypeOK', CInv', AlarmSetFuture
    PROVE  AInv'
<1>1. /\ pc = "decide" /\ enabled /\ ~set /\ ~Late /\ pc' = "configure"
      /\ setting_tck' = arg.setting /\ set' = TRUE /\ ccr' = arg.setting % CounterMod
      /\ UNCHANGED <<timer, ccie, ccifg, pending, enabled, drift>>
    BY DEF AlarmSetFuture, RecordSetting
<1>2. PICK d \in Int, y \in 0..MaxDrift, p \in 0..Latency :
          d = Due(arg.setting) /\ y = drift /\ p = pending
    BY InvNumbers
<1>3. d + y \in -PastLimit..Horizon /\ Delay = d + y
    <2>1. CounterExact
        BY CounterIsExactInv DEF Inv, Timely
    <2> QED BY <1>1, <1>2, <2>1 DEF Inv, Deciding, Delay, CounterExact
<1>4. Due(setting_tck)' = d
    BY <1>1, <1>2, SameTime DEF Due
<1>5. d >= FutureLimit - y /\ d <= Horizon /\ d >= -(PastLimit + MaxDrift + p)
    BY <1>1, <1>2, <1>3, Bounds DEF Late
<1>6. NotLong'
    BY <1>1, <1>2, <1>4, <1>5 DEF NotLong
<1>7. ~ccie'
    BY <1>1 DEF Inv, AInv
<1>8. FromSet'
    BY <1>1, <1>2, <1>4, <1>5, <1>7 DEF FromSet
<1>9. Armed'
    BY <1>7 DEF Armed
<1>10. SetInv'
    BY <1>1, <1>4, <1>5, <1>6, <1>8, <1>9 DEF SetInv
<1> QED BY <1>1, <1>7, <1>10 DEF AInv

\* The software counts the cycle the alarm is due in: the interrupt is enabled
\* and what CCIFG kept from earlier cycles is dropped.  No overflow is pending,
\* or the setting would have passed.
LEMMA ConfigureKeepsAlarm ==
    ASSUME Timely, Inv, TypeOK', CInv', Configure
    PROVE  AInv'
<1>1. /\ pc = "configure" /\ UNCHANGED <<timer, ccr, alarm, pending>>
      /\ UNCHANGED <<r, taifg, overflow_count, enabled, set, setting_tck>>
    BY DEF Configure, timer, alarm
<1>2. set /\ SetInv
    BY <1>1 DEF Inv, AInv
<1>3. PICK d \in Int, s \in Int, x \in 0..(CounterMod - 1), y \in 0..MaxDrift, p \in 0..Latency :
          /\ d = Due(setting_tck) /\ s = Soft /\ x = r /\ y = drift /\ p = pending
          /\ s = d + x + (IF taifg THEN CounterMod ELSE 0)
    BY InvNumbers
<1>4. Due(setting_tck)' = d /\ Soft' = s /\ (setting_tck % CounterMod)' = setting_tck % CounterMod
    BY <1>1, <1>3, SameTime DEF Due, Soft
<1>5. NotLong'
    BY <1>1, <1>2, <1>3, <1>4 DEF SetInv, NotLong
<1>6. enabled' /\ ccr' = (setting_tck % CounterMod)' /\ Due(setting_tck)' <= Horizon
    BY <1>1, <1>2, <1>3, <1>4 DEF SetInv
<1>7. CASE InCycle
    <2>1. ccie' = TRUE /\ ccifg' = FALSE /\ pc' = "compare" /\ UNCHANGED drift
        BY <1>1, <1>7 DEF Configure
    <2>2. s \in 0..(CounterMod - 1)
        BY <1>3, <1>7, InvNumbers
    <2>3. d >= FutureLimit - y \/ (~taifg /\ x <= Latency + y)
        BY <1>1, <1>2, <1>3 DEF SetInv, FromSet, FromOverflow
    <2>4. Armed'
        BY <1>4, <2>1, <2>2 DEF Armed
    <2>5. SetInv'
        BY <1>1, <1>3, <1>4, <1>5, <1>6, <2>1, <2>2, <2>3, <2>4 DEF SetInv
    <2> QED BY <1>1, <1>2, <2>1, <2>5 DEF AInv
<1>8. CASE ~InCycle
    <2>1. ccie' = ccie /\ ccifg' = ccifg /\ pc' = "idle"
        BY <1>8 DEF Configure, Return
    <2>2. ~(s \in 0..(CounterMod - 1))
        BY <1>3, <1>8, InvNumbers
    <2>3. ~ccie => s >= CounterMod
        <3>1. CASE FromSet
            <4>1. d > 0
                BY <1>3, <3>1, Bounds DEF FromSet
            <4> QED BY <1>3, <2>2, <4>1, Bounds
        <3>2. CASE FromOverflow
            BY <1>3, <2>2, <3>2, Bounds DEF FromOverflow
        <3> QED BY <1>1, <1>2, <3>1, <3>2 DEF SetInv
    <2>4. Armed'
        BY <1>1, <1>2, <1>3, <1>4, <2>1 DEF SetInv, Armed
    <2>5. SetInv'
        BY <1>4, <1>5, <1>6, <2>1, <2>3, <2>4 DEF SetInv
    <2> QED BY <1>1, <1>2, <2>1, <2>5 DEF AInv
<1> QED BY <1>7, <1>8

\* The counter has passed the setting just when it is beyond ccr: it is still
\* in the cycle the setting is in.
LEMMA CompareKeepsAlarm ==
    ASSUME Timely, Inv, TypeOK', CInv', Compare
    PROVE  AInv'
<1>1. /\ pc = "compare" /\ UNCHANGED <<timer, ccr, ccie, alarm, pending>> /\ pc' = "idle"
      /\ UNCHANGED <<r, taifg, overflow_count, enabled, set, setting_tck>>
      /\ ccifg' = (ccifg \/ r >= setting_tck % CounterMod)
    BY DEF Compare, Return, timer, alarm
<1>2. set /\ SetInv
    BY <1>1 DEF Inv, AInv
<1>3. PICK d \in Int, s \in Int, x \in 0..(CounterMod - 1), y \in 0..MaxDrift, p \in 0..Latency :
          /\ d = Due(setting_tck) /\ s = Soft /\ x = r /\ y = drift /\ p = pending
          /\ s = d + x + (IF taifg THEN CounterMod ELSE 0)
    BY InvNumbers
<1>4. Due(setting_tck)' = d /\ Soft' = s /\ (setting_tck % CounterMod)' = setting_tck % CounterMod
    BY <1>1, <1>3, SameTime DEF Due, Soft
<1>5. enabled' /\ ccr' = (setting_tck % CounterMod)' /\ Due(setting_tck)' <= Horizon
    BY <1>1, <1>2, <1>3, <1>4 DEF SetInv
<1>6. /\ ccie /\ s \in 0..(CounterMod - 1)
      /\ d >= FutureLimit - y \/ (~taifg /\ x <= Latency + y)
    BY <1>1, <1>2, <1>3 DEF SetInv
<1>7. ~taifg
    BY <1>3, <1>6, Bounds
<1>8. s = d + x /\ setting_tck % CounterMod = s /\ (ccifg' <=> ccifg \/ x >= s)
    <2>1. s = d + x
        BY <1>3, <1>7
    <2>2. setting_tck % CounterMod = s
        BY <1>3, <1>6, InvNumbers
    <2>3. r >= setting_tck % CounterMod <=> x >= s
        BY <1>3, <2>2
    <2>4. ccifg' <=> ccifg \/ r >= setting_tck % CounterMod
        BY <1>1, Zenon
    <2> QED BY <2>1, <2>2, <2>3, <2>4, Zenon
<1>9. d >= -(Latency + MaxDrift + p)
    BY <1>3, <1>6, <1>8, Bounds
<1>10. NotLong'
    BY <1>1, <1>3, <1>4, <1>9 DEF NotLong
<1>11. Armed'
    <2>1. ccifg => d < FutureLimit
        BY <1>2, <1>3, <1>6 DEF SetInv, Armed
    <2>2. x >= s => d < FutureLimit
        BY <1>3, <1>8, Bounds
    <2>3. d <= 0 => x >= s
        BY <1>3, <1>8
    <2> QED BY <1>1, <1>4, <1>6, <1>8, <2>1, <2>2, <2>3 DEF Armed
<1>12. SetInv'
    BY <1>1, <1>4, <1>5, <1>6, <1>10, <1>11 DEF SetInv
<1> QED BY <1>1, <1>2, <1>6, <1>12 DEF AInv

\* An overflow makes the cycle of the setting one cycle nearer and the time
\* the same, and the counter has just begun its cycle.
LEMMA OverflowKeepsAlarm ==
    ASSUME Timely, Inv, TypeOK', CInv', OverflowISR
    PROVE  AInv'
<1>1. /\ pc = "idle" /\ taifg /\ ~taifg' /\ drift' = 0
      /\ UNCHANGED <<r, ccr, ccie, ccifg, enabled, set, setting_tck>>
      /\ pc' = (IF enabled /\ set THEN "configure" ELSE "idle")
      /\ pending' = IF ccie /\ ccifg THEN pending ELSE 0
    BY DEF OverflowISR, cc, alarm, StillPending
<1>2. CASE ~set
    <2>1. ~ccie /\ ~set' /\ ~ccie'
        BY <1>1, <1>2 DEF Inv, AInv
    <2>2. pc' \in {"idle", "decide", "callback"}
        BY <1>1, <1>2
    <2> QED BY <2>1, <2>2, UnsetKeepsAlarm
<1>3. CASE set
    <2>1. SetInv /\ enabled /\ pc' = "configure"
        BY <1>1, <1>3 DEF Inv, AInv, SetInv
    <2>2. PICK d \in Int, s \in Int, x \in 0..(CounterMod - 1), p \in 0..Latency :
              /\ d = Due(setting_tck) /\ s = Soft /\ x = r /\ p = pending
              /\ s = d + x + CounterMod /\ x <= p
        BY <1>1, InvNumbers
    <2>3. Due(setting_tck)' = d
        <3>1. TrueNow' = TrueNow
            BY InvNumbers, OverflowNow
        <3> QED BY <1>1, <2>2, <3>1 DEF Due, Signed, TimeMod
    <2>4. Soft' = d + x
        BY <1>1, <2>2, <2>3 DEF Soft
    <2>5. ~ccie => d >= -x
        <3>1. ~ccie => s >= CounterMod
            BY <1>1, <2>1, <2>2 DEF SetInv
        <3> QED BY <2>2, <3>1, Bounds
    <2>6. ccie => d < 0 \/ ccifg
        \* The cycle of the setting is the one that has just ended.
        <3>1. ccie /\ ~ccifg => s \in 0..(CounterMod - 1)
            BY <2>1, <2>2 DEF SetInv, Armed
        <3> QED BY <2>2, <3>1, Bounds
    <2>7. ccie => ccifg
        BY <1>1, <2>1, <2>2, <2>6 DEF SetInv, Armed
    <2>8. NotLong'
        <3>1. CASE ccie
            BY <1>1, <2>1, <2>2, <2>3, <2>7, <3>1 DEF SetInv, NotLong
        <3>2. CASE ~ccie
            <4>1. pending' = 0 /\ d >= -(Latency + MaxDrift + 0)
                BY <1>1, <2>2, <2>5, <3>2, Bounds
            <4> QED BY <2>3, <4>1 DEF NotLong
        <3> QED BY <3>1, <3>2
    <2>9. FromOverflow'
        <3>1. r' <= Latency + drift' /\ (~ccie' => Soft' >= 0)
            BY <1>1, <2>2, <2>4, <2>5, Bounds
        <3>2. d >= -(Latency + 0) \/ (ccie /\ ccifg)
            BY <2>2, <2>5, <2>7, Bounds
        <3> QED BY <1>1, <2>3, <3>1, <3>2 DEF FromOverflow
    <2>10. Armed'
        BY <1>1, <2>1, <2>2, <2>3, <2>7 DEF SetInv, Armed
    <2>11. SetInv'
        BY <1>1, <2>1, <2>2, <2>3, <2>8, <2>9, <2>10 DEF SetInv
    <2> QED BY <1>1, <1>3, <2>1, <2>11 DEF AInv
<1> QED BY <1>2, <1>3

LEMMA StepKeepsAlarm ==
    ASSUME Timely, Inv, TypeOK', CInv', [Next]_vars
    PROVE  AInv'
<1>0. AInv /\ pc \in Phases
    BY TypeParts DEF Inv
<1>1. CASE Tick
    BY <1>1, TickKeepsAlarm
<1>2. CASE SetSome
    <2>1. PICK s, force : AlarmSet(s, force)
        BY <1>2 DEF SetSome
    <2>2. pc = "idle" /\ pc' = "decide" /\ UNCHANGED <<timer, cc, alarm, pending>>
        BY <2>1 DEF AlarmSet
    <2> QED BY <2>2, IdleKeepsAlarm
<1>3. CASE AlarmSetRefused
    <2>1. pc = "decide" /\ pc' = "idle" /\ UNCHANGED <<timer, cc, alarm, pending>>
        BY <1>3 DEF AlarmSetRefused, Return
    <2> QED BY <2>1, IdleKeepsAlarm
<1>4. CASE AlarmSetForcedNow
    BY <1>4, ForcedKeepsAlarm
<1>5. CASE AlarmSetFuture
    BY <1>5, FutureKeepsAlarm
<1>6. CASE Configure
    BY <1>6, ConfigureKeepsAlarm
<1>7. CASE Compare
    BY <1>7, CompareKeepsAlarm
<1>8. CASE CallbackReturns
    <2>1. ~set /\ ~ccie
        BY <1>0, <1>8 DEF CallbackReturns, AInv
    <2>2. ~set' /\ ~ccie' /\ pc' \in {"idle", "decide", "callback"}
        BY <1>8, <2>1 DEF CallbackReturns, Return, alarm, cc
    <2> QED BY <2>2, UnsetKeepsAlarm
<1>9. CASE OverflowISR
    BY <1>9, OverflowKeepsAlarm
<1>10. CASE CCISR
    <2>1. set /\ enabled
        BY <1>0, <1>10 DEF CCISR, AInv, SetInv
    <2>2. ~set' /\ ~ccie' /\ pc' \in {"idle", "decide", "callback"}
        BY <1>10, <2>1 DEF CCISR
    <2> QED BY <2>2, UnsetKeepsAlarm
<1>11. CASE AlarmCancel
    <2>1. ~set' /\ ~ccie' /\ pc' \in {"idle", "decide", "callback"}
        BY <1>11 DEF AlarmCancel, CancelEffect, call
    <2> QED BY <2>1, UnsetKeepsAlarm
<1>12. CASE AlarmEnable
    <2>1. ~set /\ ~ccie
        BY <1>0, <1>12 DEF AlarmEnable, AInv, SetInv
    <2>2. ~set' /\ ~ccie' /\ pc' \in {"idle", "decide", "callback"}
        BY <1>12, <2>1 DEF AlarmEnable, cc, call
    <2> QED BY <2>2, UnsetKeepsAlarm
<1>13. CASE AlarmDisable
    <2>1. ~set' /\ ~ccie'
        <3>1. CASE set
            BY <1>13, <3>1 DEF AlarmDisable, CancelEffect
        <3>2. CASE ~set
            BY <1>0, <1>13, <3>2 DEF AlarmDisable, AInv
        <3> QED BY <3>1, <3>2
    <2>2. pc' \in {"idle", "decide", "callback"}
        BY <1>13 DEF AlarmDisable, call
    <2> QED BY <2>1, <2>2, UnsetKeepsAlarm
<1>14. CASE UNCHANGED vars
    <2>1. UNCHANGED <<timer, r, taifg, overflow_count, ccr, ccie, ccifg, enabled, set,
                      setting_tck, pc, drift, pending>>
        BY <1>14 DEF vars, timer, cc, alarm, call
    <2>2. Due(setting_tck)' = Due(setting_tck) /\ Soft' = Soft
        BY <2>1, SameTime DEF Due, Soft
    <2>3. SetInv => SetInv'
        BY <2>1, <2>2 DEF SetInv, NotLong, Armed, FromSet, FromOverflow
    <2> QED BY <1>0, <2>1, <2>3 DEF AInv
<1> QED BY <1>1, <1>2, <1>3, <1>4, <1>5, <1>6, <1>7, <1>8, <1>9, <1>10, <1>11, <1>12,
           <1>13, <1>14 DEF Next, Running

LEMMA StepKeepsDeciding ==
    ASSUME Timely, Inv, TypeOK', CInv', [Next]_vars
    PROVE  Deciding'
<1>1. CASE Tick
    BY <1>1, TickKeepsAlarm
<1>2. CASE SetSome
    <2>1. PICK s \in 0..(TimeMod - 1), force \in BOOLEAN :
              Due(s) \in -PastLimit..Horizon /\ AlarmSet(s, force)
        BY <1>2 DEF SetSome
    <2>2. /\ arg' = [setting |-> s, force |-> force] /\ snap' = TrueNow /\ drift' = 0
          /\ UNCHANGED timer
        BY <2>1 DEF AlarmSet
    <2>3. arg'.setting = s
        BY <2>2
    <2>4. Due(arg.setting)' = Due(s) /\ Signed(arg.setting - snap)' = Due(s)
        BY <2>2, <2>3, SameTime DEF Due, Signed, TimeMod
    <2>5. PICK d \in Int : d = Due(s)
        BY <2>1, Bounds
    <2> QED BY <2>1, <2>2, <2>4, <2>5 DEF Deciding
<1>3. CASE pc' # "decide"
    BY <1>3 DEF Deciding
<1>4. CASE UNCHANGED vars
    <2>1. UNCHANGED <<timer, arg, snap, pc, drift>>
        BY <1>4 DEF vars, call
    <2>2. Due(arg.setting)' = Due(arg.setting)
          /\ Signed(arg.setting - snap)' = Signed(arg.setting - snap)
        BY <2>1, SameTime DEF Due, Signed, TimeMod
    <2> QED BY <2>1, <2>2 DEF Deciding, Inv
<1>5. CASE Running
    BY <1>3, <1>5 DEF Running, AlarmSetRefused, AlarmSetForcedNow, AlarmSetFuture, Configure,
                      Compare, CallbackReturns, Return
<1>6. CASE OverflowISR \/ CCISR \/ AlarmCancel \/ AlarmEnable \/ AlarmDisable
    BY <1>3, <1>6 DEF OverflowISR, CCISR, AlarmCancel, AlarmEnable, AlarmDisable, call
<1> QED BY <1>1, <1>2, <1>4, <1>5, <1>6 DEF Next

LEMMA StepKeepsInv ==
    ASSUME Timely, Inv, [Next]_vars
    PROVE  Inv'
<1>1. TypeOK'
    BY StepKeepsTypes DEF Timely, Inv
<1>2. CInv'
    BY StepKeepsCounter DEF Timely, Inv
<1> QED BY <1>1, <1>2, StepKeepsAlarm, StepKeepsDeciding DEF Inv

LEMMA InitInv == ASSUME Timely, Init PROVE Inv
<1>0. CounterMod \in Nat /\ CounterMod > 0 /\ TimeMod \in Nat /\ TimeMod > 0
      /\ OverflowMod \in Nat /\ OverflowMod > 0 /\ MaxDrift \in Nat /\ Latency \in Nat
    BY TimeFacts, TimerAssumption, Bounds
<1>1. Flags /\ pc \in Phases
    BY DEF Init, Flags, Phases
<1>2. Numbers
    <2>1. /\ 0 \in 0..(CounterMod - 1) /\ 0 \in 0..(OverflowMod - 1) /\ 0 \in 0..(TimeMod - 1)
          /\ 0 \in 0..MaxDrift /\ 0 \in 0..Latency
        BY <1>0
    <2> QED BY <2>1 DEF Init, Numbers
<1>3. CInv
    BY <1>0 DEF Init, CInv, CounterTypes, OverflowRecent, ReadingKept
<1>4. Deciding /\ AInv
    BY DEF Init, Deciding, AInv
<1> QED BY <1>1, <1>2, <1>3, <1>4, TypeParts DEF Inv

\* Every variable has its type.
THEOREM TypeCorrect == Timely /\ Spec => []TypeOK
<1> SUFFICES ASSUME Timely PROVE Spec => []TypeOK
    OBVIOUS
<1>1. Init => Inv
    BY InitInv
<1>2. Inv /\ [Next]_vars => Inv'
    BY StepKeepsInv
<1> QED BY <1>1, <1>2, PTL DEF Spec, Inv

\* If a function takes less than FutureLimit ticks and an overflow is handled
\* within less than half a period, no alarm that is due is forgotten: wherever
\* the counter passes the setting, the interrupt has been requested or the
\* overflow handler will come to it.
THEOREM NoneForgotten == Timely /\ Spec => []DueIsRequested
<1> SUFFICES ASSUME Timely PROVE Spec => []DueIsRequested
    OBVIOUS
<1>1. Init => Inv
    BY InitInv
<1>2. Inv /\ [Next]_vars => Inv'
    BY StepKeepsInv
<1>3. Inv => DueIsRequested
    BY InvIsDue
<1> QED BY <1>1, <1>2, <1>3, PTL DEF Spec

-----------------------------------------------------------------------------
(* What the alarm promises.                                                *)

\* Every step is one of the promised alarm's or leaves it alone: the alarm
\* comes nearer with every tick, and goes off only when it is set and less
\* than FutureLimit ticks away.
LEMMA StepIsPromised ==
    ASSUME Timely, Inv, Inv', [Next]_vars
    PROVE  Promised!Next \/ UNCHANGED Promised!alarmVars
<1>0. AInv /\ pc \in Phases /\ set \in BOOLEAN /\ Due(setting_tck)' \in Int
    <2>1. Numbers'
        BY TypePartsNext DEF Inv
    <2>2. Clock'
        BY <2>1 DEF Numbers, Clock, Timely
    <2>3. Due(setting_tck)' \in Int
        BY <2>2, ClockFactsNext DEF ClockOK
    <2> QED BY <2>3, TypeParts DEF Inv, Flags
<1> USE DEF Promised!Next, Promised!alarmVars
<1>1. ASSUME UNCHANGED <<set, setting_tck>>, TrueNow' = TrueNow,
             pc' = "callback" <=> pc = "callback"
      PROVE  UNCHANGED Promised!alarmVars
    <2>1. Due(setting_tck)' = Due(setting_tck)
        BY <1>1 DEF Due, Signed, TimeMod
    <2> QED BY <1>1, <2>1
<1>2. CASE Tick
    <2>1. UNCHANGED <<set, setting_tck, pc>>
        BY <1>2 DEF Tick, alarm, call
    <2>2. CASE ~set
        BY <2>1, <2>2
    <2>3. CASE set
        <3>1. Due(setting_tck)' = Due(setting_tck) - 1
            BY <1>2, <2>3, TickIsNearer
        <3>2. Promised!Tick
            BY <2>1, <2>3, <3>1 DEF Promised!Tick
        <3> QED BY <3>2
    <2> QED BY <2>2, <2>3
<1>3. CASE SetSome \/ AlarmSetRefused \/ Configure \/ Compare
    <2>1. /\ UNCHANGED timer /\ UNCHANGED alarm
          /\ pc # "callback" /\ pc' # "callback"
        BY <1>3 DEF SetSome, AlarmSet, AlarmSetRefused, Configure, Compare, Return
    <2> QED BY <1>1, <2>1, SameTime DEF alarm
<1>4. CASE AlarmSetForcedNow \/ AlarmSetFuture
    <2>1. ~set /\ set' = TRUE /\ pc # "callback" /\ pc' # "callback"
        BY <1>4 DEF AlarmSetForcedNow, AlarmSetFuture, RecordSetting, Return
    <2>2. Promised!Set
        BY <1>0, <2>1 DEF Promised!Set
    <2> QED BY <2>2
<1>5. CASE CallbackReturns
    <2>1. /\ pc = "callback" /\ pc' # "callback" /\ UNCHANGED timer /\ UNCHANGED alarm
        BY <1>5 DEF CallbackReturns, Return
    <2>2. UNCHANGED <<set, setting_tck>> /\ Due(setting_tck)' = Due(setting_tck)
        BY <2>1, SameTime DEF alarm, Due
    <2>3. Promised!Return
        BY <2>1, <2>2 DEF Promised!Return
    <2> QED BY <2>3
<1>6. CASE OverflowISR
    <2>1. UNCHANGED <<set, setting_tck>> /\ pc # "callback" /\ pc' # "callback"
        BY <1>6 DEF OverflowISR, alarm
    <2> QED BY <1>1, <1>6, <2>1, InvNumbers, OverflowNow
<1>7. CASE CCISR
    <2>1. set /\ SetInv /\ enabled /\ ccie /\ ccifg
        BY <1>0, <1>7 DEF CCISR, AInv, SetInv
    <2>2. Due(setting_tck) < FutureLimit
        BY <2>1 DEF SetInv, Armed
    <2>3. set' = FALSE /\ pc' = "callback"
        BY <1>7, <2>1 DEF CCISR
    <2>4. Promised!Fire
        BY <2>1, <2>2, <2>3 DEF Promised!Fire
    <2> QED BY <2>4
<1>8. CASE AlarmCancel \/ (AlarmDisable /\ set)
    <2>1. set /\ set' = FALSE /\ UNCHANGED pc
        BY <1>8 DEF AlarmCancel, AlarmDisable, CancelEffect, call
    <2>2. Promised!Cancel
        BY <2>1 DEF Promised!Cancel
    <2> QED BY <2>2
<1>9. CASE AlarmEnable \/ (AlarmDisable /\ ~set)
    <2>1. UNCHANGED <<set, setting_tck, pc, timer>>
        BY <1>9 DEF AlarmEnable, AlarmDisable, call
    <2> QED BY <1>1, <2>1, SameTime
<1>10. CASE UNCHANGED vars
    <2>1. UNCHANGED <<set, setting_tck, pc, timer>>
        BY <1>10 DEF vars, alarm, call
    <2> QED BY <1>1, <2>1, SameTime
<1> QED BY <1>0, <1>2, <1>3, <1>4, <1>5, <1>6, <1>7, <1>8, <1>9, <1>10 DEF Next, Running

\* A dedicated alarm goes off once for each setting, never more than
\* FutureLimit ticks early and never when it was cancelled.
THEOREM AlarmIsPromised == Timely /\ Spec => Promised!Safe
<1> SUFFICES ASSUME Timely PROVE Spec => Promised!Safe
    OBVIOUS
<1>1. Init => Inv
    BY InitInv
<1>2. Inv /\ [Next]_vars => Inv'
    BY StepKeepsInv
<1>3. Init => Promised!Init
    BY DEF Init, Promised!Init
<1>4. Inv /\ Inv' /\ [Next]_vars => [Promised!Next]_(Promised!alarmVars)
    BY StepIsPromised
<1> QED BY <1>1, <1>2, <1>3, <1>4, PTL DEF Spec, Promised!Safe

=============================================================================
