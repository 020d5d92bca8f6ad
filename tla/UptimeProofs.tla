----------------------------- MODULE UptimeProofs -----------------------------
(***************************************************************************)
(* Theorems about Uptime, for every length of an era, every limit and any  *)
(* number of delays, suspensions and updates of the epoch.                 *)
(***************************************************************************)
EXTENDS Uptime, TLAPS

\* An epoch that was right when it was updated goes with the clock: the time
\* of the update and its age add up to the clock, give or take the era that has
\* begun since.  A valid epoch of a running clock was provided or adjusted.
EpochFollowsClock ==
    /\ base = "right" /\ age < EraMod =>
           epoch_updated_utt + age = utt + (IF wraps = 1 THEN EraMod ELSE 0)
    /\ epoch_is_valid /\ running => base # "none"
    /\ ~valid => base = "none"

IInv == TypeOK /\ HooksFollowFlags

-----------------------------------------------------------------------------
(* Types and hooks.                                                        *)

\* Wrap keeps what is one wrap away at most in the counter's range.
LEMMA WrapFacts ==
    ASSUME NEW x \in Int, -EraMod <= x, x < 2 * EraMod
    PROVE  Wrap(x) \in 0..(EraMod - 1)
BY UptimeAssumption DEF Wrap, EraMod

\* Every step keeps the types, and the hooks linked as the flags say.
LEMMA StepKeepsHooks == IInv /\ [Next]_vars => IInv'
<1> SUFFICES ASSUME IInv, [Next]_vars PROVE IInv'
    OBVIOUS
<1> USE UptimeAssumption
<1>0. /\ EraMod \in Nat /\ 2 < EraMod
      /\ 0 \in 0..(EraMod - 1) /\ 0 \in 0..EraMod /\ 0 \in 0..1
    BY DEF EraMod
<1>1. CASE Tick
    <2>1. utt' \in 0..(EraMod - 1)
        BY <1>0, <1>1, WrapFacts DEF Tick, IInv, TypeOK
    <2> QED BY <1>0, <1>1, <2>1
            DEF Tick, IInv, TypeOK, HooksFollowFlags, flags, alarm, main
<1>2. CASE UptimeStart
    <2>1. TypeOK'
        BY <1>0, <1>2 DEF UptimeStart, Resume, Register, main, IInv, TypeOK, HooksFollowFlags
    <2>2. HooksFollowFlags'
        BY <1>2 DEF UptimeStart, Resume, Register, main, IInv, TypeOK, HooksFollowFlags
    <2> QED BY <2>1, <2>2 DEF IInv
<1>3. CASE UptimeResume
    BY <1>3 DEF UptimeResume, Resume, Register, IInv, TypeOK, HooksFollowFlags, main
<1>4. CASE UptimeSuspend
    BY <1>4 DEF UptimeSuspend, Unregister, IInv, TypeOK, HooksFollowFlags, main
<1>5. CASE DelayEnable
    BY <1>5 DEF DelayEnable, Register, IInv, TypeOK, HooksFollowFlags, main, alarm, epoch
<1>6. CASE DelayDisable
    BY <1>6 DEF DelayDisable, Unregister, IInv, TypeOK, HooksFollowFlags, main, alarm, epoch
<1>7. ASSUME NEW d \in 0..Horizon, Delay(d) PROVE IInv'
    <2>1. wake_utt' \in 0..(EraMod - 1)
        BY <1>0, <1>7, WrapFacts DEF Delay, IInv, TypeOK, EraMod
    <2> QED BY <1>7, <2>1 DEF Delay, IInv, TypeOK, HooksFollowFlags, flags, alarm, epoch
<1>8. CASE DelayExits
    <2>1. TypeOK'
        BY <1>0, <1>8 DEF DelayExits, LeaveDelay, flags, alarm, epoch, IInv, TypeOK, HooksFollowFlags
    <2>2. HooksFollowFlags'
        BY <1>8 DEF DelayExits, LeaveDelay, flags, alarm, epoch, IInv, TypeOK, HooksFollowFlags
    <2> QED BY <2>1, <2>2 DEF IInv
<1>9. CASE SleepRefused
    <2>1. TypeOK'
        BY <1>0, <1>9 DEF SleepRefused, LeaveDelay, alarm, epoch, IInv, TypeOK, HooksFollowFlags
    <2>2. HooksFollowFlags'
        BY <1>9 DEF SleepRefused, LeaveDelay, alarm, epoch, IInv, TypeOK, HooksFollowFlags
    <2> QED BY <2>1, <2>2 DEF IInv
<1>10. CASE Sleep
    BY <1>10 DEF Sleep, AlarmSetFails, IInv, TypeOK, HooksFollowFlags, epoch
<1>11. CASE AlarmFires
    BY <1>11 DEF AlarmFires, IInv, TypeOK, HooksFollowFlags, epoch
<1>12. CASE OtherISR
    <2>1. TypeOK'
        BY <1>0, <1>12 DEF OtherISR, flags, alarm, epoch, IInv, TypeOK, HooksFollowFlags
    <2>2. HooksFollowFlags'
        BY <1>12 DEF OtherISR, flags, alarm, epoch, IInv, TypeOK, HooksFollowFlags
    <2> QED BY <2>1, <2>2 DEF IInv
<1>13. CASE SleepReturns
    <2>1. TypeOK'
        BY <1>0, <1>13 DEF SleepReturns, LeaveDelay, flags, epoch, IInv, TypeOK, HooksFollowFlags
    <2>2. HooksFollowFlags'
        BY <1>13 DEF SleepReturns, LeaveDelay, flags, epoch, IInv, TypeOK, HooksFollowFlags
    <2> QED BY <2>1, <2>2 DEF IInv
<1>14. CASE SetEpoch
    <2>1. TypeOK'
        BY <1>0, <1>14 DEF SetEpoch, IInv, TypeOK, flags, alarm, main
    <2>2. HooksFollowFlags'
        BY <1>14 DEF SetEpoch, IInv, HooksFollowFlags, flags, alarm, main
    <2> QED BY <2>1, <2>2 DEF IInv
<1>15. CASE AdjustEpoch
    BY <1>0, <1>15 DEF AdjustEpoch, IInv, TypeOK, HooksFollowFlags, flags, alarm, main
<1>16. ASSUME NEW t \in 0..(EraMod - 1), Convert(t) PROVE IInv'
    BY <1>16 DEF Convert, IInv, TypeOK, HooksFollowFlags, flags, alarm, main
<1>17. CASE UNCHANGED vars
    BY <1>17 DEF vars, IInv, TypeOK, HooksFollowFlags, flags, alarm, main, epoch
<1> QED
    BY <1>1, <1>2, <1>3, <1>4, <1>5, <1>6, <1>7, <1>8, <1>9, <1>10, <1>11, <1>12,
       <1>13, <1>14, <1>15, <1>16, <1>17 DEF Next, Delaying

\* IInv holds throughout.
LEMMA InductiveInvariant == Spec => []IInv
<1>1. Init => IInv
    <2>1. 0 \in 0..(EraMod - 1) /\ EraMod \in 0..EraMod /\ 0 \in 0..1
        BY UptimeAssumption DEF EraMod
    <2>2. Init => TypeOK
        BY <2>1 DEF Init, TypeOK
    <2>3. Init => HooksFollowFlags
        BY DEF Init, HooksFollowFlags
    <2> QED BY <2>2, <2>3 DEF IInv
<1> QED BY <1>1, StepKeepsHooks, PTL DEF Spec

\* Every variable keeps its type: no time leaves the counter's 32 bits.
THEOREM TypeCorrect == Spec => []TypeOK
BY InductiveInvariant, PTL DEF IInv

\* The alarm's hooks are linked exactly when the clock runs and the delay
\* alarm is enabled, and the alarm is set only for a sleeper, whatever calls
\* are made in between, by whom and in which order.
THEOREM HooksAgree == Spec => []HooksFollowFlags
BY InductiveInvariant, PTL DEF IInv

\* No delay ends before its time, but for its exit expression or because the
\* clock or the delay alarm has been turned off.
THEOREM DelaysComplete == Spec => DelayComplete
<1>1. ASSUME IInv, [Next]_vars, pc # "awake", pc' = "awake"
      PROVE  exit \/ ~registered \/ Due(wake_utt) < FutureLimit
    <2>1. DelayExits \/ SleepRefused \/ SleepReturns
        BY <1>1 DEF Next, vars, main, Tick, UptimeStart, UptimeResume, UptimeSuspend,
             DelayEnable, DelayDisable, Delay, Delaying, Sleep, AlarmFires, OtherISR,
             SetEpoch, AdjustEpoch, Convert, GIE
    <2>2. CASE DelayExits
        BY <2>2 DEF DelayExits
    <2>3. CASE SleepRefused
        BY <1>1, <2>3 DEF SleepRefused, AlarmSetFails, IInv, HooksFollowFlags
    <2>4. CASE SleepReturns
        <3>1. ~(Due(wake_utt) > 0)
            BY <1>1, <2>4 DEF SleepReturns
        <3>2. Due(wake_utt) \in Int
            BY <1>1, UptimeAssumption DEF Due, Wrap, EraMod, IInv, TypeOK
        <3> QED BY <3>1, <3>2, UptimeAssumption
    <2> QED BY <2>1, <2>2, <2>3, <2>4
<1> QED BY <1>1, InductiveInvariant, PTL DEF Spec, DelayComplete

-----------------------------------------------------------------------------
(* The epoch.                                                              *)

\* Every step keeps a right epoch in step with the clock.
LEMMA StepKeepsEpoch ==
    ASSUME IInv, EpochFollowsClock, [Next]_vars
    PROVE  EpochFollowsClock'
<1> USE UptimeAssumption DEF EpochFollowsClock, flags
<1>0. EraMod \in Nat /\ 2 < EraMod
    BY DEF EraMod
<1>1. CASE Tick
    <2>1. utt \in 0..(EraMod - 1) /\ epoch_updated_utt \in 0..(EraMod - 1)
          /\ age \in 0..EraMod /\ wraps \in 0..1
        BY DEF IInv, TypeOK
    <2>2. utt' = IF utt + 1 = EraMod THEN 0 ELSE utt + 1
        BY <1>0, <1>1, <2>1 DEF Tick, Wrap
    <2>3. age' < EraMod => age + 1 < EraMod /\ age' = age + 1
        BY <1>0, <1>1, <2>1 DEF Tick
    <2>4. CASE utt + 1 = EraMod
        <3>1. wraps' = 1 /\ utt' = 0
            BY <1>1, <2>2, <2>4 DEF Tick
        <3>2. base = "right" /\ age' < EraMod => wraps = 0
            BY <1>0, <2>1, <2>3, <2>4
        <3> QED BY <1>0, <1>1, <2>1, <2>3, <2>4, <3>1, <3>2 DEF Tick
    <2>5. CASE utt + 1 # EraMod
        <3>1. wraps' = wraps /\ utt' = utt + 1
            BY <1>0, <1>1, <2>1, <2>2, <2>5 DEF Tick
        <3> QED BY <1>0, <1>1, <2>1, <2>3, <3>1 DEF Tick
    <2> QED BY <2>4, <2>5
<1>2. CASE UptimeStart
    <2>1. epoch_is_valid' = FALSE /\ base' = base /\ base = "none"
        BY <1>2 DEF UptimeStart, Resume
    <2> QED BY <1>0, <1>2, <2>1 DEF UptimeStart
<1>3. CASE UptimeResume
    BY <1>3 DEF UptimeResume, Resume
<1>4. CASE UptimeSuspend
    BY <1>4 DEF UptimeSuspend
<1>5. CASE SetEpoch
    BY <1>0, <1>5 DEF SetEpoch, IInv, TypeOK
<1>6. CASE AdjustEpoch
    <2>1. base' = "right" => base = "right" /\ wraps = 0 /\ wraps' = 0
        BY <1>6 DEF AdjustEpoch, IInv, TypeOK
    <2>2. base' # "none" /\ valid' = valid /\ valid
        BY <1>6 DEF AdjustEpoch, IInv, TypeOK
    <2>3. epoch_updated_utt' = utt /\ utt' = utt /\ age' = 0 /\ utt \in Int
        BY <1>6 DEF AdjustEpoch, IInv, TypeOK
    <2> QED BY <2>1, <2>2, <2>3
<1>7. ASSUME NEW t \in 0..(EraMod - 1), Convert(t) PROVE EpochFollowsClock'
    <2>1. epoch_is_valid' => epoch_is_valid
        BY <1>7 DEF Convert, EpochEra, IInv, TypeOK
    <2> QED BY <1>7, <2>1 DEF Convert
<1>8. CASE UNCHANGED <<utt, running, valid, epoch>>
    BY <1>8 DEF epoch
<1> QED
    BY <1>1, <1>2, <1>3, <1>4, <1>5, <1>6, <1>7, <1>8 DEF Next, vars, Delaying, DelayEnable,
        DelayDisable, Delay, DelayExits, SleepRefused, Sleep, AlarmFires, OtherISR, SleepReturns

\* The arithmetic of eras: with the update's age known, a time less than half
\* an era from the update is put where it belongs.
LEMMA EraArithmetic ==
    ASSUME IInv, EpochFollowsClock, epoch_is_valid, base = "right", age < EraMod,
           NEW d \in (-EraMod)..EraMod, -Half < age + d, age + d < Half
    PROVE  EpochEra(Wrap(utt + d)) =
               IF -ValidOffset < age + d /\ age + d < ValidOffset
               THEN EraFromNow(d) ELSE -1
<1>1. utt \in 0..(EraMod - 1) /\ epoch_updated_utt \in 0..(EraMod - 1)
      /\ age \in 0..EraMod /\ wraps \in 0..1
    BY DEF IInv, TypeOK
<1>2. epoch_updated_utt + age = utt + (IF wraps = 1 THEN EraMod ELSE 0)
    BY DEF EpochFollowsClock
<1>3. EraMod = 2 * Half /\ Half \in Nat /\ ValidOffset \in Nat /\ 1 < Half /\ ValidOffset <= Half
    BY UptimeAssumption DEF EraMod
<1> DEFINE t == Wrap(utt + d)
           delta == Wrap(epoch_updated_utt - t)
           later == age + d
<1>4. t \in 0..(EraMod - 1) /\ later \in Int
    BY <1>1, <1>3 DEF Wrap
<1>5. delta = IF later <= 0 THEN -later ELSE EraMod - later
    BY <1>1, <1>2, <1>3, <1>4 DEF Wrap
<1>6. later <= 0 => (t > epoch_updated_utt <=> utt + d + (IF wraps = 1 THEN EraMod ELSE 0) < 0)
    BY <1>1, <1>2, <1>3, <1>4 DEF Wrap
<1>7. later > 0 => (t < epoch_updated_utt <=> utt + d + (IF wraps = 1 THEN EraMod ELSE 0) >= EraMod)
    BY <1>1, <1>2, <1>3, <1>4 DEF Wrap
<1> HIDE DEF t, delta
<1>8. EpochEra(t) = IF delta < Half
         THEN IF delta >= ValidOffset THEN -1 ELSE IF t > epoch_updated_utt THEN 0 ELSE 1
         ELSE IF EraMod - delta >= ValidOffset THEN -1
              ELSE IF t < epoch_updated_utt THEN 2 ELSE 1
    BY DEF EpochEra, t, delta
<1>9. EpochEra(t) = IF -ValidOffset < later /\ later < ValidOffset
               THEN EraFromNow(d) ELSE -1
    BY <1>1, <1>2, <1>3, <1>4, <1>5, <1>6, <1>7, <1>8 DEF EraFromNow
<1> QED BY <1>9 DEF t

\* Times strictly within the documented range are put in the right era and
\* those strictly outside refused, for any length of an era, until an adjustment
\* in a later era than the epoch's makes the epoch itself wrong, or revives
\* one the clock has stood still under.
THEOREM EpochsRight == Spec => []EpochRight
<1>1. Init => EpochFollowsClock
    BY UptimeAssumption DEF Init, EpochFollowsClock, EraMod
<1>2. IInv /\ EpochFollowsClock /\ [Next]_vars => EpochFollowsClock'
    BY StepKeepsEpoch
<1>3. IInv /\ EpochFollowsClock => EpochRight
    <2> SUFFICES ASSUME IInv, EpochFollowsClock, epoch_is_valid, running PROVE
            /\ base # "none"
            /\ base = "right" /\ age < EraMod =>
                   \A d \in (-EraMod)..EraMod :
                       /\ -ValidOffset < age + d /\ age + d < ValidOffset
                              => EpochEra(Wrap(utt + d)) = EraFromNow(d)
                       /\ \/ -Half < age + d /\ age + d < -ValidOffset
                          \/ ValidOffset < age + d /\ age + d < Half
                              => EpochEra(Wrap(utt + d)) = -1
        BY DEF EpochRight
    <2>1. base # "none"
        BY DEF EpochFollowsClock
    <2>2. ASSUME base = "right", age < EraMod, NEW d \in (-EraMod)..EraMod
          PROVE  /\ -ValidOffset < age + d /\ age + d < ValidOffset
                        => EpochEra(Wrap(utt + d)) = EraFromNow(d)
                 /\ \/ -Half < age + d /\ age + d < -ValidOffset
                    \/ ValidOffset < age + d /\ age + d < Half
                        => EpochEra(Wrap(utt + d)) = -1
        <3>1. age + d \in Int /\ ValidOffset \in Nat /\ Half \in Nat /\ ValidOffset <= Half
            BY UptimeAssumption DEF IInv, TypeOK, EraMod
        <3>2. CASE -Half < age + d /\ age + d < Half
            <4>1. EpochEra(Wrap(utt + d)) =
                      IF -ValidOffset < age + d /\ age + d < ValidOffset
                      THEN EraFromNow(d) ELSE -1
                BY <2>2, <3>2, EraArithmetic
            <4> QED BY <3>1, <4>1
        <3>3. CASE ~(-Half < age + d /\ age + d < Half)
            BY <3>1, <3>3
        <3> QED BY <3>2, <3>3
    <2> QED BY <2>1, <2>2
<1> QED BY <1>1, <1>2, <1>3, InductiveInvariant, PTL DEF Spec

=============================================================================
