------------------------------- MODULE Uptime -------------------------------
(***************************************************************************)
(* The uptime clock of src/utility/uptime.c: the main program's delays on  *)
(* the delay alarm, whose hooks are linked or not according to four flags, *)
(* suspending and resuming the clock, and the epoch, which relates the     *)
(* 32-bit clock to a calendar although the clock wraps.                    *)
(*                                                                         *)
(* The alarm keeps the promise of DedicatedAlarm.  The functions whose     *)
(* names end in _ni may be called by an interrupt handler while the main   *)
(* program sleeps, so they are steps of their own.  EraMod stands for 2^32.*)
(***************************************************************************)
EXTENDS Integers

CONSTANTS Half,           \* half an era
          ValidOffset,    \* BSP430_UPTIME_EPOCH_VALID_OFFSET_UTT
          FutureLimit,    \* BSP430_TIMER_ALARM_FUTURE_LIMIT
          Horizon,        \* the longest delay asked for
          MaxLate         \* ticks by which the alarm's handler may be late

EraMod == 2 * Half

ASSUME UptimeAssumption ==
    /\ Half \in Nat /\ ValidOffset \in Nat /\ FutureLimit \in Nat
    /\ Horizon \in Nat /\ MaxLate \in Nat
    /\ 1 < Half /\ ValidOffset <= Half /\ 0 < FutureLimit /\ FutureLimit <= Horizon
    /\ Horizon < Half /\ 0 < MaxLate /\ MaxLate < Half

VARIABLES utt,              \* the clock
          running,          \* MC bits of the timer: it counts
          valid, enabled, registered, timer_active, fired,   \* delayAlarm_.flags
          linked, set,      \* its alarm's flags ENABLED and SET
          pc,               \* the main program: "awake", "loop" (in the delay
                            \* macro), "asleep", "woken" (interrupts still on)
          wake_utt,         \* until when it delays
          exit,             \* the expression that ends its delay
          epoch_is_valid, epoch_updated_utt,
          age,              \* ticks since epoch_updated_utt, at most EraMod
          wraps,            \* 0 in the era in which the epoch was provided, else 1
          base              \* what epoch_ntp is: the start of the era of
                            \* epoch_updated_utt ("right") or of an earlier one
                            \* ("skewed"), what was "adjusted" from an epoch the
                            \* clock has stood still under, or that itself ("none")

flags == <<valid, enabled, registered, timer_active, fired>>
alarm == <<linked, set>>
main == <<pc, wake_utt, exit>>
epoch == <<epoch_is_valid, epoch_updated_utt, age, wraps, base>>
vars == <<utt, running, flags, alarm, main, epoch>>

\* A time as the 32-bit counter holds it, one wrap away at most.
Wrap(x) == IF x < 0 THEN x + EraMod ELSE IF x >= EraMod THEN x - EraMod ELSE x

\* Ticks until t, as a signed number.
Due(t) == IF Wrap(t - utt) >= Half THEN Wrap(t - utt) - EraMod ELSE Wrap(t - utt)

\* Interrupts are disabled in the delay macro except while it sleeps.
GIE == pc # "loop"

-----------------------------------------------------------------------------
(* The clock.                                                              *)

Tick ==
    /\ running
    /\ pc # "awake" => Due(wake_utt) > -MaxLate
    /\ utt' = Wrap(utt + 1)
    /\ age' = IF age < EraMod THEN age + 1 ELSE age
    /\ wraps' = IF utt' = 0 THEN 1 ELSE wraps
    /\ UNCHANGED <<running, flags, alarm, main, epoch_is_valid, epoch_updated_utt, base>>

-----------------------------------------------------------------------------
(* delayAlarmSetRegistered_ni_; on: the flag ENABLED.  *)

Register(on) ==
    /\ registered' = (registered \/ on)
    /\ linked' = (linked \/ (on /\ ~registered))
    /\ UNCHANGED set

\* The alarm is cancelled and its hooks unlinked, once.
Unregister ==
    /\ registered' = FALSE
    /\ linked' = (linked /\ ~registered)
    /\ set' = (set /\ ~registered)

-----------------------------------------------------------------------------
(* vBSP430uptimeResume_ni, vBSP430uptimeStart_ni, vBSP430uptimeSuspend_ni  *)
(* and iBSP430uptimeDelaySetEnabled_ni.                                    *)

Resume(on) ==
    /\ timer_active' = TRUE
    /\ Register(on)
    /\ epoch_is_valid' = FALSE
    /\ running' = TRUE

UptimeResume ==
    /\ valid /\ GIE
    /\ Resume(enabled)
    /\ base' = IF running THEN base ELSE "none"
    /\ UNCHANGED <<utt, valid, enabled, fired, main, epoch_updated_utt, age, wraps>>

\* Once, when the platform is initialized.
UptimeStart ==
    /\ ~valid
    /\ utt' = 0
    /\ valid' = TRUE /\ enabled' = TRUE /\ fired' = FALSE
    /\ Resume(TRUE)
    /\ UNCHANGED <<main, epoch_updated_utt, age, wraps, base>>

UptimeSuspend ==
    /\ valid /\ GIE
    /\ running' = FALSE
    /\ Unregister
    /\ timer_active' = FALSE
    /\ base' = IF running THEN "none" ELSE base
    /\ UNCHANGED <<utt, valid, enabled, fired, main, epoch_is_valid,
                   epoch_updated_utt, age, wraps>>

DelayEnable ==
    /\ valid /\ GIE
    /\ enabled' = TRUE
    /\ IF timer_active THEN Register(TRUE) ELSE UNCHANGED <<registered, alarm>>
    /\ UNCHANGED <<utt, running, valid, timer_active, fired, main, epoch>>

\* Mutant: the hooks stay linked.
DelayDisableLeavesLinked ==
    /\ valid /\ GIE
    /\ enabled' = FALSE
    /\ UNCHANGED <<utt, running, valid, registered, timer_active, fired, alarm, main, epoch>>

DelayDisable ==
    /\ valid /\ GIE
    /\ IF timer_active THEN Unregister ELSE UNCHANGED <<registered, alarm>>
    /\ enabled' = FALSE
    /\ UNCHANGED <<utt, running, valid, timer_active, fired, main, epoch>>

-----------------------------------------------------------------------------
(* BSP430_UPTIME_DELAY_UTT_NI around lBSP430uptimeSleepUntil.              *)

Delay(d) ==
    /\ pc = "awake"
    /\ wake_utt' = Wrap(utt + d)
    /\ pc' = "loop"
    /\ exit' = FALSE
    /\ UNCHANGED <<utt, running, flags, alarm, epoch>>

\* iBSP430timerAlarmSet_ni returns an error.
AlarmSetFails == ~linked \/ set \/ Due(wake_utt) < FutureLimit

LeaveDelay == pc' = "awake" /\ wake_utt' = 0 /\ exit' = FALSE

DelayExits ==
    /\ pc = "loop" /\ exit
    /\ LeaveDelay
    /\ UNCHANGED <<utt, running, flags, alarm, epoch>>

\* lBSP430uptimeSleepUntil returns zero without sleeping.
SleepRefused ==
    /\ pc = "loop" /\ ~exit
    /\ ~registered \/ AlarmSetFails
    /\ fired' = (fired /\ ~registered)
    /\ LeaveDelay
    /\ UNCHANGED <<utt, running, valid, enabled, registered, timer_active, alarm, epoch>>

\* Mutant: fired stays as the last alarm left it.
SleepKeepsFired ==
    /\ pc = "loop" /\ ~exit
    /\ registered /\ ~AlarmSetFails
    /\ set' = TRUE
    /\ pc' = "asleep"
    /\ UNCHANGED <<utt, running, flags, linked, wake_utt, exit, epoch>>

Sleep ==
    /\ pc = "loop" /\ ~exit
    /\ registered /\ ~AlarmSetFails
    /\ fired' = FALSE
    /\ set' = TRUE
    /\ pc' = "asleep"
    /\ UNCHANGED <<utt, running, valid, enabled, registered, timer_active, linked,
                   wake_utt, exit, epoch>>

\* Mutant: the callback does not ask for the main program to be woken.
AlarmFiresSilently ==
    /\ set /\ GIE
    /\ Due(wake_utt) <= 0
    /\ set' = FALSE
    /\ fired' = TRUE
    /\ UNCHANGED <<utt, running, valid, enabled, registered, timer_active, linked, main, epoch>>

\* The alarm's handler and delayCallback_, which wakes the main program.
AlarmFires ==
    /\ set /\ GIE
    /\ Due(wake_utt) <= 0
    /\ set' = FALSE
    /\ fired' = TRUE
    /\ pc' = IF pc = "asleep" THEN "woken" ELSE pc
    /\ UNCHANGED <<utt, running, valid, enabled, registered, timer_active, linked,
                   wake_utt, exit, epoch>>

\* Another interrupt wakes the main program, and may end its delay.
OtherISR ==
    /\ pc \in {"asleep", "woken"}
    /\ pc' = "woken"
    /\ exit' \in {exit, TRUE}
    /\ UNCHANGED <<utt, running, flags, alarm, wake_utt, epoch>>

\* Awake again: the alarm is cancelled unless it has fired, and the macro
\* goes round again if time remains.
SleepReturns ==
    /\ pc = "woken"
    /\ set' = (set /\ fired)
    /\ IF Due(wake_utt) > 0 THEN pc' = "loop" /\ UNCHANGED <<wake_utt, exit>> ELSE LeaveDelay
    /\ UNCHANGED <<utt, running, flags, linked, epoch>>

-----------------------------------------------------------------------------
(* The epoch.                                                              *)

\* iBSP430uptimeSetEpochFromNTP, also called by iBSP430uptimeSetEpochFromTimeval.
SetEpoch ==
    /\ valid /\ GIE
    /\ epoch_is_valid' = TRUE /\ epoch_updated_utt' = utt
    /\ age' = 0 /\ wraps' = 0 /\ base' = "right"
    /\ UNCHANGED <<utt, running, flags, alarm, main>>

\* iBSP430uptimeAdjustEpochFromNTP sets the epoch anew from epoch_ntp, valid
\* or not, which remains the start of the era it was, give or take the
\* adjustment, but is taken for that of this era.
AdjustEpoch ==
    /\ valid /\ GIE
    /\ epoch_is_valid' = TRUE /\ epoch_updated_utt' = utt
    /\ age' = 0
    /\ base' = IF base = "none" THEN "adjusted"
               ELSE IF base = "right" /\ wraps = 1 THEN "skewed" ELSE base
    /\ UNCHANGED <<utt, running, flags, alarm, main, wraps>>

\* Mutant: the next era is told by the sign of the times.
EpochEraSigned(t) ==
    LET delta == Wrap(epoch_updated_utt - t) IN
    IF ~epoch_is_valid THEN -1
    ELSE IF delta < Half
         THEN IF delta >= ValidOffset THEN -1 ELSE 1
         ELSE IF EraMod - delta >= ValidOffset THEN -1
              ELSE IF t < epoch_updated_utt THEN 2 ELSE 1

\* epoch_era_ni: 0 if t is of the era before epoch_updated_utt, 1 if of the
\* same and 2 if of the next; -1 if it cannot be told.
EpochEra(t) ==
    LET delta == Wrap(epoch_updated_utt - t) IN
    IF ~epoch_is_valid THEN -1
    ELSE IF delta < Half
         THEN IF delta >= ValidOffset THEN -1 ELSE IF t > epoch_updated_utt THEN 0 ELSE 1
         ELSE IF EraMod - delta >= ValidOffset THEN -1
              ELSE IF t < epoch_updated_utt THEN 2 ELSE 1

\* iBSP430uptimeAsTimeval, and iBSP430uptimeAsNTP unless it may bypass the
\* validation: a time that cannot be converted invalidates the epoch.
Convert(t) ==
    /\ GIE
    /\ epoch_is_valid' = (EpochEra(t) # -1)
    /\ UNCHANGED <<utt, running, flags, alarm, main, epoch_updated_utt, age, wraps, base>>

-----------------------------------------------------------------------------
Init ==
    /\ utt = 0 /\ running = FALSE
    /\ valid = FALSE /\ enabled = FALSE /\ registered = FALSE
    /\ timer_active = FALSE /\ fired = FALSE
    /\ linked = FALSE /\ set = FALSE
    /\ pc = "awake" /\ wake_utt = 0 /\ exit = FALSE
    /\ epoch_is_valid = FALSE /\ epoch_updated_utt = 0
    /\ age = EraMod /\ wraps = 0 /\ base = "none"

\* What follows from a delay once it is begun.
Delaying == DelayExits \/ SleepRefused \/ Sleep \/ SleepReturns

Next ==
    \/ Tick \/ UptimeStart \/ UptimeResume \/ UptimeSuspend
    \/ DelayEnable \/ DelayDisable
    \/ (\E d \in 0..Horizon : Delay(d)) \/ Delaying \/ AlarmFires \/ OtherISR
    \/ SetEpoch \/ AdjustEpoch \/ (\E t \in 0..(EraMod - 1) : Convert(t))

\* The clock counts, the program goes on, and an interrupt is taken.
Spec == Init /\ [][Next]_vars /\ WF_vars(Tick) /\ WF_vars(Delaying) /\ WF_vars(AlarmFires)

-----------------------------------------------------------------------------
\* Every variable has its type.
TypeOK ==
    /\ utt \in 0..(EraMod - 1) /\ wake_utt \in 0..(EraMod - 1)
    /\ epoch_updated_utt \in 0..(EraMod - 1)
    /\ running \in BOOLEAN /\ valid \in BOOLEAN /\ enabled \in BOOLEAN
    /\ registered \in BOOLEAN /\ timer_active \in BOOLEAN /\ fired \in BOOLEAN
    /\ linked \in BOOLEAN /\ set \in BOOLEAN /\ exit \in BOOLEAN
    /\ pc \in {"awake", "loop", "asleep", "woken"}
    /\ epoch_is_valid \in BOOLEAN /\ base \in {"none", "right", "skewed", "adjusted"}
    /\ age \in 0..EraMod /\ wraps \in 0..1

\* Whatever the order of starting, suspending, resuming, enabling, disabling
\* and sleeping, the alarm's hooks are linked exactly when the clock runs and
\* the delay alarm is enabled, and the alarm is set only for a sleeper.
HooksFollowFlags ==
    /\ registered = linked
    /\ linked = (enabled /\ timer_active)
    /\ timer_active = running
    /\ set => linked /\ ~fired /\ pc \in {"asleep", "woken"}

\* The era of the time d ticks from now, counted as EpochEra counts, if the
\* epoch was provided for the era that wraps tells.
EraFromNow(d) ==
    1 + wraps + (IF utt + d < 0 THEN -1 ELSE IF utt + d >= EraMod THEN 1 ELSE 0)

\* Under an epoch the application provided, and adjusted in its own era if at
\* all, times less than half an era from the last update are put in the right
\* era inside the documented range and refused outside it, on both sides of a
\* wrap and of the update; nothing is said of the range's limit.  And a valid
\* epoch of a running clock was provided or adjusted since it last stood still.
EpochRight ==
    epoch_is_valid /\ running =>
        /\ base # "none"
        /\ base = "right" /\ age < EraMod =>
               \A d \in (-EraMod)..EraMod :
                   /\ -ValidOffset < age + d /\ age + d < ValidOffset
                          => EpochEra(Wrap(utt + d)) = EraFromNow(d)
                   /\ \/ -Half < age + d /\ age + d < -ValidOffset
                      \/ ValidOffset < age + d /\ age + d < Half
                          => EpochEra(Wrap(utt + d)) = -1

\* uptime.h on adjusting: "the number of ticks of a 2^32 Hz clock that must be
\* added to the epoch to cause the local time to coincide with a reference
\* clock".  An adjustment in a later era puts the local time an era early.
AdjustedCoincides ==
    epoch_is_valid /\ running /\ base \in {"right", "skewed"} /\ age = 0
        => EpochEra(utt) = EraFromNow(0)

\* uptime.h: "There is no valid epoch until the application provides one,
\* through iBSP430uptimeSetEpochFromNTP() or iBSP430uptimeSetEpochFromTimeval()."
\* An adjustment of none, or of one the clock has stood still under, is valid.
EpochProvided == epoch_is_valid /\ running => base # "adjusted"

\* uptime.h on the limit: the "maximum number of uptime ticks between an uptime
\* value and the last time the epoch was updated that will not cause epoch
\* invalidation".  A time at that distance does cause it.
LimitIsValid ==
    epoch_is_valid =>
        \A t \in {Wrap(epoch_updated_utt - ValidOffset), Wrap(epoch_updated_utt + ValidOffset)} :
            EpochEra(t) # -1

\* uptime.h: "The uptime epoch is invalidated when the uptime clock is @link
\* vBSP430uptimeSuspend_ni suspended@endlink ."  It is when it is resumed.
SuspendInvalidates == [][running /\ ~running' => ~epoch_is_valid']_vars

\* A delay ends before its time only when its exit expression holds, or when
\* the clock or its delay alarm has been turned off.
DelayComplete ==
    [][pc # "awake" /\ pc' = "awake" =>
           exit \/ ~registered \/ Due(wake_utt) < FutureLimit]_vars

\* A delay ends, woken by its alarm if by nothing else, unless the clock or
\* the delay alarm is turned off meanwhile.
DelayEnds == pc = "loop" ~> pc = "awake" \/ ~linked

=============================================================================
