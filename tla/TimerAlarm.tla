----------------------------- MODULE TimerAlarm -----------------------------
(***************************************************************************)
(* A hardware timer in continuous mode, its software overflow counter, and *)
(* one dedicated alarm on a capture/compare register: the overflow and CC  *)
(* interrupt handlers of src/periph/timer.c with the alarm's callbacks on  *)
(* their chains, and the alarm functions that may be called between them.  *)
(*                                                                         *)
(* The timer runs while the code does.  A function is split where it looks *)
(* at the counter or at a flag the timer may set, and the timer may tick   *)
(* between the parts; interrupts are disabled throughout, so nothing else  *)
(* runs between them.  Time is the counter extended by overflow_count,     *)
(* modulo TimeMod = CounterMod * OverflowMod, standing for 2^16 and 2^32.  *)
(***************************************************************************)
EXTENDS Integers

CONSTANTS CounterMod,    \* values of the counter register
          OverflowMod,   \* values of the part of overflow_count used in times
          FutureLimit,   \* BSP430_TIMER_ALARM_FUTURE_LIMIT
          Latency,       \* ticks an interrupt may stay pending
          MaxDrift,      \* ticks that may pass during one function
          PastLimit,     \* how far in the past a setting may be asked for
          Horizon        \* how far in the future

ASSUME TimerAssumption ==
    /\ CounterMod \in Nat /\ OverflowMod \in Nat /\ FutureLimit \in Nat
    /\ Latency \in Nat /\ MaxDrift \in Nat /\ PastLimit \in Nat /\ Horizon \in Nat
    /\ OverflowMod >= 4
    \* An overflow is handled within half a period of the counter.
    /\ 2 * (Latency + MaxDrift) <= CounterMod
    \* Differences of times are meaningful as signed numbers.
    /\ 2 * (Horizon + 1) <= CounterMod * OverflowMod
    /\ 2 * (PastLimit + Latency + MaxDrift) < CounterMod * OverflowMod

VARIABLES r,               \* hpl->r, the counter
          taifg,           \* TAIFG in hpl->ctl: an overflow is not yet handled
          overflow_count,
          ccr,             \* hpl->ccr[ccidx]
          ccie, ccifg,     \* CCIE and CCIFG in hpl->cctl[ccidx]
          enabled,         \* BSP430_TIMER_ALARM_FLAG_ENABLED, chains linked
          set,             \* BSP430_TIMER_ALARM_FLAG_SET
          setting_tck,
          pc,              \* where the running function is, or "idle"
          arg,             \* its setting_tck and force arguments
          lo,              \* the counter value it has read
          snap,            \* the time at which it read it
          drift,           \* ticks since the running function started
          pending          \* ticks since an interrupt was first requested

timer == <<r, taifg, overflow_count>>
cc == <<ccr, ccie, ccifg>>
alarm == <<enabled, set, setting_tck>>
call == <<pc, arg, lo, snap>>
vars == <<timer, cc, alarm, call, drift, pending>>

TimeMod == CounterMod * OverflowMod

\* (long)x: the difference of two times as a signed number.
Signed(x) == IF 2 * (x % TimeMod) >= TimeMod THEN (x % TimeMod) - TimeMod
             ELSE x % TimeMod

\* The time it is, whatever the software has noticed of it.
TrueNow == ((overflow_count + IF taifg THEN 1 ELSE 0) * CounterMod + r) % TimeMod

Due(t) == Signed(t - TrueNow)

\* An interrupt the timer requests and the handlers have not taken.
Requested == taifg \/ (ccie /\ ccifg)

-----------------------------------------------------------------------------
(* The timer.                                                              *)

Tick ==
    /\ Requested => pending < Latency
    /\ pc # "idle" => drift < MaxDrift
    /\ r' = (r + 1) % CounterMod
    /\ taifg' = (taifg \/ r' = 0)
    /\ ccifg' = (ccifg \/ r' = ccr)
    /\ pending' = IF Requested THEN pending + 1 ELSE 0
    /\ drift' = IF pc = "idle" THEN 0 ELSE drift + 1
    /\ UNCHANGED <<overflow_count, ccr, ccie, alarm, call>>

-----------------------------------------------------------------------------
(* timerOverflowAdjusted_ni and ulBSP430timerCounter_ni: the counter was   *)
(* read earlier, the pending overflow is looked at now.                    *)

\* Mutant: the overflow is counted wherever the counter stood.
OverflowAdjustedAlways(ctr) == overflow_count + (IF taifg THEN 1 ELSE 0)

OverflowAdjusted(ctr) ==
    overflow_count + (IF 2 * ctr < CounterMod /\ taifg THEN 1 ELSE 0)

Counter(ctr) == (OverflowAdjusted(ctr) * CounterMod + ctr) % TimeMod

-----------------------------------------------------------------------------
(* timerAlarmSet_ni.                                                       *)

\* Read the counter.
AlarmSet(s, force) ==
    /\ pc = "idle"
    /\ pc' = "decide"
    /\ arg' = [setting |-> s, force |-> force]
    /\ lo' = r
    /\ snap' = TrueNow
    /\ drift' = 0
    /\ UNCHANGED <<timer, cc, alarm, pending>>

Delay == Signed(arg.setting - Counter(lo))

\* The setting is due now or has passed.
Late == Delay < FutureLimit

Return ==
    /\ pc' = "idle"
    /\ arg' = [setting |-> 0, force |-> FALSE]
    /\ lo' = 0
    /\ snap' = 0
    /\ drift' = 0

\* Not enabled, already set, or late and not to be forced: nothing changes.
AlarmSetRefused ==
    /\ pc = "decide"
    /\ ~enabled \/ set \/ (Late /\ ~arg.force)
    /\ Return
    /\ UNCHANGED <<timer, cc, alarm, pending>>

RecordSetting ==
    /\ setting_tck' = arg.setting
    /\ set' = TRUE
    /\ ccr' = arg.setting % CounterMod
    /\ UNCHANGED enabled

\* A late setting that is forced requests the interrupt at once.
AlarmSetForcedNow ==
    /\ pc = "decide"
    /\ enabled /\ ~set /\ Late /\ arg.force
    /\ RecordSetting
    /\ ccie' = TRUE
    /\ ccifg' = TRUE
    /\ Return
    /\ UNCHANGED <<timer, pending>>

AlarmSetFuture ==
    /\ pc = "decide"
    /\ enabled /\ ~set /\ ~Late
    /\ RecordSetting
    /\ pc' = "configure"
    /\ UNCHANGED <<timer, ccie, ccifg, arg, lo, snap, drift, pending>>

-----------------------------------------------------------------------------
(* alarmConfigureInterrupts_ni.                                            *)

\* The alarm is due in the cycle the software counts.
InCycle == overflow_count = setting_tck \div CounterMod

\* Mutant: what is left of earlier cycles stays in CCIFG.
ConfigureKeepsFlag ==
    /\ pc = "configure"
    /\ IF InCycle
       THEN /\ ccie' = TRUE
            /\ pc' = "compare"
            /\ UNCHANGED <<ccifg, arg, lo, snap, drift>>
       ELSE Return /\ UNCHANGED <<ccie, ccifg>>
    /\ UNCHANGED <<timer, ccr, alarm, pending>>

\* In another cycle nothing is done: the overflow handler comes back to it.
Configure ==
    /\ pc = "configure"
    /\ IF InCycle
       THEN /\ ccifg' = FALSE
            /\ ccie' = TRUE
            /\ pc' = "compare"
            /\ UNCHANGED <<arg, lo, snap, drift>>
       ELSE Return /\ UNCHANGED <<ccie, ccifg>>
    /\ UNCHANGED <<timer, ccr, alarm, pending>>

\* Mutant: the counter is not compared with the setting it may have passed.
CompareNever ==
    /\ pc = "compare"
    /\ Return
    /\ UNCHANGED <<timer, cc, alarm, pending>>

\* The counter may have passed the setting already.
Compare ==
    /\ pc = "compare"
    /\ ccifg' = (ccifg \/ r >= setting_tck % CounterMod)
    /\ Return
    /\ UNCHANGED <<timer, ccr, ccie, alarm, pending>>

-----------------------------------------------------------------------------
(* The interrupt handlers, entered when the running function has returned. *)

StillPending(t, c) == IF t \/ c THEN pending ELSE 0

\* isr_TAx on TA_OVERFLOW, and alarmOFcb_ni of an alarm that is linked.
OverflowISR ==
    /\ pc = "idle"
    /\ taifg
    /\ taifg' = FALSE
    /\ overflow_count' = (overflow_count + 1) % OverflowMod
    /\ pc' = IF enabled /\ set THEN "configure" ELSE "idle"
    /\ drift' = 0
    /\ pending' = StillPending(FALSE, ccie /\ ccifg)
    /\ UNCHANGED <<r, cc, alarm, arg, lo, snap>>

\* isr_cc0_TAx, or isr_TAx on another register, and alarmCCcb_ni: the alarm
\* goes off, and its user's callback is called.
CCISR ==
    /\ pc = "idle"
    /\ ccie /\ ccifg
    /\ ccifg' = FALSE
    /\ set' = IF enabled THEN FALSE ELSE set
    /\ ccie' = IF enabled /\ set THEN FALSE ELSE ccie
    /\ pc' = IF enabled /\ set THEN "callback" ELSE "idle"
    /\ drift' = 0
    /\ pending' = StillPending(taifg, FALSE)
    /\ UNCHANGED <<timer, ccr, enabled, setting_tck, arg, lo, snap>>

\* The callback has done its work.  If it sets the alarm again, that is
\* AlarmSet, just after.
CallbackReturns ==
    /\ pc = "callback"
    /\ Return
    /\ UNCHANGED <<timer, cc, alarm, pending>>

-----------------------------------------------------------------------------
(* iBSP430timerAlarmCancel_ni and iBSP430timerAlarmSetEnabled_ni.          *)

CancelEffect ==
    /\ set' = FALSE
    /\ ccie' = FALSE
    /\ ccifg' = FALSE
    /\ pending' = StillPending(taifg, FALSE)

AlarmCancel ==
    /\ pc = "idle"
    /\ enabled /\ set
    /\ CancelEffect
    /\ UNCHANGED <<timer, ccr, enabled, setting_tck, call, drift>>

AlarmEnable ==
    /\ pc = "idle"
    /\ ~enabled
    /\ enabled' = TRUE
    /\ UNCHANGED <<timer, cc, set, setting_tck, call, drift, pending>>

AlarmDisable ==
    /\ pc = "idle"
    /\ enabled
    /\ enabled' = FALSE
    /\ IF set THEN CancelEffect ELSE UNCHANGED <<set, ccie, ccifg, pending>>
    /\ UNCHANGED <<timer, ccr, setting_tck, call, drift>>

-----------------------------------------------------------------------------
Init ==
    /\ r = 0 /\ taifg = FALSE /\ overflow_count = 0
    /\ ccr = 0 /\ ccie = FALSE /\ ccifg = FALSE
    /\ enabled = FALSE /\ set = FALSE /\ setting_tck = 0
    /\ pc = "idle"
    /\ arg = [setting |-> 0, force |-> FALSE]
    /\ lo = 0 /\ snap = 0 /\ drift = 0 /\ pending = 0

SetSome ==
    \E s \in 0..(TimeMod - 1), force \in BOOLEAN :
        Due(s) \in -PastLimit..Horizon /\ AlarmSet(s, force)

Running ==
    \/ AlarmSetRefused \/ AlarmSetForcedNow \/ AlarmSetFuture
    \/ Configure \/ Compare \/ CallbackReturns

Next ==
    \/ Tick \/ SetSome \/ Running \/ OverflowISR \/ CCISR
    \/ AlarmCancel \/ AlarmEnable \/ AlarmDisable

\* The timer runs, functions return, and a requested interrupt is taken
\* although the main program keeps disabling interrupts for a while.
Fairness ==
    /\ WF_vars(Tick) /\ WF_vars(Running)
    /\ SF_vars(OverflowISR) /\ SF_vars(CCISR)

Spec == Init /\ [][Next]_vars /\ Fairness

-----------------------------------------------------------------------------
\* Every variable has its type.
TypeOK ==
    /\ r \in 0..(CounterMod - 1) /\ ccr \in 0..(CounterMod - 1)
    /\ overflow_count \in 0..(OverflowMod - 1)
    /\ {taifg, ccie, ccifg, enabled, set} \subseteq BOOLEAN
    /\ setting_tck \in 0..(TimeMod - 1)
    /\ pc \in {"idle", "decide", "configure", "compare", "callback"}
    /\ arg \in [setting : 0..(TimeMod - 1), force : BOOLEAN]
    /\ lo \in 0..(CounterMod - 1) /\ snap \in 0..(TimeMod - 1)
    /\ drift \in 0..MaxDrift /\ pending \in 0..Latency

\* ulBSP430timerCounter_ni returns the time at which it read the counter,
\* although the counter may wrap before TAIFG is looked at, or may have
\* wrapped long before and the handler not have run.
CounterExact == pc = "decide" => Counter(lo) = snap

\* An alarm whose time has come has requested its interrupt, or waits for an
\* overflow the software has not handled.  If it had done neither, the
\* alarm would go off a whole period of the counter late.
DueIsRequested ==
    pc = "idle" /\ set /\ Due(setting_tck) <= 0 => taifg \/ (ccie /\ ccifg)

\* The compare interrupt is enabled only for an alarm that is set and linked:
\* after a cancel, a disable or the callback nothing can interrupt.
NoStrayInterrupt == ccie => set /\ enabled

\* The alarm's user sees a dedicated alarm.
Promised == INSTANCE DedicatedAlarm
    WITH due <- IF set THEN Due(setting_tck) ELSE 0, calling <- pc = "callback"

ImplementsAlarm == Promised!Spec

=============================================================================
