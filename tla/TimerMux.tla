------------------------------ MODULE TimerMux ------------------------------
(***************************************************************************)
(* The multiplexed alarms of src/periph/timer.c: a list of alarms sorted   *)
(* by setting that share one dedicated alarm.  The dedicated alarm is taken *)
(* at its word (module DedicatedAlarm): forced, it goes off once, less     *)
(* than FutureLimit ticks before its setting at the earliest.              *)
(*                                                                         *)
(* The functions run with interrupts disabled, each one step.  The handler *)
(* muxAlarm_cb_ni calls one user callback after another: `fired' is what   *)
(* it has still to notify and `calling' the alarm whose callback runs.     *)
(* Callbacks may call back into the module; nothing else runs until the    *)
(* handler is done, but time goes on.                                      *)
(***************************************************************************)
EXTENDS Integers, Sequences

CONSTANTS Alarms,        \* the sBSP430timerMuxAlarm structures
          TimeMod,       \* values of the 32-bit time
          FutureLimit,   \* BSP430_TIMER_ALARM_FUTURE_LIMIT
          Delays,        \* ticks from now at which an alarm may be asked for
          MaxLate,       \* ticks by which handlers may lag behind a setting
          RemoveFired,   \* callbacks also remove alarms that are in `fired'
          Null

ASSUME MuxAssumption ==
    /\ TimeMod \in Nat /\ FutureLimit \in Nat /\ MaxLate \in Nat
    /\ Null \notin Alarms
    /\ RemoveFired \in BOOLEAN
    \* No difference of two times in use reaches half the range.
    /\ Delays \subseteq Int /\ 2 * MaxLate < TimeMod
    /\ \A d \in Delays : 2 * d < TimeMod /\ -d < MaxLate
    /\ \A d \in Delays : 2 * (d + MaxLate) < TimeMod

VARIABLES now,       \* ulBSP430timerCounter_ni
          enabled,   \* shared->dedicated is enabled
          dset,      \* shared->dedicated is set,
          dsetting,  \*   for this time
          alarms,    \* shared->alarms, linked through next
          setting,   \* setting_tck of each alarm
          fired,     \* in muxAlarm_cb_ni: the alarms still to be notified
          calling,   \* the alarm whose callback is running, or Null
          status     \* whose each alarm is: the "user"'s or "shared"

dedicated == <<enabled, dset, dsetting>>
vars == <<now, dedicated, alarms, setting, fired, calling, status>>

Signed(x) == IF 2 * (x % TimeMod) >= TimeMod THEN (x % TimeMod) - TimeMod
             ELSE x % TimeMod

Due(t) == Signed(t - now)

InList(a, q) == \E i \in 1..Len(q) : q[i] = a

-----------------------------------------------------------------------------
(* The dedicated alarm is cancelled and, if the list is not empty, forced  *)
(* for its head.                                                           *)

SetForHead(q, s) ==
    /\ dset' = (q # <<>>)
    /\ dsetting' = IF q = <<>> THEN 0 ELSE s[Head(q)]
    /\ UNCHANGED enabled

\* Mutant: the comparison is of absolute times.
PositionAbsolute(q, t) ==
    CHOOSE i \in 1..(Len(q) + 1) :
        /\ i <= Len(q) => setting[q[i]] > t
        /\ \A j \in 1..(i - 1) : ~(setting[q[j]] > t)

\* Before the first alarm that is due after the new one.
Position(q, t) ==
    CHOOSE i \in 1..(Len(q) + 1) :
        /\ i <= Len(q) => Due(setting[q[i]]) > Due(t)
        /\ \A j \in 1..(i - 1) : ~(Due(setting[q[j]]) > Due(t))

InsertAt(q, i, a) == SubSeq(q, 1, i - 1) \o <<a>> \o SubSeq(q, i, Len(q))

\* iBSP430timerMuxAlarmAdd_ni.  The alarm must not be in a list.
Add(a, d) ==
    LET t == (now + d) % TimeMod IN
    /\ enabled
    /\ status[a] = "user" /\ ~InList(a, fired)
    /\ alarms' = InsertAt(alarms, Position(alarms, t), a)
    /\ setting' = [setting EXCEPT ![a] = t]
    /\ SetForHead(alarms', setting')
    /\ status' = [status EXCEPT ![a] = "shared"]
    /\ UNCHANGED <<now, fired, calling>>

Without(q, a) ==
    IF InList(a, q)
    THEN LET i == CHOOSE i \in 1..Len(q) : q[i] = a
         IN  SubSeq(q, 1, i - 1) \o SubSeq(q, i + 1, Len(q))
    ELSE q

\* Mutant: the dedicated alarm is left cancelled.
RemoveLeavesCancelled(a) ==
    /\ enabled
    /\ status[a] = "shared"
    /\ RemoveFired \/ ~InList(a, fired)
    /\ alarms' = Without(alarms, a)
    /\ dset' = FALSE /\ dsetting' = 0 /\ UNCHANGED enabled
    /\ setting' = [setting EXCEPT ![a] = 0]
    /\ status' = [status EXCEPT ![a] = "user"]
    /\ UNCHANGED <<now, fired, calling>>

\* iBSP430timerMuxAlarmRemove_ni.
Remove(a) ==
    /\ enabled
    /\ status[a] = "shared"
    /\ RemoveFired \/ ~InList(a, fired)
    /\ alarms' = Without(alarms, a)
    /\ SetForHead(alarms', setting)
    /\ setting' = IF InList(a, fired) THEN setting ELSE [setting EXCEPT ![a] = 0]
    /\ status' = [status EXCEPT ![a] = "user"]
    /\ UNCHANGED <<now, fired, calling>>

-----------------------------------------------------------------------------
(* muxAlarm_cb_ni.                                                         *)

InISR == calling # Null \/ fired # <<>>

\* Mutant: an alarm that will be due shortly is taken for due.
FirstNotDueSoon(q) ==
    CHOOSE i \in 1..(Len(q) + 1) :
        /\ i <= Len(q) => FutureLimit <= Due(setting[q[i]])
        /\ \A j \in 1..(i - 1) : ~(FutureLimit <= Due(setting[q[j]]))

FirstNotDue(q) ==
    CHOOSE i \in 1..(Len(q) + 1) :
        /\ i <= Len(q) => 0 < Due(setting[q[i]])
        /\ \A j \in 1..(i - 1) : ~(0 < Due(setting[q[j]]))

\* Mutant: the dedicated alarm is not set for the rest of the list.
DedicatedFiresForgetsRest ==
    /\ ~InISR
    /\ enabled /\ dset /\ Due(dsetting) < FutureLimit
    /\ fired' = SubSeq(alarms, 1, FirstNotDue(alarms) - 1)
    /\ alarms' = SubSeq(alarms, FirstNotDue(alarms), Len(alarms))
    /\ dset' = FALSE /\ dsetting' = 0
    /\ UNCHANGED <<now, enabled, setting, calling, status>>

\* The dedicated alarm goes off: split off what is due, set for the rest.
DedicatedFires ==
    /\ ~InISR
    /\ enabled /\ dset /\ Due(dsetting) < FutureLimit
    /\ fired' = SubSeq(alarms, 1, FirstNotDue(alarms) - 1)
    /\ alarms' = SubSeq(alarms, FirstNotDue(alarms), Len(alarms))
    /\ SetForHead(alarms', setting)
    /\ UNCHANGED <<now, setting, calling, status>>

\* Unlink the next alarm that fired and call its callback.
Notify ==
    /\ calling = Null
    /\ fired # <<>>
    /\ calling' = Head(fired)
    /\ fired' = Tail(fired)
    /\ status' = [status EXCEPT ![Head(fired)] = "user"]
    /\ UNCHANGED <<now, dedicated, alarms, setting>>

CallbackReturns ==
    /\ calling # Null
    /\ calling' = Null
    /\ setting' = IF status[calling] = "user"
                  THEN [setting EXCEPT ![calling] = 0] ELSE setting
    /\ UNCHANGED <<now, dedicated, alarms, fired, status>>

-----------------------------------------------------------------------------
(* hBSP430timerMuxAlarmStartup and iBSP430timerMuxAlarmShutdown, outside   *)
(* the handler.  After a shutdown the user takes its alarms back.          *)

Startup ==
    /\ ~InISR /\ ~enabled
    /\ alarms' = <<>>
    /\ enabled' = TRUE /\ dset' = FALSE /\ dsetting' = 0
    /\ UNCHANGED <<now, setting, fired, calling, status>>

Shutdown ==
    /\ ~InISR /\ enabled
    /\ enabled' = FALSE /\ dset' = FALSE /\ dsetting' = 0
    /\ status' = [a \in Alarms |-> "user"]
    /\ setting' = [a \in Alarms |-> 0]
    /\ UNCHANGED <<now, alarms, fired, calling>>

\* Handlers keep up with the settings.
Tick ==
    /\ \A a \in Alarms :
          status[a] = "shared" \/ InList(a, fired) => Due(setting[a]) > -MaxLate
    /\ now' = (now + 1) % TimeMod
    /\ UNCHANGED <<dedicated, alarms, setting, fired, calling, status>>

Init ==
    /\ now = 0
    /\ enabled = FALSE /\ dset = FALSE /\ dsetting = 0
    /\ alarms = <<>> /\ fired = <<>> /\ calling = Null
    /\ setting = [a \in Alarms |-> 0]
    /\ status = [a \in Alarms |-> "user"]

\* The main program, or a callback of the handler.
UserCalls ==
    /\ InISR => calling # Null
    /\ \E a \in Alarms : (\E d \in Delays : Add(a, d)) \/ Remove(a)

Next ==
    \/ UserCalls \/ DedicatedFires \/ Notify \/ CallbackReturns
    \/ Startup \/ Shutdown \/ Tick

\* Time passes whatever is asked for, the dedicated alarm goes off, the handler and the callbacks
\* it calls get done.
Fairness ==
    /\ SF_vars(Tick) /\ SF_vars(DedicatedFires)
    /\ WF_vars(Notify) /\ WF_vars(CallbackReturns)

Spec == Init /\ [][Next]_vars /\ Fairness

-----------------------------------------------------------------------------
\* Every variable has its type.
TypeOK ==
    /\ now \in 0..(TimeMod - 1) /\ dsetting \in 0..(TimeMod - 1)
    /\ enabled \in BOOLEAN /\ dset \in BOOLEAN
    /\ alarms \in Seq(Alarms) /\ fired \in Seq(Alarms)
    /\ setting \in [Alarms -> 0..(TimeMod - 1)]
    /\ calling \in Alarms \cup {Null}
    /\ status \in [Alarms -> {"user", "shared"}]

\* Every alarm the user has handed over is linked exactly once, in the shared
\* list or among those about to be notified, and no other alarm is; the shared
\* list is sorted by time to go, across the wrap of the time.
ListKept ==
    LET q == fired \o alarms IN
    enabled =>
        /\ \A i, j \in 1..Len(q) : q[i] = q[j] => i = j
        /\ \A a \in Alarms : InList(a, q) <=> status[a] = "shared"
        /\ \A i, j \in 1..Len(alarms) :
               i < j => Due(setting[alarms[i]]) <= Due(setting[alarms[j]])

\* The dedicated alarm is set for the head of the list, whatever was added,
\* removed or re-added in a callback: otherwise the list would be forgotten.
DedicatedTracksHead ==
    enabled => IF alarms = <<>> THEN ~dset
               ELSE dset /\ dsetting = setting[Head(alarms)]

\* An alarm as its user sees it.
Virtual(a) == INSTANCE DedicatedAlarm
    WITH FutureLimit <- 1, set <- status[a] = "shared",
         due <- IF status[a] = "shared" THEN Due(setting[a]) ELSE 0,
         calling <- calling = a

\* Each alarm keeps the promise of an alarm of its own, whatever becomes of the
\* others: once added it is called back once, not before its time although the
\* dedicated alarm may be forced a little early, and not after it was removed;
\* what the user does with other alarms does not move it.
ImplementsAlarms ==
    /\ \A a \in Alarms : Virtual(a)!Init
    /\ [][\A a \in Alarms : [Virtual(a)!Next]_(Virtual(a)!alarmVars)]_vars

\* An alarm that was added goes off, or is removed.
AlarmsGoOff ==
    \A a \in Alarms : status[a] = "shared" ~> status[a] = "user"

\* timer.h:1896: it is guaranteed that a removed alarm will not fire after
\* iBSP430timerMuxAlarmRemove_ni has been invoked.
RemovedNeverFires == [][Notify => status[Head(fired)] = "shared"]_vars

=============================================================================
