--------------------------- MODULE DedicatedAlarm ---------------------------
(***************************************************************************)
(* What a dedicated alarm promises its user: once set it goes off exactly  *)
(* once, not before its time (a forced setting counts as reached when it   *)
(* is less than FutureLimit ticks away), and it does go off unless it is   *)
(* cancelled.  `due' is the number of ticks to the setting, negative when  *)
(* the setting has passed.                                                 *)
(***************************************************************************)
EXTENDS Integers

CONSTANT FutureLimit   \* BSP430_TIMER_ALARM_FUTURE_LIMIT

VARIABLES set, due,
          calling   \* the user's callback is running

alarmVars == <<set, due, calling>>

Init == set = FALSE /\ due = 0 /\ calling = FALSE

Set == ~set /\ set' = TRUE /\ due' \in Int /\ UNCHANGED calling

Cancel == set /\ set' = FALSE /\ due' = 0 /\ UNCHANGED calling

Tick == set /\ due' = due - 1 /\ UNCHANGED <<set, calling>>

Fire == set /\ due < FutureLimit /\ set' = FALSE /\ due' = 0 /\ calling' = TRUE

Return == calling /\ calling' = FALSE /\ UNCHANGED <<set, due>>

Next == Set \/ Cancel \/ Tick \/ Fire \/ Return

\* What the alarm may do, and what it must.
Safe == Init /\ [][Next]_alarmVars

Spec ==
    /\ Safe
    /\ WF_alarmVars(Tick) /\ WF_alarmVars(Fire) /\ WF_alarmVars(Return)

=============================================================================
