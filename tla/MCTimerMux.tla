----------------------------- MODULE MCTimerMux -----------------------------
(* Three alarms, asked for late, at once, very soon and later.             *)
EXTENDS TimerMux

CONSTANTS a1, a2, a3

MCDelays == {-1, 0, 1, 3}

=============================================================================
