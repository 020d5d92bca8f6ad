----------------------------- MODULE LossyQueue -----------------------------
(***************************************************************************)
(* A bounded queue that forgets its oldest element when it is full: what   *)
(* the console's receive buffer promises the application.  `result' is     *)
(* the last attempt to read: whether to take it out, and what it returned. *)
(* A closed console takes nothing in; only opening it empties the queue.   *)
(***************************************************************************)
EXTENDS Naturals, Sequences

CONSTANTS Values, Capacity, Nothing

VARIABLES open, held, result

queueVars == <<open, held, result>>

Init == open = FALSE /\ held = <<>> /\ result = <<FALSE, Nothing>>

Newest(q) == IF Len(q) > Capacity THEN Tail(q) ELSE q

Put ==
    /\ open
    /\ \E v \in Values : held' = Newest(Append(held, v))
    /\ UNCHANGED <<open, result>>

First == IF held = <<>> THEN Nothing ELSE Head(held)

Peek == result' = <<FALSE, First>> /\ UNCHANGED <<open, held>>

Get ==
    /\ result' = <<TRUE, First>>
    /\ held' = IF held = <<>> THEN held ELSE Tail(held)
    /\ UNCHANGED open

\* An attempt to open, which may fail.
Open == ~open /\ open' \in BOOLEAN /\ held' = <<>> /\ UNCHANGED result

Close == open /\ open' = FALSE /\ UNCHANGED <<held, result>>

Next == Put \/ Peek \/ Get \/ Open \/ Close

Spec == Init /\ [][Next]_queueVars

=============================================================================
