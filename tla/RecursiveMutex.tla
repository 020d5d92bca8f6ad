--------------------------- MODULE RecursiveMutex ---------------------------
(***************************************************************************)
(* What the resource manager promises its clients: a mutual exclusion with *)
(* recursion.  A client may acquire when nobody holds, or again when it    *)
(* holds already and has an identity of its own; a client that claims with *)
(* a null self has none, and acquires only what is free.                   *)
(***************************************************************************)
EXTENDS Naturals

CONSTANTS Clients,    \* the subsystems that share the resource
          Anonymous   \* those of them that claim with a null self

VARIABLE owned        \* claims granted to a client less its releases

Free == \A c \in Clients : owned[c] = 0

Init == owned = [c \in Clients |-> 0]

Acquire(c) ==
    /\ Free \/ (c \notin Anonymous /\ owned[c] > 0)
    /\ owned' = [owned EXCEPT ![c] = @ + 1]

Release(c) ==
    /\ owned[c] > 0
    /\ owned' = [owned EXCEPT ![c] = @ - 1]

Next == \E c \in Clients : Acquire(c) \/ Release(c)

Spec == Init /\ [][Next]_owned

=============================================================================
