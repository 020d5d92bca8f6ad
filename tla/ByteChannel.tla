---------------------------- MODULE ByteChannel ----------------------------
(***************************************************************************)
(* What the console promises of the bytes it has accepted: they go out in  *)
(* the order they were accepted, each once, and at most Capacity of them   *)
(* are on their way.  Only closing the console drops them.                 *)
(***************************************************************************)
EXTENDS Naturals, Sequences

CONSTANTS Bytes, Capacity

VARIABLES open,   \* the console is initialized
          held,   \* bytes accepted and not yet sent, oldest first
          sent    \* the number of bytes sent, modulo 2

channelVars == <<open, held, sent>>

Init == open = FALSE /\ held = <<>> /\ sent = 0

Put ==
    /\ open
    /\ Len(held) < Capacity
    /\ \E c \in Bytes : held' = Append(held, c)
    /\ UNCHANGED <<open, sent>>

Send == held # <<>> /\ held' = Tail(held) /\ sent' = 1 - sent /\ UNCHANGED open

OpenOrClose == open' = ~open /\ held' = <<>> /\ UNCHANGED sent

Next == Put \/ Send \/ OpenOrClose

Spec == Init /\ [][Next]_channelVars

=============================================================================
