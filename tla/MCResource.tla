----------------------------- MODULE MCResource -----------------------------
(* Four subsystems, two of them claiming with a null self: one waits with  *)
(* a flag, two claim from their callback, one sets its flag or leaves.     *)
EXTENDS Resource, TLC

CONSTANTS c1, c2, c3, c4

MCKinds == (c1 :> {"flag"}) @@ (c2 :> {"claim"}) @@ (c3 :> {"flag", "cancel"})
           @@ (c4 :> {"claim"})

=============================================================================
