------------------------------- MODULE MCCli -------------------------------
EXTENDS Cli

\* Two commands with a common prefix, one of them with commands below it, and
\* a third with two that share a prefix; one leaf has no handler.
MCNodes == {"aba", "abb", "abb_a", "b", "b_aa", "b_ab"}

MCKey == ("aba" :> <<"a", "b", "a">>) @@ ("abb" :> <<"a", "b", "b">>)
         @@ ("abb_a" :> <<"a">>) @@ ("b" :> <<"b">>)
         @@ ("b_aa" :> <<"a", "a">>) @@ ("b_ab" :> <<"a", "b">>)

MCCommands == ("root" :> <<"aba", "abb", "b">>) @@ ("abb" :> <<"abb_a">>)
              @@ ("b" :> <<"b_aa", "b_ab">>)
              @@ [c \in {"aba", "abb_a", "b_aa", "b_ab"} |-> << >>]

MCHandlers == {"aba", "abb_a", "b", "b_aa"}

=============================================================================
