----------------------------- MODULE ConsoleMC -----------------------------
(***************************************************************************)
(* Two keys of one remote, pressed or held, so that a line that is mixed   *)
(* from two calls can be told from either.                                 *)
(***************************************************************************)
EXTENDS Console

TwoCommands == {[address |-> 1, command |-> i] : i \in 1..2}

Zeroed == [address |-> 0, command |-> 0]

=============================================================================
