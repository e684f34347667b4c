------------------------------- MODULE LampMC -------------------------------
(***************************************************************************)
(* Every key of both remotes, and a key and a remote the lamp does not     *)
(* know, on a lamp of six brightness levels.                               *)
(***************************************************************************)
EXTENDS Lamp

AllPresses ==
  [address : {Remote1Address, Remote2Address, 0}, command : {0} \cup 4..7 \cup 80..83]

=============================================================================
