------------------------------- MODULE BootMC -------------------------------
(***************************************************************************)
(* The keys of one remote, and one the lamp does not know, on a lamp of    *)
(* three brightness levels.                                                *)
(***************************************************************************)
EXTENDS Boot

AllPresses == [address : {Remote1Address}, command : {0} \cup 80..83]

=============================================================================
