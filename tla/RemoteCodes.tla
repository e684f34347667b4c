---------------------------- MODULE RemoteCodes ----------------------------
(***************************************************************************)
(* The key codes main.c knows (main.c:21-31) and their meaning             *)
(* (main.c:53-74).                                                         *)
(***************************************************************************)
EXTENDS Naturals

Remote1Address == 32512     \* 0x7f00
Remote2Address == 65280     \* 0xff00

\* REMOTE_1_COMMAND_*, REMOTE_2_COMMAND_*
Remote1Commands == [off |-> 83, on |-> 82, plus |-> 81, minus |-> 80]
Remote2Commands == [off |-> 6, on |-> 7, plus |-> 5, minus |-> 4]

Keys == {"none", "off", "on", "plus", "minus"}

\* The key remote_command takes an address and a command for.
KeyOf(address, command) ==
  LET codes == CASE address = Remote1Address -> Remote1Commands
                 [] address = Remote2Address -> Remote2Commands
                 [] OTHER -> << >>
      pressed == {k \in DOMAIN codes : codes[k] = command}
  IN IF pressed = {} THEN "none" ELSE CHOOSE k \in pressed : TRUE

=============================================================================
