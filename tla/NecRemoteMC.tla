---------------------------- MODULE NecRemoteMC ----------------------------
(***************************************************************************)
(* The two remotes the lamp knows and one with a shorter address: every    *)
(* command undisturbed, and the keys, their neighbours and the ends of the *)
(* range with each of the 96 units corrupted in turn.                      *)
(***************************************************************************)
EXTENDS NecRemote

AllCommands == 0..255

EdgeCommands == {0, 4, 5, 6, 7, 80, 81, 82, 83, 127, 128, 168, 192, 255}

ShortAddress == 2565     \* 0x0a05, four ones: the closing pulse is in unit 88

SentAddresses == {Remote1Address, Remote2Address, ShortAddress}

=============================================================================
