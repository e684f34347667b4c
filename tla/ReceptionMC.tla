---------------------------- MODULE ReceptionMC ----------------------------
(***************************************************************************)
(* Early and late edges, light held on for 100 us; keys of both remotes,   *)
(* of one whose frames are shorter and of one whose frames are longer than *)
(* the bitmap, which an older frame has left all light or all dark.        *)
(***************************************************************************)
EXTENDS Reception

EarlyOrLate      == {-Jitter, Jitter}
EarlyOrStretched == {-Jitter, Stretch}
PromptOrLate     == {0, Lag}

ShortAddress  == 2565     \* 0x0a05
LongAddress   == 511      \* 0x1ff: its frames do not fit into the bitmap
SentAddresses == {Remote1Address, Remote2Address, ShortAddress, LongAddress}
PressedKeys   == {7, 82}

DarkOrLight == {[i \in 0..(NumberOfBits - 1) |-> b] : b \in BOOLEAN}

=============================================================================
