---------------------------- MODULE IrReceiverMC ----------------------------
(***************************************************************************)
(* A small receiver for TLC.  Times are scaled down, their order is kept:  *)
(* the space of a repeat is shorter than the space of a frame, which is    *)
(* shorter than the leading pulse; the 10 ms timer has the length of the   *)
(* longest leading pulse; a sampling period is shorter than all of them.   *)
(***************************************************************************)
EXTENDS IrReceiver, TLC

\* Commands are interchangeable.
CommandSymmetry == Permutations(Commands)

=============================================================================
