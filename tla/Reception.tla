----------------------------- MODULE Reception -----------------------------
(***************************************************************************)
(* A frame from the remote to the callback: the signal of module Waveform  *)
(* carries the bits of module NecRemote, the units received are stored in  *)
(* the bitmap one by one, over what the frame before has left there, and   *)
(* the last one has it decoded (ir.c:92-102, 213-221).                     *)
(*                                                                         *)
(* The decoder reads its own copy of the bitmap, received_bits: nothing is *)
(* stored while it runs.                                                   *)
(***************************************************************************)
EXTENDS Waveform, NecRemote

CONSTANT Remains     \* bitmaps that frames before may have left

ASSUME ReceptionAssumption ==
  NumberOfUnits = NumberOfBits /\ Remains \subseteq Bitmaps

VARIABLES
  bitmap,     \* decoder.received_bits while it is filled
  tx, bit     \* what the remote sends, and the number of the pulse it is at

decoder == <<vars, sent>>

LastPulse == 32

\* How far the next pulse is: none follows the one that closes the frame.
LengthOf(t, k) ==
  IF k = LastPulse THEN Last ELSE IF FrameBit(t.address, t.command, k) = 1 THEN 4 ELSE 2

RecInit ==
  /\ WaveInit /\ NecInit
  /\ bitmap \in Remains
  /\ tx \in [address : Addresses, command : SentCommands, corrupt : {Intact}]
  /\ bit = 0
  /\ length = LengthOf(tx, bit)

NextPulse ==
  /\ Rise
  /\ bit' = bit + 1
  /\ length' = LengthOf(tx, bit')
  /\ UNCHANGED <<bitmap, tx, decoder>>

LightEnds == Fall /\ UNCHANGED <<bitmap, tx, bit, decoder>>

\* Mutant: bits are set and never cleared.
BitmapValueSet_OnlyOnes(bits, i, value) == [bits EXCEPT ![i] = bits[i] \/ value]

\* ir_bitmap_value_set
BitmapValueSet(bits, i, value) == [bits EXCEPT ![i] = value]

\* Mutant: the last unit is stored after the command is decoded.
PushSignalValue_DecodesFirst(value, i) ==
  /\ bitmap' = BitmapValueSet(bitmap, i, value)
  /\ IF i = NumberOfBits - 1
     THEN FrameReceived(bitmap) /\ sent' = tx
     ELSE UNCHANGED decoder

\* ir_push_signal_value
PushSignalValue(value, i) ==
  /\ bitmap' = BitmapValueSet(bitmap, i, value)
  /\ IF i = NumberOfBits - 1
     THEN FrameReceived(bitmap') /\ sent' = tx
     ELSE UNCHANGED decoder

\* The third measure of a unit is pushed by the callback that takes it.
Measure ==
  /\ TimerCallback
  /\ IF bits_received' = bits_received
     THEN UNCHANGED <<bitmap, decoder>>
     ELSE PushSignalValue(pushed', bits_received)
  /\ UNCHANGED <<tx, bit>>

Decode ==
  /\ \/ DecodeCommand /\ UNCHANGED sent
     \/ Return /\ sent' = Silence
  /\ UNCHANGED <<waveform, bitmap, tx, bit>>

\* The frame is over.
Over == Complete /\ step = "idle" /\ UNCHANGED <<bitmap, tx, bit, decoder>>

RecNext == NextPulse \/ LightEnds \/ Measure \/ Decode \/ Over

RecSpec == RecInit /\ [][RecNext]_<<waveform, bitmap, tx, bit, decoder>>

-----------------------------------------------------------------------------
RecTypeOK ==
  /\ WaveTypeOK /\ TypeOK
  /\ bitmap \in Bitmaps
  /\ bit \in 0..LastPulse

\* A key of the lamp's remotes reaches the callback as it was pressed, from the
\* edges of its signal on: whatever tolerable errors these have, and whatever
\* frame came before it.
KeysReceived ==
  step = "done" /\ KeyOf(tx.address, tx.command) # "none" =>
    accepted /\ address = tx.address /\ command = tx.command

=============================================================================
