----------------------------- MODULE NecRemote -----------------------------
(***************************************************************************)
(* A remote control in front of the decoder: it sends a 16 bit address, a  *)
(* command and the command's complement in the encoding of README.md:3     *)
(* ("NED protocol", NEC by its timing), and closes the frame with one more *)
(* pulse.  One measured unit of the frame may be corrupted on the way.     *)
(***************************************************************************)
EXTENDS IrDecoder, RemoteCodes

CONSTANTS
  Addresses,          \* addresses the remote sends
  SentCommands,       \* commands it sends undisturbed
  CorruptedCommands   \* commands it sends with one unit corrupted

ASSUME SentAssumption ==
  /\ Addresses \subseteq Words
  /\ SentCommands \subseteq Bytes /\ CorruptedCommands \subseteq Bytes

Intact == NumberOfBits   \* the unit corrupted in no frame

Transmissions ==
  [address : Addresses, command : SentCommands, corrupt : {Intact}]
    \cup [address : Addresses, command : CorruptedCommands,
          corrupt : 0..(NumberOfBits - 1)]

\* The 32 logic bits of a frame: the address, low byte first, the command and
\* its complement, each with the least significant bit first.
Weight == <<1, 2, 4, 8, 16, 32, 64, 128>>

FrameByte(a, c, n) == <<a % 256, a \div 256, c, 255 - c>>[n + 1]

FrameBit(a, c, k) == (FrameByte(a, c, k \div 8) \div Weight[(k % 8) + 1]) % 2

\* The units the bits' pulses are in: the next one comes two units after a zero
\* and four after a one.  Pulse 32 closes the frame.
PulseAt(a, c) ==
  LET at[k \in 0..32] ==
        IF k = 0 THEN 0 ELSE at[k - 1] + (IF FrameBit(a, c, k - 1) = 1 THEN 4 ELSE 2)
  IN at

FrameLength(t) == PulseAt(t.address, t.command)[32]

\* What is measured of it: the pulses, darkness between and after them, and one
\* of the units wrong.
Measured(t) ==
  LET at == PulseAt(t.address, t.command)
      pulses == {at[k] : k \in 0..32}
  IN [i \in 0..(NumberOfBits - 1) |-> (i \in pulses) # (i = t.corrupt)]

\* The address bytes of a standard frame are complements of each other, which
\* makes every standard frame exactly NumberOfBits units long.
StandardAddress(a) == (a \div 256) + (a % 256) = 255

VARIABLE sent     \* the transmission measured and not yet decoded

Silence == [address |-> 0, command |-> 0, corrupt |-> Intact]

NecInit == Init /\ sent = Silence

Send ==
  \E t \in Transmissions :
    /\ FrameReceived(Measured(t))
    /\ sent' = t

NecNext ==
  \/ Send
  \/ DecodeCommand /\ UNCHANGED sent
  \/ Return /\ sent' = Silence

NecSpec == NecInit /\ [][NecNext]_<<vars, sent>>

-----------------------------------------------------------------------------
Delivered == step = "done" /\ accepted

DeliveredAsSent == accepted /\ address = sent.address /\ command = sent.command

\* The lamp acts on a frame (main.c:53-105).
Obeyed == Delivered /\ KeyOf(address, command) # "none"

\* A frame fits into the bitmap with its closing pulse, or without it when it
\* ends in a one, for which the decoder needs no pulse behind it.
Fits(t) ==
  \/ FrameLength(t) < NumberOfBits
  \/ FrameLength(t) = NumberOfBits /\ t.command < 128

\* Every undisturbed frame that fits into the bitmap is delivered as it was sent
\* (ir.c:114-127, 195-203).
FittingDelivered ==
  step = "done" /\ sent.corrupt = Intact /\ Fits(sent) => DeliveredAsSent

\* Every key of the two remotes the lamp knows is delivered as it was sent.
KeysDelivered ==
  step = "done" /\ sent.corrupt = Intact
    /\ KeyOf(sent.address, sent.command) # "none" => DeliveredAsSent

\* The complement protects the command (ir.c:199): with one unit of a frame
\* corrupted, even where that merges two bits and shifts all the later ones, a
\* frame that keeps its address is delivered with the command that was sent or
\* not at all.  The command 255 is the exception ignored return values leave
\* (ir.c:195-197): its complement is zero, which is also what an undecodable one
\* reads as.  Of a frame that is longer than the bitmap nothing is promised: of
\* the address 0x1ff, which has nine ones, and the command 192 a corruption
\* makes a valid 0.
CommandProtected ==
  Delivered /\ address = sent.address /\ FrameLength(sent) <= NumberOfBits =>
    command \in {sent.command, 255}

\* The address has no protection; still no key of the lamp's remotes is ever
\* mistaken for another key, of the same or of the other remote (main.c:53-74).
KeysNotMistaken ==
  Obeyed /\ KeyOf(sent.address, sent.command) # "none" => DeliveredAsSent

\* "Receiver of infrared remote, NED protocol" (README.md:3): an undisturbed
\* standard frame is delivered whatever its command is.
StandardFramesDelivered ==
  step = "done" /\ sent.corrupt = Intact /\ StandardAddress(sent.address) =>
    DeliveredAsSent
=============================================================================
