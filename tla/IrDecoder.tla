----------------------------- MODULE IrDecoder -----------------------------
(***************************************************************************)
(* The decoding of a frame in ir.c: from the 96 measured bits to an        *)
(* address, a command and its complement.  A logic zero is measured as     *)
(* 1 0, a logic one as 1 0 0 0, least significant bit first.               *)
(*                                                                         *)
(* ir_decode_command runs in the timer callback and nobody else touches    *)
(* the bitmap; its calls are steps here so that the value and the position *)
(* every one of them leaves, also when it fails, can be looked at.         *)
(***************************************************************************)
EXTENDS Naturals

\* IR_NUMBER_OF_BITS_PER_COMMAND
NumberOfBits == 96

Bitmaps == [0..(NumberOfBits - 1) -> BOOLEAN]

VARIABLES
  received_bits,    \* decoder.received_bits
  bit_index,        \* position of the next bit to decode
  address, command, i_command,
  word_ok, command_ok, i_command_ok,  \* return values, ignored by the code
  step,             \* next call of ir_decode_command
  accepted          \* the check was passed: a callback, if set, is called

vars == <<received_bits, bit_index, address, command, i_command,
          word_ok, command_ok, i_command_ok, step, accepted>>

-----------------------------------------------------------------------------
\* ir_bitmap_value_get
BitmapValue(bits, i) == i < NumberOfBits /\ bits[i]

\* ir_bit_decode returns true
BitDecodes(bits, i) ==
  /\ BitmapValue(bits, i) /\ ~BitmapValue(bits, i + 1)
  /\ BitmapValue(bits, i + 2) \/ ~BitmapValue(bits, i + 3)

\* *value of a decoded bit: the next pulse comes at once after a zero.
BitValue(bits, i) == ~BitmapValue(bits, i + 2)

\* What ir_byte_decode holds in its loop: ok until a bit fails to decode, the
\* position of the next bit, and the bits shifted in from the top so far.
ByteStart(i) == [ok |-> TRUE, pos |-> i, value |-> 0]

\* Mutant: the most significant bit comes first.
ByteStep_MsbFirst(bits, acc) ==
  IF acc.ok /\ BitDecodes(bits, acc.pos)
  THEN IF BitValue(bits, acc.pos)
       THEN [ok |-> TRUE, pos |-> acc.pos + 4, value |-> acc.value * 2 + 1]
       ELSE [ok |-> TRUE, pos |-> acc.pos + 2, value |-> acc.value * 2]
  ELSE [acc EXCEPT !.ok = FALSE]

\* Mutant: the result is not shifted before a bit is added.
ByteStep_NoShift(bits, acc) ==
  IF acc.ok /\ BitDecodes(bits, acc.pos)
  THEN IF BitValue(bits, acc.pos)
       THEN [ok |-> TRUE, pos |-> acc.pos + 4, value |-> acc.value + 128]
       ELSE [ok |-> TRUE, pos |-> acc.pos + 2, value |-> acc.value]
  ELSE [acc EXCEPT !.ok = FALSE]

\* Mutant: an undecodable bit is skipped as a zero.
ByteStep_SkipBad(bits, acc) ==
  IF acc.ok
  THEN IF BitDecodes(bits, acc.pos) /\ BitValue(bits, acc.pos)
       THEN [ok |-> TRUE, pos |-> acc.pos + 4, value |-> acc.value \div 2 + 128]
       ELSE [ok |-> TRUE, pos |-> acc.pos + 2, value |-> acc.value \div 2]
  ELSE acc

\* One turn of the loop of ir_byte_decode.
ByteStep(bits, acc) ==
  IF acc.ok /\ BitDecodes(bits, acc.pos)
  THEN IF BitValue(bits, acc.pos)
       THEN [ok |-> TRUE, pos |-> acc.pos + 4, value |-> acc.value \div 2 + 128]
       ELSE [ok |-> TRUE, pos |-> acc.pos + 2, value |-> acc.value \div 2]
  ELSE [acc EXCEPT !.ok = FALSE]

TwoSteps(bits, acc)  == ByteStep(bits, ByteStep(bits, acc))
FourSteps(bits, acc) == TwoSteps(bits, TwoSteps(bits, acc))

\* ir_byte_decode: *from_bit_number moves to the failing bit, *value is
\* written only when all bits decode.
ByteDecode(bits, i) == FourSteps(bits, FourSteps(bits, ByteStart(i)))

-----------------------------------------------------------------------------
\* The bits of a frame are not read again once it is decoded: between frames
\* the model forgets them.
NoBits == [i \in 0..(NumberOfBits - 1) |-> FALSE]

\* Mutant: the locals are not initialized, and hold what the call before has
\* left on the stack, here the key OFF of the second remote.
FreshLocals_Stale ==
  /\ bit_index' = 0
  /\ address' = 65280 /\ command' = 6 /\ i_command' = 249
  /\ word_ok' = FALSE /\ command_ok' = FALSE /\ i_command_ok' = FALSE
  /\ accepted' = FALSE

\* The locals of ir_decode_command at its start.
FreshLocals ==
  /\ bit_index' = 0
  /\ address' = 0 /\ command' = 0 /\ i_command' = 0
  /\ word_ok' = FALSE /\ command_ok' = FALSE /\ i_command_ok' = FALSE
  /\ accepted' = FALSE

Init ==
  /\ received_bits = NoBits
  /\ bit_index = 0
  /\ address = 0 /\ command = 0 /\ i_command = 0
  /\ word_ok = FALSE /\ command_ok = FALSE /\ i_command_ok = FALSE
  /\ step = "idle"
  /\ accepted = FALSE

\* ir_push_signal_value with the last bit: ir_decode_command is called.
FrameReceived(bits) ==
  /\ step = "idle" /\ step' = "word"
  /\ received_bits' = bits
  /\ FreshLocals

\* ir_word_decode(&bit_index, &address): two bytes, low one first; the second
\* is not tried when the first fails.
DecodeWord ==
  /\ step = "word"
  /\ LET low  == ByteDecode(received_bits, bit_index)
         high == ByteDecode(received_bits, low.pos)
     IN /\ word_ok' = (low.ok /\ high.ok)
        /\ bit_index' = IF low.ok THEN high.pos ELSE low.pos
        /\ address' = IF low.ok /\ high.ok THEN high.value * 256 + low.value ELSE address
  /\ step' = "command"
  /\ UNCHANGED <<received_bits, command, i_command, command_ok, i_command_ok, accepted>>

\* ir_byte_decode(&bit_index, &command)
DecodeByteCommand ==
  /\ step = "command"
  /\ LET byte == ByteDecode(received_bits, bit_index)
     IN /\ command_ok' = byte.ok
        /\ bit_index' = byte.pos
        /\ command' = IF byte.ok THEN byte.value ELSE command
  /\ step' = "i_command"
  /\ UNCHANGED <<received_bits, address, i_command, word_ok, i_command_ok, accepted>>

\* ir_byte_decode(&bit_index, &i_command)
DecodeByteInverse ==
  /\ step = "i_command"
  /\ LET byte == ByteDecode(received_bits, bit_index)
     IN /\ i_command_ok' = byte.ok
        /\ bit_index' = byte.pos
        /\ i_command' = IF byte.ok THEN byte.value ELSE i_command
  /\ step' = "check"
  /\ UNCHANGED <<received_bits, address, command, word_ok, command_ok, accepted>>

\* Mutant: the complement is not checked.
Check_Unchecked ==
  /\ step = "check"
  /\ accepted' = TRUE
  /\ step' = "done"
  /\ UNCHANGED <<received_bits, bit_index, address, command, i_command,
                 word_ok, command_ok, i_command_ok>>

\* if ((command + i_command) != 0xff) return; the sum is an int, it is not
\* cut to eight bits.  What passes is reported when a callback is set:
\* IrReceiver.DecodeCommand has that guard.
Check ==
  /\ step = "check"
  /\ accepted' = (command + i_command = 255)
  /\ step' = "done"
  /\ UNCHANGED <<received_bits, bit_index, address, command, i_command,
                 word_ok, command_ok, i_command_ok>>

DecodeCommand == DecodeWord \/ DecodeByteCommand \/ DecodeByteInverse \/ Check

\* ir_decode_command returns.
Return ==
  /\ step = "done"
  /\ received_bits' = NoBits
  /\ FreshLocals
  /\ step' = "idle"

Next == (\E bits \in Bitmaps : FrameReceived(bits)) \/ DecodeCommand \/ Return

Spec == Init /\ [][Next]_vars

-----------------------------------------------------------------------------
Bytes == 0..255
Words == 0..65535

TypeOK ==
  /\ received_bits \in Bitmaps
  /\ bit_index \in Nat
  /\ address \in Words /\ command \in Bytes /\ i_command \in Bytes
  /\ word_ok \in BOOLEAN /\ command_ok \in BOOLEAN /\ i_command_ok \in BOOLEAN
  /\ step \in {"idle", "word", "command", "i_command", "check", "done"}
  /\ accepted \in BOOLEAN

\* bit_index is a uint8_t that every decoded bit advances: whatever was
\* received, it stays within the last pulse's reach and never wraps.
IndexNeverWraps == bit_index <= NumberOfBits + 3

\* ir_decode_command ignores the return values of its three calls, and takes
\* zero for what could not be decoded.  That is harmless because a failed call
\* leaves the position at the failing bit, where the next one fails again: what
\* is accepted was decoded in full, but for the command 0xff, which is accepted
\* with an undecodable complement.
FailuresRejected ==
  accepted => word_ok /\ command_ok /\ (i_command_ok \/ command = 255)

=============================================================================
