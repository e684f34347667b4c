--------------------------- MODULE IrDecoderProofs ---------------------------
(***************************************************************************)
(* Proofs about the decoder, for every bitmap.                             *)
(*                                                                         *)
(* The argument: the position stops at a bit that does not decode and only *)
(* moves on from one that starts with a pulse, hence from inside of the    *)
(* bitmap.  So it is bounded, and a failure of one call is a failure of    *)
(* all the later ones.                                                     *)
(***************************************************************************)
EXTENDS IrDecoder, TLAPS

-----------------------------------------------------------------------------
(* The loop of ir_byte_decode. *)

LastIndex == NumberOfBits + 3

\* What the loop can hold.
ByteState == [ok : BOOLEAN, pos : 0..LastIndex, value : Bytes]

\* A failed loop has stopped at the bit that does not decode.
Stuck(bits, acc) == ~acc.ok => ~BitDecodes(bits, acc.pos)

\* One turn keeps the loop's state in its range, and stops where it fails.
LEMMA ByteStepFacts ==
  ASSUME NEW bits \in Bitmaps, NEW acc \in ByteState, Stuck(bits, acc)
  PROVE  /\ ByteStep(bits, acc) \in ByteState
         /\ Stuck(bits, ByteStep(bits, acc))
         /\ ~BitDecodes(bits, acc.pos) =>
              ByteStep(bits, acc).ok = FALSE /\ ByteStep(bits, acc).pos = acc.pos
<1>1. /\ acc.ok \in BOOLEAN /\ acc.pos \in 0..LastIndex /\ acc.value \in Bytes
  BY DEF ByteState
<1>2. CASE acc.ok /\ BitDecodes(bits, acc.pos)
  <2>1. acc.pos \in 0..95
    BY <1>1, <1>2 DEF BitDecodes, BitmapValue, NumberOfBits
  <2>2. /\ acc.pos + 4 \in 0..LastIndex /\ acc.pos + 2 \in 0..LastIndex
        /\ acc.value \div 2 + 128 \in Bytes /\ acc.value \div 2 \in Bytes
    BY <1>1, <2>1 DEF Bytes, LastIndex, NumberOfBits
  <2>3. CASE BitValue(bits, acc.pos)
    <3>1. ByteStep(bits, acc) =
            [ok |-> TRUE, pos |-> acc.pos + 4, value |-> acc.value \div 2 + 128]
      BY <1>2, <2>3 DEF ByteStep
    <3>2. ByteStep(bits, acc) \in ByteState /\ ByteStep(bits, acc).ok = TRUE
      BY <2>2, <3>1 DEF ByteState
    <3>3. QED
      BY <1>2, <3>2 DEF Stuck
  <2>4. CASE ~BitValue(bits, acc.pos)
    <3>1. ByteStep(bits, acc) =
            [ok |-> TRUE, pos |-> acc.pos + 2, value |-> acc.value \div 2]
      BY <1>2, <2>4 DEF ByteStep
    <3>2. ByteStep(bits, acc) \in ByteState /\ ByteStep(bits, acc).ok = TRUE
      BY <2>2, <3>1 DEF ByteState
    <3>3. QED
      BY <1>2, <3>2 DEF Stuck
  <2>5. QED
    BY <2>3, <2>4
<1>3. CASE ~(acc.ok /\ BitDecodes(bits, acc.pos))
  <2>1. ~BitDecodes(bits, acc.pos)
    BY <1>3 DEF Stuck
  <2>2. ByteStep(bits, acc) = [acc EXCEPT !.ok = FALSE]
    BY <1>3 DEF ByteStep
  <2>3. /\ ByteStep(bits, acc) \in ByteState
        /\ ByteStep(bits, acc).ok = FALSE /\ ByteStep(bits, acc).pos = acc.pos
    BY <2>2 DEF ByteState
  <2>4. QED
    BY <2>1, <2>3 DEF Stuck
<1>4. QED
  BY <1>2, <1>3

\* The ranges of a byte and of a word as inequalities: the provers enumerate an
\* interval between two literals.
LEMMA ByteRange == \A x : x \in Bytes <=> x \in Nat /\ x <= 255
BY DEF Bytes

LEMMA WordRange == \A x : x \in Words <=> x \in Nat /\ x <= 65535
<1> DEFINE top == 65535
<1>1. Words = 0..top
  BY DEF Words
<1>2. top \in Nat
  OBVIOUS
<1> HIDE DEF top
<1>3. \A x : x \in Words <=> x \in Nat /\ x <= top
  BY <1>1, <1>2
<1> QED BY <1>3 DEF top

\* Two bytes make a word.
LEMMA WordFacts ==
  ASSUME NEW h \in Bytes, NEW l \in Bytes
  PROVE  h * 256 + l \in Words
BY ByteRange, WordRange

\* The same of four turns.
LEMMA FourStepsFacts ==
  ASSUME NEW bits \in Bitmaps, NEW acc \in ByteState, Stuck(bits, acc)
  PROVE  /\ FourSteps(bits, acc) \in ByteState
         /\ Stuck(bits, FourSteps(bits, acc))
         /\ ~BitDecodes(bits, acc.pos) =>
              FourSteps(bits, acc).ok = FALSE /\ FourSteps(bits, acc).pos = acc.pos
<1>1. ASSUME NEW a \in ByteState, Stuck(bits, a)
      PROVE  /\ TwoSteps(bits, a) \in ByteState
             /\ Stuck(bits, TwoSteps(bits, a))
             /\ ~BitDecodes(bits, a.pos) =>
                  TwoSteps(bits, a).ok = FALSE /\ TwoSteps(bits, a).pos = a.pos
  <2> DEFINE b == ByteStep(bits, a)
  <2>1. /\ b \in ByteState /\ Stuck(bits, b)
        /\ ~BitDecodes(bits, a.pos) => b.pos = a.pos
    BY <1>1, ByteStepFacts
  <2> HIDE DEF b
  <2>2. /\ ByteStep(bits, b) \in ByteState /\ Stuck(bits, ByteStep(bits, b))
        /\ ~BitDecodes(bits, b.pos) =>
             ByteStep(bits, b).ok = FALSE /\ ByteStep(bits, b).pos = b.pos
    BY <2>1, ByteStepFacts
  <2>3. TwoSteps(bits, a) = ByteStep(bits, b)
    BY DEF TwoSteps, b
  <2>4. QED
    BY <2>1, <2>2, <2>3
<1> DEFINE c == TwoSteps(bits, acc)
<1>2. /\ c \in ByteState /\ Stuck(bits, c)
      /\ ~BitDecodes(bits, acc.pos) => c.pos = acc.pos
  BY <1>1
<1> HIDE DEF c
<1>3. /\ TwoSteps(bits, c) \in ByteState /\ Stuck(bits, TwoSteps(bits, c))
      /\ ~BitDecodes(bits, c.pos) =>
           TwoSteps(bits, c).ok = FALSE /\ TwoSteps(bits, c).pos = c.pos
  BY <1>1, <1>2
<1>4. FourSteps(bits, acc) = TwoSteps(bits, c)
  BY DEF FourSteps, c
<1>5. QED
  BY <1>2, <1>3, <1>4

\* ir_byte_decode: a byte and a position within bounds; a failing call leaves
\* the position at a bit that does not decode, and fails again from there.
LEMMA ByteDecodeFacts ==
  ASSUME NEW bits \in Bitmaps, NEW i \in 0..LastIndex
  PROVE  /\ ByteDecode(bits, i) \in ByteState
         /\ Stuck(bits, ByteDecode(bits, i))
         /\ ~BitDecodes(bits, i) =>
              ByteDecode(bits, i).ok = FALSE /\ ByteDecode(bits, i).pos = i
<1> DEFINE a == ByteStart(i)
           b == FourSteps(bits, a)
<1>1. a \in ByteState /\ a.pos = i /\ Stuck(bits, a)
  <2>1. 0 \in Bytes
    BY DEF Bytes
  <2>2. a = [ok |-> TRUE, pos |-> i, value |-> 0]
    BY DEF ByteStart
  <2>3. QED
    BY <2>1, <2>2 DEF ByteState, Stuck
<1>2. /\ b \in ByteState /\ Stuck(bits, b)
      /\ ~BitDecodes(bits, i) => b.pos = i
  <2> HIDE DEF a
  <2>1. QED
    BY <1>1, FourStepsFacts
<1>3. ByteDecode(bits, i) = FourSteps(bits, b)
  BY DEF ByteDecode
<1> HIDE DEF a, b
<1>4. /\ FourSteps(bits, b) \in ByteState /\ Stuck(bits, FourSteps(bits, b))
      /\ ~BitDecodes(bits, b.pos) =>
           FourSteps(bits, b).ok = FALSE /\ FourSteps(bits, b).pos = b.pos
  BY <1>2, FourStepsFacts
<1>5. QED
  BY <1>2, <1>3, <1>4

-----------------------------------------------------------------------------
(* The inductive invariant. *)

\* A call that has failed has left its zero behind, and the position at a bit
\* that does not decode.
FailureInv ==
  /\ step \in {"command", "i_command", "check", "done"} /\ ~word_ok =>
       ~BitDecodes(received_bits, bit_index)
  /\ step \in {"word", "command"} => command = 0
  /\ step \in {"word", "command", "i_command"} => i_command = 0
  /\ step \in {"i_command", "check", "done"} =>
       /\ ~word_ok => ~command_ok
       /\ ~command_ok => command = 0 /\ ~BitDecodes(received_bits, bit_index)
  /\ step \in {"check", "done"} =>
       /\ ~command_ok => ~i_command_ok
       /\ ~i_command_ok => i_command = 0
  /\ accepted => step = "done" /\ command + i_command = 255

IInv == TypeOK /\ IndexNeverWraps /\ FailureInv

\* Zeroed locals satisfy the invariant.
LEMMA InitInv == Init => IInv
<1> SUFFICES ASSUME Init PROVE IInv
  OBVIOUS
<1>1. TypeOK
  <2>1. NoBits \in Bitmaps
    BY DEF NoBits, Bitmaps
  <2>2. 0 \in Nat /\ 0 \in Words /\ 0 \in Bytes
    BY ByteRange, WordRange
  <2>3. QED
    BY <2>1, <2>2 DEF Init, TypeOK
<1>2. IndexNeverWraps /\ FailureInv
  BY DEF Init, IndexNeverWraps, FailureInv, NumberOfBits
<1>3. QED
  BY <1>1, <1>2 DEF IInv

\* A new frame, and the return of the last call, leave fresh locals.
LEMMA FreshStep ==
  ASSUME FreshLocals, received_bits' \in Bitmaps, step' \in {"idle", "word"}
  PROVE  IInv'
<1>1. TypeOK'
  <2>1. 0 \in Nat /\ 0 \in Words /\ 0 \in Bytes
    BY ByteRange, WordRange
  <2>2. QED
    BY <2>1 DEF FreshLocals, TypeOK
<1>2. IndexNeverWraps' /\ FailureInv'
  BY DEF FreshLocals, IndexNeverWraps, FailureInv, NumberOfBits
<1>3. QED
  BY <1>1, <1>2 DEF IInv

\* The address: when its first byte fails the second is not tried.
LEMMA DecodeWordStep ==
  ASSUME IInv, DecodeWord
  PROVE  IInv'
<1> DEFINE low  == ByteDecode(received_bits, bit_index)
           high == ByteDecode(received_bits, low.pos)
<1>1. received_bits \in Bitmaps /\ bit_index \in 0..LastIndex
  BY DEF IInv, TypeOK, IndexNeverWraps, LastIndex
<1>2. /\ word_ok' = (low.ok /\ high.ok)
      /\ bit_index' = IF low.ok THEN high.pos ELSE low.pos
      /\ address' = IF low.ok /\ high.ok THEN high.value * 256 + low.value ELSE address
  BY DEF DecodeWord
<1>3. low \in ByteState /\ Stuck(received_bits, low)
  BY <1>1, ByteDecodeFacts
<1>4. low.pos \in 0..LastIndex
  BY <1>3 DEF ByteState
<1>5. high \in ByteState /\ Stuck(received_bits, high)
  BY <1>1, <1>4, ByteDecodeFacts
<1> HIDE DEF low, high
<1>6. bit_index' \in 0..LastIndex /\ (~word_ok' => ~BitDecodes(received_bits, bit_index'))
  BY <1>2, <1>3, <1>5 DEF ByteState, Stuck
<1>7. word_ok' \in BOOLEAN
  BY <1>2, <1>3, <1>5 DEF ByteState
<1>8. address' \in Words
  <2>1. address \in Words
    BY DEF IInv, TypeOK
  <2>2. low.value \in Bytes /\ high.value \in Bytes
    BY <1>3, <1>5 DEF ByteState
  <2>3. high.value * 256 + low.value \in Words
    BY <2>2, WordFacts
  <2>4. QED
    BY <1>2, <2>1, <2>3
<1>9. /\ step = "word" /\ step' = "command"
      /\ UNCHANGED <<received_bits, command, i_command, command_ok, i_command_ok, accepted>>
  BY DEF DecodeWord
<1>10. TypeOK'
  <2>1. bit_index' \in Nat
    BY <1>6 DEF LastIndex, NumberOfBits
  <2>2. QED
    BY <1>7, <1>8, <1>9, <2>1 DEF IInv, TypeOK
<1>11. IndexNeverWraps'
  BY <1>6 DEF IndexNeverWraps, LastIndex, NumberOfBits
<1>12. FailureInv'
  BY <1>6, <1>9 DEF IInv, FailureInv
<1>13. QED
  BY <1>10, <1>11, <1>12 DEF IInv

\* The command fails where the address has failed.
LEMMA DecodeByteCommandStep ==
  ASSUME IInv, DecodeByteCommand
  PROVE  IInv'
<1> DEFINE byte == ByteDecode(received_bits, bit_index)
<1>1. received_bits \in Bitmaps /\ bit_index \in 0..LastIndex
  BY DEF IInv, TypeOK, IndexNeverWraps, LastIndex
<1>2. /\ command_ok' = byte.ok
      /\ bit_index' = byte.pos
      /\ command' = IF byte.ok THEN byte.value ELSE command
  BY DEF DecodeByteCommand
<1>3. /\ byte \in ByteState /\ Stuck(received_bits, byte)
      /\ ~BitDecodes(received_bits, bit_index) => byte.ok = FALSE /\ byte.pos = bit_index
  BY <1>1, ByteDecodeFacts
<1> HIDE DEF byte
<1>4. /\ bit_index' \in 0..LastIndex /\ command_ok' \in BOOLEAN
      /\ ~command_ok' => ~BitDecodes(received_bits, bit_index')
  BY <1>2, <1>3 DEF ByteState, Stuck
<1>5. command' \in Bytes
  BY <1>2, <1>3 DEF ByteState, IInv, TypeOK
<1>6. /\ step = "command" /\ step' = "i_command"
      /\ UNCHANGED <<received_bits, address, i_command, word_ok, i_command_ok, accepted>>
  BY DEF DecodeByteCommand
<1>7. /\ ~word_ok => ~command_ok' /\ bit_index' = bit_index
      /\ ~command_ok' => command' = 0
  BY <1>2, <1>3, <1>6 DEF IInv, FailureInv
<1>8. TypeOK'
  <2>1. bit_index' \in Nat
    BY <1>4 DEF LastIndex, NumberOfBits
  <2>2. QED
    BY <1>4, <1>5, <1>6, <2>1 DEF IInv, TypeOK
<1>9. IndexNeverWraps'
  BY <1>4 DEF IndexNeverWraps, LastIndex, NumberOfBits
<1>10. FailureInv'
  BY <1>4, <1>6, <1>7 DEF IInv, FailureInv
<1>11. QED
  BY <1>8, <1>9, <1>10 DEF IInv

\* The complement fails where the command has failed.
LEMMA DecodeByteInverseStep ==
  ASSUME IInv, DecodeByteInverse
  PROVE  IInv'
<1> DEFINE byte == ByteDecode(received_bits, bit_index)
<1>1. received_bits \in Bitmaps /\ bit_index \in 0..LastIndex
  BY DEF IInv, TypeOK, IndexNeverWraps, LastIndex
<1>2. /\ i_command_ok' = byte.ok
      /\ bit_index' = byte.pos
      /\ i_command' = IF byte.ok THEN byte.value ELSE i_command
  BY DEF DecodeByteInverse
<1>3. /\ byte \in ByteState
      /\ ~BitDecodes(received_bits, bit_index) => byte.ok = FALSE /\ byte.pos = bit_index
  BY <1>1, ByteDecodeFacts
<1> HIDE DEF byte
<1>4. bit_index' \in 0..LastIndex /\ i_command_ok' \in BOOLEAN
  BY <1>2, <1>3 DEF ByteState
<1>5. i_command' \in Bytes
  BY <1>2, <1>3 DEF ByteState, IInv, TypeOK
<1>6. /\ step = "i_command" /\ step' = "check"
      /\ UNCHANGED <<received_bits, address, command, word_ok, command_ok, accepted>>
  BY DEF DecodeByteInverse
<1>7. /\ ~word_ok \/ ~command_ok => bit_index' = bit_index
      /\ ~command_ok => ~i_command_ok'
      /\ ~i_command_ok' => i_command' = 0
  BY <1>2, <1>3, <1>6 DEF IInv, FailureInv
<1>8. TypeOK'
  <2>1. bit_index' \in Nat
    BY <1>4 DEF LastIndex, NumberOfBits
  <2>2. QED
    BY <1>4, <1>5, <1>6, <2>1 DEF IInv, TypeOK
<1>9. IndexNeverWraps'
  BY <1>4 DEF IndexNeverWraps, LastIndex, NumberOfBits
<1>10. FailureInv'
  BY <1>6, <1>7 DEF IInv, FailureInv
<1>11. QED
  BY <1>8, <1>9, <1>10 DEF IInv

\* The check records the sum it has tested.
LEMMA CheckStep ==
  ASSUME IInv, Check
  PROVE  IInv'
<1>1. TypeOK'
  <2>1. accepted' \in BOOLEAN
    BY Zenon DEF Check
  <2>2. QED
    BY <2>1 DEF IInv, Check, TypeOK
<1>2. IndexNeverWraps' /\ FailureInv'
  BY DEF IInv, Check, IndexNeverWraps, FailureInv
<1>3. QED
  BY <1>1, <1>2 DEF IInv

\* Every step preserves the invariant.
LEMMA NextInv == IInv /\ [Next]_vars => IInv'
<1> SUFFICES ASSUME IInv, [Next]_vars PROVE IInv'
  OBVIOUS
<1>1. ASSUME NEW bits \in Bitmaps, FrameReceived(bits) PROVE IInv'
  BY <1>1, FreshStep DEF FrameReceived
<1>2. CASE DecodeCommand
  BY <1>2, DecodeWordStep, DecodeByteCommandStep, DecodeByteInverseStep, CheckStep
     DEF DecodeCommand
<1>3. CASE Return
  <2>1. NoBits \in Bitmaps
    BY DEF NoBits, Bitmaps
  <2>2. QED
    BY <1>3, <2>1, FreshStep DEF Return
<1>4. CASE UNCHANGED vars
  BY <1>4 DEF vars, IInv, TypeOK, IndexNeverWraps, FailureInv
<1>5. QED
  BY <1>1, <1>2, <1>3, <1>4 DEF Next

-----------------------------------------------------------------------------
(* The theorems. *)

\* The inductive invariant holds of every execution, whatever is received.
THEOREM Invariance == Spec => []IInv
<1>1. QED
  BY InitInv, NextInv, PTL DEF Spec

\* Locals and results stay in the width the code gives them.
THEOREM TypeCorrect == Spec => []TypeOK
<1>1. IInv => TypeOK
  BY DEF IInv
<1>2. QED
  BY <1>1, Invariance, PTL

\* The uint8_t bit_index of ir_decode_command never wraps, on any of the 2^96
\* bitmaps.
THEOREM IndexSafe == Spec => []IndexNeverWraps
<1>1. IInv => IndexNeverWraps
  BY DEF IInv
<1>2. QED
  BY <1>1, Invariance, PTL

\* The ignored results of ir.c:195-197 are made up for by the complement, but
\* for the command 255, on any bitmap.
THEOREM FailuresRejectedSafe == Spec => []FailuresRejected
<1>1. IInv => FailuresRejected
  BY DEF IInv, FailureInv, FailuresRejected, TypeOK, Bytes
<1>2. QED
  BY <1>1, Invariance, PTL
=============================================================================
