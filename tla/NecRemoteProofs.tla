--------------------------- MODULE NecRemoteProofs ---------------------------
(***************************************************************************)
(* Proofs about the decoder with a remote control in front of it, for all  *)
(* addresses and commands the remote may send and any one corrupted unit.  *)
(*                                                                         *)
(* The argument: the decoder goes through the bitmap along the only        *)
(* sequence of positions that starts at zero and moves by four units from  *)
(* a one and by two from a zero (its trace), and the bytes it has are the  *)
(* bits along the trace.  While a frame is undisturbed the trace meets its *)
(* pulses one by one, so the bits are the remote's.  A corrupted unit      *)
(* either changes no bit, or makes the first wrong bit span two pulses     *)
(* (two zeros merge) or half of a distance (a one splits); from there on   *)
(* the bits are the remote's, shifted by one, and a command and complement *)
(* read from shifted bits cannot both be right unless the command is 255.  *)
(* The lamp's two remotes differ in the last bit of the address, so that a *)
(* frame which turns one address into the other is shifted from there on.  *)
(***************************************************************************)
EXTENDS NecRemote, IrDecoderProofs, Iteration

-----------------------------------------------------------------------------
(* Numbers and their bits. *)

Bit == {0, 1}

\* The byte whose bits f holds from position n on.
ByteAt(f, n) ==
  f[n] + 2 * f[n + 1] + 4 * f[n + 2] + 8 * f[n + 3]
    + 16 * f[n + 4] + 32 * f[n + 5] + 64 * f[n + 6] + 128 * f[n + 7]

\* The number of eight binary digits.
Digits(x) ==
  x[0] + 2 * x[1] + 4 * x[2] + 8 * x[3] + 16 * x[4] + 32 * x[5] + 64 * x[6] + 128 * x[7]

\* Its two halves.
LowDigits(x) == x[0] + 2 * x[1] + 4 * x[2] + 8 * x[3]
HighDigits(x) == x[4] + 2 * x[5] + 4 * x[6] + 8 * x[7]

LEMMA DigitHalves ==
  ASSUME NEW z \in [0..7 -> Bit]
  PROVE  /\ \A r \in 0..7 : z[r] \in 0..1
         /\ LowDigits(z) \in Nat /\ LowDigits(z) <= 15 /\ HighDigits(z) \in Nat
         /\ Digits(z) = LowDigits(z) + 16 * HighDigits(z)
<1>1. /\ z[0] \in 0..1 /\ z[1] \in 0..1 /\ z[2] \in 0..1 /\ z[3] \in 0..1
      /\ z[4] \in 0..1 /\ z[5] \in 0..1 /\ z[6] \in 0..1 /\ z[7] \in 0..1
  BY DEF Bit
<1>2. LowDigits(z) \in Nat /\ LowDigits(z) <= 15 /\ HighDigits(z) \in Nat
  BY <1>1 DEF LowDigits, HighDigits
<1>3. Digits(z) = LowDigits(z) + 16 * HighDigits(z)
  BY <1>1 DEF Digits, LowDigits, HighDigits
<1>4. \A r \in 0..7 : z[r] \in 0..1
  BY DEF Bit
<1> QED BY <1>2, <1>3, <1>4

\* Equal numbers have equal digits: their halves are equal, and then every digit.
LEMMA SameDigits ==
  ASSUME NEW x \in [0..7 -> Bit], NEW y \in [0..7 -> Bit], Digits(x) = Digits(y)
  PROVE  \A r \in 0..7 : x[r] = y[r]
<1>1. \A r \in 0..7 : x[r] \in 0..1 /\ y[r] \in 0..1
  BY DigitHalves
<1>2. LowDigits(x) = LowDigits(y) /\ HighDigits(x) = HighDigits(y)
  <2>1. /\ LowDigits(x) \in Nat /\ LowDigits(x) <= 15 /\ HighDigits(x) \in Nat
        /\ Digits(x) = LowDigits(x) + 16 * HighDigits(x)
    BY DigitHalves
  <2>2. /\ LowDigits(y) \in Nat /\ LowDigits(y) <= 15 /\ HighDigits(y) \in Nat
        /\ Digits(y) = LowDigits(y) + 16 * HighDigits(y)
    BY DigitHalves
  <2>3. ASSUME NEW xl \in Nat, NEW xh \in Nat, NEW yl \in Nat, NEW yh \in Nat,
               xl <= 15, yl <= 15, xl + 16 * xh = yl + 16 * yh
        PROVE  xl = yl /\ xh = yh
    BY <2>3
  <2>4. LowDigits(x) + 16 * HighDigits(x) = LowDigits(y) + 16 * HighDigits(y)
    BY <2>1, <2>2
  <2> DEFINE xl == LowDigits(x)
             xh == HighDigits(x)
             yl == LowDigits(y)
             yh == HighDigits(y)
  <2>5. /\ xl \in Nat /\ xh \in Nat /\ yl \in Nat /\ yh \in Nat
        /\ xl <= 15 /\ yl <= 15 /\ xl + 16 * xh = yl + 16 * yh
    BY <2>1, <2>2, <2>4
  <2> HIDE DEF xl, xh, yl, yh
  <2>6. xl = yl /\ xh = yh
    BY <2>3, <2>5
  <2> QED BY <2>6 DEF xl, xh, yl, yh
<1>3. ASSUME NEW x0 \in 0..1, NEW x1 \in 0..1, NEW x2 \in 0..1, NEW x3 \in 0..1,
             NEW y0 \in 0..1, NEW y1 \in 0..1, NEW y2 \in 0..1, NEW y3 \in 0..1,
             x0 + 2 * x1 + 4 * x2 + 8 * x3 = y0 + 2 * y1 + 4 * y2 + 8 * y3
      PROVE  x0 = y0 /\ x1 = y1 /\ x2 = y2 /\ x3 = y3
  BY <1>3
<1>4. x[0] = y[0] /\ x[1] = y[1] /\ x[2] = y[2] /\ x[3] = y[3]
  <2>1. /\ x[0] \in 0..1 /\ x[1] \in 0..1 /\ x[2] \in 0..1 /\ x[3] \in 0..1
        /\ y[0] \in 0..1 /\ y[1] \in 0..1 /\ y[2] \in 0..1 /\ y[3] \in 0..1
    BY <1>1
  <2> QED BY <1>2, <2>1 DEF LowDigits
<1>5. x[4] = y[4] /\ x[5] = y[5] /\ x[6] = y[6] /\ x[7] = y[7]
  <2>1. /\ x[4] \in 0..1 /\ x[5] \in 0..1 /\ x[6] \in 0..1 /\ x[7] \in 0..1
        /\ y[4] \in 0..1 /\ y[5] \in 0..1 /\ y[6] \in 0..1 /\ y[7] \in 0..1
    BY <1>1
  <2> QED BY <1>2, <2>1 DEF HighDigits
<1> QED BY <1>4, <1>5

\* The digits of the byte whose bits f holds from position n on.
DigitsAt(f, n) == [r \in 0..7 |-> f[n + r]]

LEMMA ByteDigits ==
  ASSUME NEW f \in [0..31 -> Bit], NEW n \in {0, 8, 16, 24}
  PROVE  /\ DigitsAt(f, n) \in [0..7 -> Bit]
         /\ ByteAt(f, n) = Digits(DigitsAt(f, n))
<1> DEFINE x == DigitsAt(f, n)
<1>1. \A r \in 0..7 : n + r \in 0..31
  OBVIOUS
<1>2. x \in [0..7 -> Bit]
  BY <1>1 DEF DigitsAt
<1>3. /\ x[0] = f[n] /\ x[1] = f[n + 1] /\ x[2] = f[n + 2] /\ x[3] = f[n + 3]
      /\ x[4] = f[n + 4] /\ x[5] = f[n + 5] /\ x[6] = f[n + 6] /\ x[7] = f[n + 7]
  BY DEF DigitsAt
<1>4. ByteAt(f, n) = Digits(x)
  <2> HIDE DEF x
  <2> QED BY <1>3 DEF ByteAt, Digits
<1> QED BY <1>2, <1>4

\* Two bytes that are equal have equal bits.
LEMMA SameBits ==
  ASSUME NEW f \in [0..31 -> Bit], NEW g \in [0..31 -> Bit],
         NEW n \in {0, 8, 16, 24}, NEW m \in {0, 8, 16, 24},
         ByteAt(f, n) = ByteAt(g, m)
  PROVE  \A r \in 0..7 : f[n + r] = g[m + r]
<1> DEFINE x == DigitsAt(f, n)
           y == DigitsAt(g, m)
<1>1. x \in [0..7 -> Bit] /\ ByteAt(f, n) = Digits(x)
  BY ByteDigits
<1>2. y \in [0..7 -> Bit] /\ ByteAt(g, m) = Digits(y)
  BY ByteDigits
<1>3. \A r \in 0..7 : x[r] = y[r]
  <2>1. Digits(x) = Digits(y)
    BY <1>1, <1>2
  <2> HIDE DEF x, y
  <2> QED BY <1>1, <1>2, <2>1, SameDigits, Zenon
<1> QED BY <1>3 DEF DigitsAt

\* Two bytes that add up to 255 have complementary bits.
LEMMA ComplementBits ==
  ASSUME NEW f \in [0..31 -> Bit], NEW n \in {0, 8, 16, 24}, NEW m \in {0, 8, 16, 24},
         ByteAt(f, n) + ByteAt(f, m) = 255
  PROVE  \A r \in 0..7 : f[m + r] = 1 - f[n + r]
<1> DEFINE x == DigitsAt(f, n)
           y == DigitsAt(f, m)
           c == [r \in 0..7 |-> 1 - x[r]]
<1>1. x \in [0..7 -> Bit] /\ ByteAt(f, n) = Digits(x)
  BY ByteDigits
<1>2. y \in [0..7 -> Bit] /\ ByteAt(f, m) = Digits(y)
  BY ByteDigits
<1>3. Digits(x) + Digits(y) = 255
  BY <1>1, <1>2
<1> HIDE DEF x, y
<1>4. \A r \in 0..7 : x[r] \in 0..1 /\ y[r] \in 0..1
  BY <1>1, <1>2 DEF Bit
<1>5. c \in [0..7 -> Bit]
  BY <1>4 DEF Bit
<1>6. Digits(c) = Digits(y)
  <2>1. /\ c[0] = 1 - x[0] /\ c[1] = 1 - x[1] /\ c[2] = 1 - x[2] /\ c[3] = 1 - x[3]
        /\ c[4] = 1 - x[4] /\ c[5] = 1 - x[5] /\ c[6] = 1 - x[6] /\ c[7] = 1 - x[7]
    OBVIOUS
  <2>2. /\ x[0] \in Int /\ x[1] \in Int /\ x[2] \in Int /\ x[3] \in Int
        /\ x[4] \in Int /\ x[5] \in Int /\ x[6] \in Int /\ x[7] \in Int
    BY <1>4
  <2>3. Digits(c) = LowDigits(c) + 16 * HighDigits(c)
    BY <1>5, DigitHalves
  <2>4. /\ LowDigits(x) \in Nat /\ HighDigits(x) \in Nat
        /\ Digits(x) = LowDigits(x) + 16 * HighDigits(x)
    BY <1>1, DigitHalves
  <2>5. Digits(y) \in Int
    <3>1. /\ LowDigits(y) \in Nat /\ HighDigits(y) \in Nat
          /\ Digits(y) = LowDigits(y) + 16 * HighDigits(y)
      BY <1>2, DigitHalves
    <3> QED BY <3>1
  <2> HIDE DEF c
  <2>6. LowDigits(c) = 15 - LowDigits(x)
    BY <2>1, <2>2 DEF LowDigits
  <2>7. HighDigits(c) = 15 - HighDigits(x)
    BY <2>1, <2>2 DEF HighDigits
  <2> QED BY <1>3, <2>3, <2>4, <2>5, <2>6, <2>7
<1>7. \A r \in 0..7 : c[r] = y[r]
  <2> HIDE DEF c
  <2> QED BY <1>2, <1>5, <1>6, SameDigits
<1> QED BY <1>7 DEF x, y, DigitsAt

\* The bits of a byte make the byte.
LEMMA BitsOfByte ==
  ASSUME NEW v \in Bytes
  PROVE  /\ v = (v % 2) + 2 * ((v \div 2) % 2) + 4 * ((v \div 4) % 2)
                  + 8 * ((v \div 8) % 2) + 16 * ((v \div 16) % 2) + 32 * ((v \div 32) % 2)
                  + 64 * ((v \div 64) % 2) + 128 * ((v \div 128) % 2)
BY DEF Bytes

\* The bits of a frame.
FrameBits(a, c) == [k \in 0..31 |-> FrameBit(a, c, k)]

\* One byte of it.
LEMMA FrameBitsOfByte ==
  ASSUME NEW a \in Words, NEW c \in Bytes, NEW n \in 0..3
  PROVE  /\ FrameByte(a, c, n) \in Bytes
         /\ ByteAt(FrameBits(a, c), 8 * n) = FrameByte(a, c, n)
<1> DEFINE v == FrameByte(a, c, n)
           f == FrameBits(a, c)
<1>1. v \in Bytes
  <2>1. n = 0 \/ n = 1 \/ n = 2 \/ n = 3
    OBVIOUS
  <2>2. a \in Nat /\ a <= 65535 /\ c \in Nat /\ c <= 255
    BY ByteRange, WordRange
  <2>3. /\ a % 256 \in Nat /\ a % 256 <= 255
        /\ a \div 256 \in Nat /\ a \div 256 <= 255
        /\ 255 - c \in Nat /\ 255 - c <= 255
    BY <2>2
  <2>4. v \in {a % 256, a \div 256, c, 255 - c}
    BY <2>1 DEF FrameByte
  <2> QED BY <2>2, <2>3, <2>4, ByteRange
<1>2. ASSUME NEW r \in 0..7 PROVE f[8 * n + r] = (v \div Weight[r + 1]) % 2
  <2>1. /\ 8 * n + r \in 0..31
        /\ (8 * n + r) \div 8 = n /\ (8 * n + r) % 8 = r
    OBVIOUS
  <2> QED BY <2>1 DEF FrameBits, FrameBit
<1>3. /\ Weight[1] = 1 /\ Weight[2] = 2 /\ Weight[3] = 4 /\ Weight[4] = 8
      /\ Weight[5] = 16 /\ Weight[6] = 32 /\ Weight[7] = 64 /\ Weight[8] = 128
  BY DEF Weight
<1> HIDE DEF v, f
<1>4. v \div 1 = v
  BY <1>1 DEF Bytes
<1>5. /\ f[8 * n] = v % 2
      /\ f[8 * n + 1] = (v \div 2) % 2 /\ f[8 * n + 2] = (v \div 4) % 2
      /\ f[8 * n + 3] = (v \div 8) % 2 /\ f[8 * n + 4] = (v \div 16) % 2
      /\ f[8 * n + 5] = (v \div 32) % 2 /\ f[8 * n + 6] = (v \div 64) % 2
      /\ f[8 * n + 7] = (v \div 128) % 2
  BY <1>2, <1>3, <1>4
<1>6. ByteAt(f, 8 * n) = v
  BY <1>1, <1>5, BitsOfByte DEF ByteAt
<1> QED BY <1>1, <1>6 DEF v, f

\* The whole of it: the address, the command and the complement.
LEMMA FrameBitsOfFrame ==
  ASSUME NEW a \in Words, NEW c \in Bytes
  PROVE  /\ FrameBits(a, c) \in [0..31 -> Bit]
         /\ ByteAt(FrameBits(a, c), 0) = a % 256 /\ ByteAt(FrameBits(a, c), 8) = a \div 256
         /\ ByteAt(FrameBits(a, c), 16) = c /\ ByteAt(FrameBits(a, c), 24) = 255 - c
         /\ \A r \in 0..7 : FrameBits(a, c)[24 + r] = 1 - FrameBits(a, c)[16 + r]
<1>1. FrameBits(a, c) \in [0..31 -> Bit]
  <2>1. ASSUME NEW k \in 0..31 PROVE FrameBit(a, c, k) \in Bit
    <3> DEFINE n == k \div 8
               w == Weight[(k % 8) + 1]
               v == FrameByte(a, c, n)
    <3>1. n \in 0..3
      OBVIOUS
    <3>2. v \in Bytes
      BY <3>1, FrameBitsOfByte
    <3>3. w \in {1, 2, 4, 8, 16, 32, 64, 128}
      <4>1. (k % 8) + 1 \in 1..8
        OBVIOUS
      <4> QED BY <4>1 DEF Weight
    <3> HIDE DEF n, v, w
    <3>4. (v \div w) % 2 \in Bit
      <4>1. v \div w \in Nat
        BY <3>2, <3>3 DEF Bytes
      <4> QED BY <4>1 DEF Bit
    <3> QED BY <3>4 DEF FrameBit, n, v, w
  <2> QED BY <2>1 DEF FrameBits
<1>2. /\ 0 \in 0..3 /\ 1 \in 0..3 /\ 2 \in 0..3 /\ 3 \in 0..3
      /\ 8 * 0 = 0 /\ 8 * 1 = 8 /\ 8 * 2 = 16 /\ 8 * 3 = 24
  OBVIOUS
<1>3. /\ FrameByte(a, c, 0) = a % 256 /\ FrameByte(a, c, 1) = a \div 256
      /\ FrameByte(a, c, 2) = c /\ FrameByte(a, c, 3) = 255 - c
  BY DEF FrameByte
<1>4. ByteAt(FrameBits(a, c), 0) = a % 256
  BY <1>2, <1>3, FrameBitsOfByte
<1>5. ByteAt(FrameBits(a, c), 8) = a \div 256
  BY <1>2, <1>3, FrameBitsOfByte
<1>6. ByteAt(FrameBits(a, c), 16) = c
  BY <1>2, <1>3, FrameBitsOfByte
<1>7. ByteAt(FrameBits(a, c), 24) = 255 - c
  BY <1>2, <1>3, FrameBitsOfByte
<1>8. \A r \in 0..7 : FrameBits(a, c)[24 + r] = 1 - FrameBits(a, c)[16 + r]
  <2>1. ByteAt(FrameBits(a, c), 16) + ByteAt(FrameBits(a, c), 24) = 255
    BY <1>6, <1>7 DEF Bytes
  <2>2. 16 \in {0, 8, 16, 24} /\ 24 \in {0, 8, 16, 24}
    OBVIOUS
  <2> QED BY <1>1, <2>1, <2>2, ComplementBits
<1> QED BY <1>1, <1>4, <1>5, <1>6, <1>7, <1>8

-----------------------------------------------------------------------------
(* The bits the decoder reads. *)

\* The bit read at a position; the decoder moves on by its length.
BitAt(bits, i) == IF BitValue(bits, i) THEN 1 ELSE 0

\* The positions of the 32 bits of a frame when all of them decode.
Trace(bits, q) ==
  /\ q \in [0..32 -> Nat] /\ q[0] = 0
  /\ \A k \in 0..31 : q[k + 1] = q[k] + 2 + 2 * BitAt(bits, q[k])

ReadBits(bits, q) == [k \in 0..31 |-> BitAt(bits, q[k])]

Readable(bits, q, n) == \A k \in n..(n + 7) : BitDecodes(bits, q[k])

\* Every bitmap has such positions.
LEMMA TraceExists ==
  ASSUME NEW bits
  PROVE  \E q : Trace(bits, q)
<1> DEFINE Advance == [i \in 1..32 |-> [p \in Nat |-> p + 2 + 2 * BitAt(bits, p)]]
<1>1. Advance \in [1..32 -> [Nat -> Nat]]
  BY DEF BitAt
<1>2. \A i \in 1..32, p \in Nat : Advance[i][p] = p + 2 + 2 * BitAt(bits, p)
  OBVIOUS
<1> HIDE DEF Advance
<1>3. PICK q \in [0..32 -> Nat] : Iterates(q, 0, Advance, 32)
  BY <1>1, IterationExists
<1>4. ASSUME NEW k \in 0..31 PROVE q[k + 1] = q[k] + 2 + 2 * BitAt(bits, q[k])
  <2>1. k + 1 \in 1..32 /\ (k + 1) - 1 = k /\ q[k] \in Nat
    OBVIOUS
  <2>2. q[k + 1] = Advance[k + 1][q[k]]
    BY <1>3, <2>1 DEF Iterates
  <2> QED BY <1>2, <2>1, <2>2
<1>5. q[0] = 0
  BY <1>3 DEF Iterates
<1> QED BY <1>4, <1>5 DEF Trace

\* What is read are bits.
LEMMA ReadBitsType ==
  ASSUME NEW bits, NEW q
  PROVE  /\ ReadBits(bits, q) \in [0..31 -> Bit]
         /\ \A k \in 0..31 : ReadBits(bits, q)[k] = BitAt(bits, q[k])
BY DEF ReadBits, BitAt, Bit

LoopState == [ok : BOOLEAN, pos : Nat, value : Nat]

\* One turn of the loop that stands at bit k.
LEMMA ByteStepReads ==
  ASSUME NEW bits \in Bitmaps, NEW q, Trace(bits, q), NEW k \in 0..31,
         NEW acc \in LoopState, acc.ok => acc.pos = q[k]
  PROVE  LET next == ByteStep(bits, acc)
         IN /\ next \in LoopState
            /\ next.ok <=> acc.ok /\ BitDecodes(bits, q[k])
            /\ next.ok => /\ next.pos = q[k + 1]
                          /\ next.value = acc.value \div 2 + 128 * BitAt(bits, q[k])
<1> DEFINE next == ByteStep(bits, acc)
<1>1. acc.ok \in BOOLEAN /\ acc.pos \in Nat /\ acc.value \in Nat
  BY DEF LoopState
<1>2. q[k + 1] = q[k] + 2 + 2 * BitAt(bits, q[k]) /\ q[k] \in Nat
  BY DEF Trace
<1>3. acc.value \div 2 \in Nat
  BY <1>1
<1>4. CASE acc.ok /\ BitDecodes(bits, acc.pos) /\ BitValue(bits, acc.pos)
  <2>1. next = [ok |-> TRUE, pos |-> acc.pos + 4, value |-> acc.value \div 2 + 128]
    BY <1>4 DEF ByteStep
  <2>2. BitAt(bits, q[k]) = 1
    BY <1>4 DEF BitAt
  <2>3. next \in LoopState
    BY <1>1, <1>3, <2>1 DEF LoopState
  <2> QED BY <1>1, <1>2, <1>3, <1>4, <2>1, <2>2, <2>3
<1>5. CASE acc.ok /\ BitDecodes(bits, acc.pos) /\ ~BitValue(bits, acc.pos)
  <2>1. next = [ok |-> TRUE, pos |-> acc.pos + 2, value |-> acc.value \div 2]
    BY <1>5 DEF ByteStep
  <2>2. BitAt(bits, q[k]) = 0
    BY <1>5 DEF BitAt
  <2>3. next \in LoopState
    BY <1>1, <1>3, <2>1 DEF LoopState
  <2> QED BY <1>1, <1>2, <1>3, <1>5, <2>1, <2>2, <2>3
<1>6. CASE ~(acc.ok /\ BitDecodes(bits, acc.pos))
  <2>1. next = [acc EXCEPT !.ok = FALSE]
    BY <1>6 DEF ByteStep
  <2>2. next \in LoopState /\ next.ok = FALSE
    BY <2>1 DEF LoopState
  <2> HIDE DEF next
  <2>3. ~(acc.ok /\ BitDecodes(bits, q[k]))
    BY <1>6
  <2>4. /\ next \in LoopState
        /\ next.ok <=> acc.ok /\ BitDecodes(bits, q[k])
        /\ next.ok => /\ next.pos = q[k + 1]
                      /\ next.value = acc.value \div 2 + 128 * BitAt(bits, q[k])
    BY <2>2, <2>3
  <2> QED BY <2>4 DEF next
<1> QED BY <1>4, <1>5, <1>6

\* A multiple of two is halved exactly.
LEMMA Halves ==
  ASSUME NEW v \in Nat, NEW m \in Nat
  PROVE  (v + 2 * m) \div 2 = v \div 2 + m
OBVIOUS

\* Four bits shifted in from the top.
LEMMA FourShifts ==
  ASSUME NEW v \in Nat, NEW e0 \in 0..1, NEW e1 \in 0..1, NEW e2 \in 0..1, NEW e3 \in 0..1
  PROVE  (((v \div 2 + 128 * e0) \div 2 + 128 * e1) \div 2 + 128 * e2) \div 2 + 128 * e3
           = v \div 16 + 16 * e0 + 32 * e1 + 64 * e2 + 128 * e3
<1> DEFINE v1 == v \div 2 + 128 * e0
           v2 == v1 \div 2 + 128 * e1
           v3 == v2 \div 2 + 128 * e2
<1>1. v1 \div 2 = v \div 4 + 64 * e0
  <2>1. v1 = v \div 2 + 2 * (64 * e0) /\ v \div 2 \in Nat /\ 64 * e0 \in Nat
    OBVIOUS
  <2>2. v1 \div 2 = (v \div 2) \div 2 + 64 * e0
    BY <2>1, Halves
  <2>3. (v \div 2) \div 2 = v \div 4
    OBVIOUS
  <2> QED BY <2>2, <2>3
<1>2. v2 \div 2 = v \div 8 + 32 * e0 + 64 * e1
  <2>1. v2 = v \div 4 + 2 * (32 * e0 + 64 * e1) /\ v \div 4 \in Nat /\ 32 * e0 + 64 * e1 \in Nat
    BY <1>1
  <2>2. v2 \div 2 = (v \div 4) \div 2 + (32 * e0 + 64 * e1)
    BY <2>1, Halves
  <2>3. (v \div 4) \div 2 = v \div 8
    OBVIOUS
  <2> QED BY <2>2, <2>3
<1>3. v3 \div 2 = v \div 16 + 16 * e0 + 32 * e1 + 64 * e2
  <2>1. /\ v3 = v \div 8 + 2 * (16 * e0 + 32 * e1 + 64 * e2)
        /\ v \div 8 \in Nat /\ 16 * e0 + 32 * e1 + 64 * e2 \in Nat
    BY <1>2
  <2>2. v3 \div 2 = (v \div 8) \div 2 + (16 * e0 + 32 * e1 + 64 * e2)
    BY <2>1, Halves
  <2>3. (v \div 8) \div 2 = v \div 16
    OBVIOUS
  <2> QED BY <2>2, <2>3
<1> QED BY <1>3

\* Four turns shift four bits in from the top.
LEMMA FourStepsRead ==
  ASSUME NEW bits \in Bitmaps, NEW q, Trace(bits, q), NEW k \in 0..28,
         NEW acc \in LoopState, acc.ok => acc.pos = q[k]
  PROVE  LET next == FourSteps(bits, acc)
         IN /\ next \in LoopState
            /\ next.ok <=> /\ acc.ok
                           /\ BitDecodes(bits, q[k]) /\ BitDecodes(bits, q[k + 1])
                           /\ BitDecodes(bits, q[k + 2]) /\ BitDecodes(bits, q[k + 3])
            /\ next.ok =>
                 /\ next.pos = q[k + 4]
                 /\ next.value = acc.value \div 16
                      + 16 * BitAt(bits, q[k]) + 32 * BitAt(bits, q[k + 1])
                      + 64 * BitAt(bits, q[k + 2]) + 128 * BitAt(bits, q[k + 3])
<1> DEFINE b1 == ByteStep(bits, acc)
           b2 == ByteStep(bits, b1)
           b3 == ByteStep(bits, b2)
           b4 == ByteStep(bits, b3)
           d0 == BitDecodes(bits, q[k])
           d1 == BitDecodes(bits, q[k + 1])
           d2 == BitDecodes(bits, q[k + 2])
           d3 == BitDecodes(bits, q[k + 3])
           e0 == BitAt(bits, q[k])
           e1 == BitAt(bits, q[k + 1])
           e2 == BitAt(bits, q[k + 2])
           e3 == BitAt(bits, q[k + 3])
<1>1. FourSteps(bits, acc) = b4
  BY DEF FourSteps, TwoSteps
<1>2. /\ k \in 0..31 /\ k + 1 \in 0..31 /\ k + 2 \in 0..31 /\ k + 3 \in 0..31
      /\ (k + 1) + 1 = k + 2 /\ (k + 2) + 1 = k + 3 /\ (k + 3) + 1 = k + 4
  OBVIOUS
<1>3. /\ b1 \in LoopState /\ (b1.ok <=> acc.ok /\ d0)
      /\ b1.ok => b1.pos = q[k + 1] /\ b1.value = acc.value \div 2 + 128 * e0
  BY <1>2, ByteStepReads
<1>4. /\ b2 \in LoopState /\ (b2.ok <=> b1.ok /\ d1)
      /\ b2.ok => b2.pos = q[k + 2] /\ b2.value = b1.value \div 2 + 128 * e1
  <2> HIDE DEF b1
  <2> QED BY <1>2, <1>3, ByteStepReads
<1>5. /\ b3 \in LoopState /\ (b3.ok <=> b2.ok /\ d2)
      /\ b3.ok => b3.pos = q[k + 3] /\ b3.value = b2.value \div 2 + 128 * e2
  <2> HIDE DEF b1, b2
  <2> QED BY <1>2, <1>4, ByteStepReads
<1>6. /\ b4 \in LoopState /\ (b4.ok <=> b3.ok /\ d3)
      /\ b4.ok => b4.pos = q[k + 4] /\ b4.value = b3.value \div 2 + 128 * e3
  <2> HIDE DEF b1, b2, b3
  <2> QED BY <1>2, <1>5, ByteStepReads
<1>7. e0 \in 0..1 /\ e1 \in 0..1 /\ e2 \in 0..1 /\ e3 \in 0..1 /\ acc.value \in Nat
  BY DEF BitAt, LoopState
<1> HIDE DEF b1, b2, b3, b4, d0, d1, d2, d3, e0, e1, e2, e3
<1>8. b4.ok <=> acc.ok /\ d0 /\ d1 /\ d2 /\ d3
  BY <1>3, <1>4, <1>5, <1>6
<1>9. ASSUME b4.ok
      PROVE  b4.value = acc.value \div 16 + 16 * e0 + 32 * e1 + 64 * e2 + 128 * e3
  <2>1. /\ b1.value = acc.value \div 2 + 128 * e0
        /\ b2.value = b1.value \div 2 + 128 * e1
        /\ b3.value = b2.value \div 2 + 128 * e2
        /\ b4.value = b3.value \div 2 + 128 * e3
    BY <1>3, <1>4, <1>5, <1>6, <1>9
  <2>2. (((acc.value \div 2 + 128 * e0) \div 2 + 128 * e1) \div 2 + 128 * e2) \div 2
          + 128 * e3 = acc.value \div 16 + 16 * e0 + 32 * e1 + 64 * e2 + 128 * e3
    <3> DEFINE v == acc.value
    <3>1. v \in Nat
      BY <1>7
    <3> HIDE DEF v
    <3>2. (((v \div 2 + 128 * e0) \div 2 + 128 * e1) \div 2 + 128 * e2) \div 2 + 128 * e3
            = v \div 16 + 16 * e0 + 32 * e1 + 64 * e2 + 128 * e3
      BY <1>7, <3>1, FourShifts
    <3> QED BY <3>2 DEF v
  <2>3. b4.value = (((acc.value \div 2 + 128 * e0) \div 2 + 128 * e1) \div 2 + 128 * e2)
                     \div 2 + 128 * e3
    <3> DEFINE h0 == 128 * e0
               h1 == 128 * e1
               h2 == 128 * e2
               h3 == 128 * e3
    <3>1. /\ b1.value = acc.value \div 2 + h0 /\ b2.value = b1.value \div 2 + h1
          /\ b3.value = b2.value \div 2 + h2 /\ b4.value = b3.value \div 2 + h3
      BY <2>1
    <3> HIDE DEF h0, h1, h2, h3
    <3>2. b4.value = (((acc.value \div 2 + h0) \div 2 + h1) \div 2 + h2) \div 2 + h3
      BY <3>1, Zenon
    <3> QED BY <3>2 DEF h0, h1, h2, h3
  <2> QED BY <2>2, <2>3, Zenon
<1>10. b4.ok => b4.pos = q[k + 4]
  BY <1>6
<1>11. /\ b4 \in LoopState
       /\ b4.ok <=> acc.ok /\ d0 /\ d1 /\ d2 /\ d3
       /\ b4.ok => /\ b4.pos = q[k + 4]
                   /\ b4.value = acc.value \div 16 + 16 * e0 + 32 * e1 + 64 * e2 + 128 * e3
  BY <1>6, <1>8, <1>9, <1>10
<1> QED BY <1>1, <1>11 DEF d0, d1, d2, d3, e0, e1, e2, e3

\* A byte is read when its eight bits decode, and is then made of them.
LEMMA ByteRead ==
  ASSUME NEW bits \in Bitmaps, NEW q, Trace(bits, q), NEW n \in {0, 8, 16, 24}
  PROVE  LET byte == ByteDecode(bits, q[n])
         IN /\ byte.ok \in BOOLEAN
            /\ byte.ok <=> Readable(bits, q, n)
            /\ byte.ok => byte.pos = q[n + 8] /\ byte.value = ByteAt(ReadBits(bits, q), n)
<1> DEFINE a == ByteStart(q[n])
           b == FourSteps(bits, a)
           c == FourSteps(bits, b)
           f == ReadBits(bits, q)
<1>1. a \in LoopState /\ a.ok /\ a.pos = q[n] /\ a.value = 0
  <2>1. q[n] \in Nat
    BY DEF Trace
  <2> QED BY <2>1 DEF ByteStart, LoopState
<1>2. ByteDecode(bits, q[n]) = c
  BY DEF ByteDecode
<1>3. /\ n \in 0..28 /\ n + 4 \in 0..28 /\ (n + 4) + 4 = n + 8
      /\ (n + 4) + 1 = n + 5 /\ (n + 4) + 2 = n + 6 /\ (n + 4) + 3 = n + 7
  OBVIOUS
<1>4. /\ b \in LoopState
      /\ b.ok <=> /\ BitDecodes(bits, q[n]) /\ BitDecodes(bits, q[n + 1])
                  /\ BitDecodes(bits, q[n + 2]) /\ BitDecodes(bits, q[n + 3])
      /\ b.ok =>
           /\ b.pos = q[n + 4]
           /\ b.value = 0 \div 16 + 16 * BitAt(bits, q[n]) + 32 * BitAt(bits, q[n + 1])
                        + 64 * BitAt(bits, q[n + 2]) + 128 * BitAt(bits, q[n + 3])
  <2> HIDE DEF a
  <2> QED BY <1>1, <1>3, FourStepsRead
<1>5. /\ c \in LoopState
      /\ c.ok <=> /\ b.ok
                  /\ BitDecodes(bits, q[n + 4]) /\ BitDecodes(bits, q[n + 5])
                  /\ BitDecodes(bits, q[n + 6]) /\ BitDecodes(bits, q[n + 7])
      /\ c.ok =>
           /\ c.pos = q[n + 8]
           /\ c.value = b.value \div 16
                + 16 * BitAt(bits, q[n + 4]) + 32 * BitAt(bits, q[n + 5])
                + 64 * BitAt(bits, q[n + 6]) + 128 * BitAt(bits, q[n + 7])
  <2> HIDE DEF b
  <2> QED BY <1>3, <1>4, FourStepsRead
<1>6. \A r \in 0..7 : f[n + r] = BitAt(bits, q[n + r]) /\ f[n + r] \in 0..1
  BY ReadBitsType DEF Bit
<1> HIDE DEF a, b, c, f
<1>7. c.ok <=> Readable(bits, q, n)
  <2>1. c.ok <=> \A r \in 0..7 : BitDecodes(bits, q[n + r])
    BY <1>4, <1>5
  <2>2. Readable(bits, q, n) <=> \A r \in 0..7 : BitDecodes(bits, q[n + r])
    <3>1. ASSUME NEW k \in n..(n + 7) PROVE \E r \in 0..7 : k = n + r
      <4>1. k - n \in 0..7 /\ k = n + (k - n)
        OBVIOUS
      <4> QED BY <4>1
    <3>2. \A r \in 0..7 : n + r \in n..(n + 7)
      OBVIOUS
    <3> QED BY <3>1, <3>2 DEF Readable
  <2> QED BY <2>1, <2>2
<1>8. c.ok => c.value = ByteAt(f, n)
  <2> SUFFICES ASSUME c.ok PROVE c.value = ByteAt(f, n)
    OBVIOUS
  <2>1. b.ok /\ b.value = 16 * f[n] + 32 * f[n + 1] + 64 * f[n + 2] + 128 * f[n + 3]
    BY <1>4, <1>5, <1>6
  <2>2. b.value \div 16 = f[n] + 2 * f[n + 1] + 4 * f[n + 2] + 8 * f[n + 3]
    BY <1>6, <2>1
  <2>3. c.value = b.value \div 16 + 16 * f[n + 4] + 32 * f[n + 5]
                    + 64 * f[n + 6] + 128 * f[n + 7]
    BY <1>5, <1>6
  <2> QED BY <1>6, <2>2, <2>3 DEF ByteAt
<1>9. c.ok \in BOOLEAN /\ (c.ok => c.pos = q[n + 8])
  BY <1>5 DEF LoopState
<1> QED BY <1>2, <1>7, <1>8, <1>9 DEF f

-----------------------------------------------------------------------------
(* The pulses of a frame. *)

\* Positions with the distances the bits f ask for.
Spaced(p, f) ==
  /\ p \in [0..32 -> Nat] /\ p[0] = 0
  /\ \A k \in 0..31 : p[k + 1] = p[k] + 2 + 2 * f[k]

\* The recursion of PulseAt.
LEMMA PulsesSpaced ==
  ASSUME NEW a \in Words, NEW c \in Bytes
  PROVE  Spaced(PulseAt(a, c), FrameBits(a, c))
<1> DEFINE f == FrameBits(a, c)
           F == [i \in 1..32 |-> [x \in Nat |-> x + (IF f[i - 1] = 1 THEN 4 ELSE 2)]]
           IsAt(g) == g = [k \in 0..32 |->
                             IF k = 0 THEN 0
                             ELSE g[k - 1] + (IF FrameBit(a, c, k - 1) = 1 THEN 4 ELSE 2)]
           at == CHOOSE g : IsAt(g)
<1>1. F \in [1..32 -> [Nat -> Nat]]
  <2> DEFINE G(i) == [x \in Nat |-> x + (IF f[i - 1] = 1 THEN 4 ELSE 2)]
  <2>1. \A i \in 1..32 : G(i) \in [Nat -> Nat]
    OBVIOUS
  <2>2. F = [i \in 1..32 |-> G(i)]
    OBVIOUS
  <2> HIDE DEF F, G
  <2> QED BY <2>1, <2>2
<1>2. \A i \in 1..32, x \in Nat : F[i][x] = x + (IF f[i - 1] = 1 THEN 4 ELSE 2)
  <2> DEFINE G(i) == [x \in Nat |-> x + (IF f[i - 1] = 1 THEN 4 ELSE 2)]
  <2>1. F = [i \in 1..32 |-> G(i)]
    OBVIOUS
  <2>2. \A i \in 1..32, x \in Nat : G(i)[x] = x + (IF f[i - 1] = 1 THEN 4 ELSE 2)
    OBVIOUS
  <2> HIDE DEF F, G
  <2> QED BY <2>1, <2>2
<1>3. f \in [0..31 -> Bit] /\ \A k \in 0..31 : f[k] = FrameBit(a, c, k)
  <2>1. \A k \in 0..31 : f[k] = FrameBit(a, c, k)
    BY DEF FrameBits
  <2> HIDE DEF f
  <2> QED BY <2>1, FrameBitsOfFrame DEF f
<1>4. PICK g \in [0..32 -> Nat] : Iterates(g, 0, F, 32)
  <2> HIDE DEF F
  <2> QED BY <1>1, IterationExists
<1> HIDE DEF F, f
<1>5. IsAt(g)
  <2>1. ASSUME NEW k \in 0..32
        PROVE  g[k] = IF k = 0 THEN 0
                      ELSE g[k - 1] + (IF FrameBit(a, c, k - 1) = 1 THEN 4 ELSE 2)
    <3>1. CASE k = 0
      BY <1>4, <3>1 DEF Iterates
    <3>2. CASE k # 0
      <4>1. k \in 1..32 /\ k - 1 \in 0..31 /\ g[k - 1] \in Nat
        BY <3>2
      <4>2. g[k] = F[k][g[k - 1]]
        BY <1>4, <4>1 DEF Iterates
      <4>3. f[k - 1] = FrameBit(a, c, k - 1)
        BY <1>3, <4>1
      <4> QED BY <1>2, <3>2, <4>1, <4>2, <4>3
    <3> QED BY <3>1, <3>2
  <2> QED BY <2>1
<1>6. IsAt(at)
  <2> HIDE DEF IsAt
  <2> QED BY <1>5
<1>7. PulseAt(a, c) = at
  BY DEF PulseAt
<1> HIDE DEF at
<1>8. at[0] = 0 /\ DOMAIN at = 0..32
  BY <1>6
<1>9. ASSUME NEW k \in 0..31 PROVE at[k + 1] = at[k] + (IF f[k] = 1 THEN 4 ELSE 2)
  <2>1. k + 1 \in 0..32 /\ k + 1 # 0 /\ (k + 1) - 1 = k
    OBVIOUS
  <2>2. at[k + 1] = at[k] + (IF FrameBit(a, c, k) = 1 THEN 4 ELSE 2)
    BY <1>6, <2>1
  <2> QED BY <1>3, <2>2
<1>10. at = g
  <2>1. DOMAIN g = 0..32
    OBVIOUS
  <2> DEFINE S == {k \in Nat : k <= 32 => at[k] = g[k]}
  <2>2. 0 \in S
    BY <1>8, <1>4 DEF Iterates
  <2>3. ASSUME NEW k \in Nat, k \in S PROVE k + 1 \in S
    <3> SUFFICES ASSUME k + 1 <= 32 PROVE at[k + 1] = g[k + 1]
      OBVIOUS
    <3>1. k \in 0..31 /\ k + 1 \in 1..32 /\ (k + 1) - 1 = k /\ at[k] = g[k] /\ g[k] \in Nat
      BY <2>3
    <3>2. g[k + 1] = F[k + 1][g[k]]
      BY <1>4, <3>1 DEF Iterates
    <3>3. F[k + 1][g[k]] = g[k] + (IF f[k] = 1 THEN 4 ELSE 2)
      BY <1>2, <3>1
    <3> QED BY <1>9, <3>1, <3>2, <3>3
  <2>4. Nat \subseteq S
    <3> HIDE DEF S
    <3> QED BY <2>2, <2>3, NumberInduction
  <2>5. \A k \in 0..32 : at[k] = g[k]
    BY <2>4
  <2> QED BY <1>6, <1>8, <2>1, <2>5
<1>11. ASSUME NEW k \in 0..31 PROVE at[k + 1] = at[k] + 2 + 2 * f[k]
  <2>1. f[k] = 0 \/ f[k] = 1
    BY <1>3 DEF Bit
  <2>2. at[k] \in Nat
    BY <1>10
  <2> QED BY <1>9, <2>1, <2>2
<1> QED BY <1>7, <1>8, <1>10, <1>11 DEF Spaced, f

\* Such positions are even and ordered.
LEMMA SpacedOrder ==
  ASSUME NEW f \in [0..31 -> Bit], NEW p, Spaced(p, f)
  PROVE  /\ \A k \in 0..32 : p[k] \in Nat /\ p[k] % 2 = 0
         /\ \A j \in 0..31, k \in 0..32 : j < k => p[j + 1] <= p[k]
<1>1. \A k \in 0..31 : f[k] \in 0..1 /\ p[k + 1] = p[k] + 2 + 2 * f[k]
  BY DEF Spaced, Bit
<1>2. p[0] = 0 /\ \A k \in 0..32 : p[k] \in Nat
  BY DEF Spaced
<1>3. \A k \in 0..32 : p[k] % 2 = 0
  <2> DEFINE S == {k \in Nat : k <= 32 => p[k] % 2 = 0}
  <2>1. 0 \in S
    BY <1>2
  <2>2. ASSUME NEW k \in Nat, k \in S PROVE k + 1 \in S
    <3> SUFFICES ASSUME k + 1 <= 32 PROVE p[k + 1] % 2 = 0
      OBVIOUS
    <3>1. k \in 0..31 /\ p[k] % 2 = 0 /\ p[k] \in Nat
      BY <1>2, <2>2
    <3>2. f[k] \in 0..1 /\ p[k + 1] = p[k] + 2 + 2 * f[k]
      BY <1>1, <3>1
    <3> QED BY <3>1, <3>2
  <2>3. Nat \subseteq S
    <3> HIDE DEF S
    <3> QED BY <2>1, <2>2, NumberInduction
  <2> QED BY <2>3
<1>4. \A j \in 0..31, k \in 0..32 : j < k => p[j + 1] <= p[k]
  <2> DEFINE S == {k \in Nat : k <= 32 => \A j \in 0..31 : j < k => p[j + 1] <= p[k]}
  <2>1. 0 \in S
    OBVIOUS
  <2>2. ASSUME NEW k \in Nat, k \in S PROVE k + 1 \in S
    <3> SUFFICES ASSUME k + 1 <= 32, NEW j \in 0..31, j < k + 1
                 PROVE  p[j + 1] <= p[k + 1]
      OBVIOUS
    <3>1. k \in 0..31 /\ f[k] \in 0..1 /\ p[k + 1] = p[k] + 2 + 2 * f[k]
      BY <1>1
    <3>2. p[k] \in Nat /\ p[k + 1] \in Nat /\ p[j + 1] \in Nat
      <4>1. k \in 0..32 /\ k + 1 \in 0..32 /\ j + 1 \in 0..32
        BY <3>1
      <4> QED BY <1>2, <4>1
    <3>3. j < k => p[j + 1] <= p[k]
      BY <2>2, <3>1
    <3>4. j < k \/ j = k
      OBVIOUS
    <3> QED BY <3>1, <3>2, <3>3, <3>4
  <2>3. Nat \subseteq S
    <3> HIDE DEF S
    <3> QED BY <2>1, <2>2, NumberInduction
  <2> QED BY <2>3
<1> QED BY <1>2, <1>3, <1>4

\* The same of two positions, with inequalities in place of the intervals.
LEMMA PulseBefore ==
  ASSUME NEW f \in [0..31 -> Bit], NEW p, Spaced(p, f)
  PROVE  \A j, k \in Nat : j < k /\ k <= 32 =>
           p[j] \in Nat /\ p[k] \in Nat /\ p[j + 1] \in Nat /\ p[j + 1] <= p[k]
<1> SUFFICES ASSUME NEW j \in Nat, NEW k \in Nat, j < k, k <= 32
             PROVE  /\ p[j] \in Nat /\ p[k] \in Nat /\ p[j + 1] \in Nat
                    /\ p[j + 1] <= p[k]
  OBVIOUS
<1>1. j \in 0..31 /\ j \in 0..32 /\ k \in 0..32 /\ j + 1 \in 0..32
  OBVIOUS
<1>2. \A i \in 0..32 : p[i] \in Nat
  BY SpacedOrder
<1>3. p[j + 1] <= p[k]
  BY <1>1, SpacedOrder
<1> QED BY <1>1, <1>2, <1>3

IsPulse(p, x) == \E k \in 0..32 : p[k] = x

\* Even numbers are not an odd number apart.
LEMMA EvenApart ==
  ASSUME NEW x \in Nat, NEW y \in Nat, x % 2 = 0, y % 2 = 0
  PROVE  x # y + 1 /\ x # y + 3
OBVIOUS

\* Which units around a pulse hold another one.
LEMMA PulsesAround ==
  ASSUME NEW f \in [0..31 -> Bit], NEW p, Spaced(p, f), NEW k \in 0..31
  PROVE  /\ IsPulse(p, p[k]) /\ ~IsPulse(p, p[k] + 1) /\ ~IsPulse(p, p[k] + 3)
         /\ IsPulse(p, p[k] + 2) <=> f[k] = 0
<1>1. p[k] \in Nat /\ p[k] % 2 = 0 /\ f[k] \in 0..1 /\ p[k + 1] = p[k] + 2 + 2 * f[k]
  <2>1. p[k] \in Nat /\ p[k] % 2 = 0
    BY SpacedOrder
  <2>2. f[k] \in 0..1 /\ p[k + 1] = p[k] + 2 + 2 * f[k]
    BY DEF Spaced, Bit
  <2> QED BY <2>1, <2>2
<1>2. IsPulse(p, p[k])
  BY DEF IsPulse
<1>3. ASSUME NEW j \in 0..32 PROVE p[j] # p[k] + 1 /\ p[j] # p[k] + 3
  <2>1. p[j] \in Nat /\ p[j] % 2 = 0
    BY SpacedOrder
  <2> QED BY <1>1, <2>1, EvenApart
<1>4. ASSUME f[k] = 0 PROVE IsPulse(p, p[k] + 2)
  <2>1. k + 1 \in 0..32 /\ p[k + 1] = p[k] + 2
    BY <1>1, <1>4
  <2> QED BY <2>1 DEF IsPulse
<1>5. ASSUME f[k] # 0, NEW j \in 0..32 PROVE p[j] # p[k] + 2
  <2>1. p[k + 1] = p[k] + 4 /\ p[j] \in Nat
    <3>1. p[j] \in Nat
      BY SpacedOrder
    <3> QED BY <1>1, <1>5, <3>1
  <2>2. CASE j > k
    <3>1. p[k + 1] <= p[j]
      <4>1. j \in Nat /\ k \in Nat /\ k < j /\ j <= 32
        BY <2>2
      <4> QED BY <4>1, PulseBefore
    <3> QED BY <1>1, <2>1, <3>1
  <2>3. CASE j = k
    BY <1>1, <2>3
  <2>4. CASE j < k
    <3>1. j \in 0..31 /\ p[j + 1] <= p[k] /\ p[j + 1] = p[j] + 2 + 2 * f[j] /\ f[j] \in 0..1
      <4>1. j \in Nat /\ k \in Nat /\ j < k /\ k <= 32 /\ j \in 0..31
        BY <2>4
      <4>2. p[j + 1] <= p[k]
        BY <4>1, PulseBefore
      <4>3. p[j + 1] = p[j] + 2 + 2 * f[j] /\ f[j] \in 0..1
        BY <4>1 DEF Spaced, Bit
      <4> QED BY <4>1, <4>2, <4>3
    <3> QED BY <1>1, <2>1, <3>1
  <2> QED BY <2>2, <2>3, <2>4
<1> QED BY <1>2, <1>3, <1>4, <1>5 DEF IsPulse

\* Nothing comes after the closing pulse.
LEMMA PulsesEnd ==
  ASSUME NEW f \in [0..31 -> Bit], NEW p, Spaced(p, f), NEW x \in Nat
  PROVE  /\ IsPulse(p, p[32])
         /\ x > p[32] => ~IsPulse(p, x)
<1>1. ASSUME NEW j \in 0..32 PROVE p[j] <= p[32]
  <2>1. CASE j = 32
    BY <2>1, SpacedOrder
  <2>2. CASE j # 32
    <3>1. j \in 0..31 /\ p[j] \in Nat /\ p[32] \in Nat /\ p[j + 1] <= p[32]
      BY <2>2, SpacedOrder
    <3>2. p[j + 1] = p[j] + 2 + 2 * f[j] /\ f[j] \in 0..1
      BY <3>1 DEF Spaced, Bit
    <3> QED BY <3>1, <3>2
  <2> QED BY <2>1, <2>2
<1>2. p[32] \in Nat /\ \A j \in 0..32 : p[j] \in Nat
  BY SpacedOrder
<1> QED BY <1>1, <1>2 DEF IsPulse

\* What is measured of a frame.
LEMMA MeasuredUnits ==
  ASSUME NEW t
  PROVE  /\ Measured(t) \in Bitmaps
         /\ \A x \in Nat :
              BitmapValue(Measured(t), x) <=>
                /\ x < NumberOfBits
                /\ IsPulse(PulseAt(t.address, t.command), x) <=> x # t.corrupt
<1> DEFINE at == PulseAt(t.address, t.command)
           pulses == {at[k] : k \in 0..32}
<1>1. Measured(t) = [i \in 0..(NumberOfBits - 1) |-> (i \in pulses) # (i = t.corrupt)]
  BY DEF Measured
<1>2. \A x : x \in pulses <=> IsPulse(at, x)
  BY DEF IsPulse
<1> HIDE DEF at, pulses
<1>3. \A i \in 0..(NumberOfBits - 1) : ((i \in pulses) # (i = t.corrupt)) \in BOOLEAN
  BY Zenon
<1>4. Measured(t) \in Bitmaps
  BY <1>1, <1>3, Zenon DEF Bitmaps
<1>5. ASSUME NEW x \in Nat
      PROVE  BitmapValue(Measured(t), x) <=>
               x < NumberOfBits /\ (IsPulse(at, x) <=> x # t.corrupt)
  <2>1. CASE x < NumberOfBits
    <3>1. x \in 0..(NumberOfBits - 1)
      BY <2>1 DEF NumberOfBits
    <3>2. Measured(t)[x] = ((x \in pulses) # (x = t.corrupt))
      BY <1>1, <3>1, Zenon
    <3>3. BitmapValue(Measured(t), x) <=> Measured(t)[x]
      BY <2>1 DEF BitmapValue
    <3>4. ((x \in pulses) # (x = t.corrupt)) <=> (IsPulse(at, x) <=> x # t.corrupt)
      <4>1. ((x \in pulses) # (x = t.corrupt)) <=> (x \in pulses <=> x # t.corrupt)
        BY SMT
      <4> QED BY <1>2, <4>1, Zenon
    <3> QED BY <2>1, <3>2, <3>3, <3>4, Zenon
  <2>2. CASE ~(x < NumberOfBits)
    BY <2>2, Zenon DEF BitmapValue
  <2> QED BY <2>1, <2>2
<1> QED BY <1>4, <1>5 DEF at

-----------------------------------------------------------------------------
(* The inductive invariant. *)

\* What a frame in progress was measured of.
SentInv ==
  step # "idle" => sent \in Transmissions /\ received_bits = Measured(sent)

\* The calls of ir_decode_command read the bytes at the positions q, up to the
\* first that fails.
Reading(q) ==
  LET f == ReadBits(received_bits, q)
  IN /\ step = "word" => bit_index = 0
     /\ step \in {"command", "i_command", "check", "done"} =>
          /\ word_ok <=> Readable(received_bits, q, 0) /\ Readable(received_bits, q, 8)
          /\ word_ok => address = ByteAt(f, 8) * 256 + ByteAt(f, 0)
     /\ step = "command" /\ word_ok => bit_index = q[16]
     /\ step \in {"i_command", "check", "done"} /\ word_ok =>
          /\ command_ok <=> Readable(received_bits, q, 16)
          /\ command_ok => command = ByteAt(f, 16)
     /\ step = "i_command" /\ word_ok /\ command_ok => bit_index = q[24]
     /\ step \in {"check", "done"} /\ word_ok /\ command_ok =>
          /\ i_command_ok <=> Readable(received_bits, q, 24)
          /\ i_command_ok => i_command = ByteAt(f, 24)
     /\ step = "done" => (accepted <=> command + i_command = 255)

ReadInv == \A q : Trace(received_bits, q) => Reading(q)

NecInv == IInv /\ SentInv /\ ReadInv

\* The address is read from the first two bytes.
LEMMA WordReads ==
  ASSUME received_bits \in Bitmaps, DecodeWord, NEW q, Trace(received_bits, q), Reading(q)
  PROVE  Reading(q)'
<1> DEFINE bits == received_bits
           f == ReadBits(bits, q)
           low == ByteDecode(bits, bit_index)
           high == ByteDecode(bits, low.pos)
<1>1. /\ step = "word" /\ step' = "command" /\ received_bits' = bits
      /\ word_ok' = (low.ok /\ high.ok)
      /\ bit_index' = IF low.ok THEN high.pos ELSE low.pos
      /\ address' = IF low.ok /\ high.ok THEN high.value * 256 + low.value ELSE address
  BY DEF DecodeWord
<1>2. bit_index = q[0]
  BY <1>1 DEF Reading, Trace
<1>3. 0 \in {0, 8, 16, 24} /\ 8 \in {0, 8, 16, 24} /\ 0 + 8 = 8 /\ 8 + 8 = 16
  OBVIOUS
<1>4. /\ low.ok \in BOOLEAN /\ (low.ok <=> Readable(bits, q, 0))
      /\ low.ok => low.pos = q[8] /\ low.value = ByteAt(f, 0)
  BY <1>2, <1>3, ByteRead
<1> HIDE DEF low
<1>5. low.ok =>
        /\ high.ok \in BOOLEAN /\ (high.ok <=> Readable(bits, q, 8))
        /\ high.ok => high.pos = q[16] /\ high.value = ByteAt(f, 8)
  <2> SUFFICES ASSUME low.ok
               PROVE  /\ high.ok \in BOOLEAN /\ (high.ok <=> Readable(bits, q, 8))
                      /\ high.ok => high.pos = q[16] /\ high.value = ByteAt(f, 8)
    OBVIOUS
  <2>1. high = ByteDecode(bits, q[8])
    BY <1>4
  <2> HIDE DEF high
  <2> QED BY <1>3, <2>1, ByteRead
<1> HIDE DEF high
<1>6. word_ok' <=> Readable(bits, q, 0) /\ Readable(bits, q, 8)
  BY <1>1, <1>4, <1>5
<1>7. word_ok' => /\ address' = ByteAt(f, 8) * 256 + ByteAt(f, 0)
                  /\ bit_index' = q[16]
  BY <1>1, <1>4, <1>5
<1> QED BY <1>1, <1>6, <1>7 DEF Reading, f

\* The command is read behind the address.
LEMMA CommandReads ==
  ASSUME received_bits \in Bitmaps, DecodeByteCommand,
         NEW q, Trace(received_bits, q), Reading(q)
  PROVE  Reading(q)'
<1> DEFINE bits == received_bits
           f == ReadBits(bits, q)
           byte == ByteDecode(bits, bit_index)
<1>1. /\ step = "command" /\ step' = "i_command"
      /\ command_ok' = byte.ok /\ bit_index' = byte.pos
      /\ command' = IF byte.ok THEN byte.value ELSE command
      /\ UNCHANGED <<received_bits, address, i_command, word_ok, i_command_ok, accepted>>
  BY DEF DecodeByteCommand
<1>2. 16 \in {0, 8, 16, 24} /\ 16 + 8 = 24
  OBVIOUS
<1>3. word_ok => /\ byte.ok <=> Readable(bits, q, 16)
                 /\ byte.ok => byte.pos = q[24] /\ byte.value = ByteAt(f, 16)
  <2> SUFFICES ASSUME word_ok
               PROVE  /\ byte.ok <=> Readable(bits, q, 16)
                      /\ byte.ok => byte.pos = q[24] /\ byte.value = ByteAt(f, 16)
    OBVIOUS
  <2>1. byte = ByteDecode(bits, q[16])
    BY <1>1 DEF Reading
  <2> HIDE DEF byte
  <2> QED BY <1>2, <2>1, ByteRead
<1> HIDE DEF byte
<1>4. word_ok' => /\ command_ok' <=> Readable(bits, q, 16)
                  /\ command_ok' => command' = ByteAt(f, 16) /\ bit_index' = q[24]
  BY <1>1, <1>3
<1>5. /\ word_ok' <=> Readable(bits, q, 0) /\ Readable(bits, q, 8)
      /\ word_ok' => address' = ByteAt(f, 8) * 256 + ByteAt(f, 0)
  BY <1>1 DEF Reading
<1> QED BY <1>1, <1>4, <1>5 DEF Reading, f

\* The complement is read behind the command.
LEMMA InverseReads ==
  ASSUME received_bits \in Bitmaps, DecodeByteInverse,
         NEW q, Trace(received_bits, q), Reading(q)
  PROVE  Reading(q)'
<1> DEFINE bits == received_bits
           f == ReadBits(bits, q)
           byte == ByteDecode(bits, bit_index)
<1>1. /\ step = "i_command" /\ step' = "check"
      /\ i_command_ok' = byte.ok /\ bit_index' = byte.pos
      /\ i_command' = IF byte.ok THEN byte.value ELSE i_command
      /\ UNCHANGED <<received_bits, address, command, word_ok, command_ok, accepted>>
  BY DEF DecodeByteInverse
<1>2. 24 \in {0, 8, 16, 24}
  OBVIOUS
<1>3. word_ok /\ command_ok =>
        /\ byte.ok <=> Readable(bits, q, 24)
        /\ byte.ok => byte.value = ByteAt(f, 24)
  <2> SUFFICES ASSUME word_ok, command_ok
               PROVE  /\ byte.ok <=> Readable(bits, q, 24)
                      /\ byte.ok => byte.value = ByteAt(f, 24)
    OBVIOUS
  <2>1. byte = ByteDecode(bits, q[24])
    BY <1>1 DEF Reading
  <2> HIDE DEF byte
  <2> QED BY <1>2, <2>1, ByteRead
<1> HIDE DEF byte
<1>4. word_ok' /\ command_ok' =>
        /\ i_command_ok' <=> Readable(bits, q, 24)
        /\ i_command_ok' => i_command' = ByteAt(f, 24)
  BY <1>1, <1>3
<1>5. /\ word_ok' <=> Readable(bits, q, 0) /\ Readable(bits, q, 8)
      /\ word_ok' => /\ address' = ByteAt(f, 8) * 256 + ByteAt(f, 0)
                     /\ command_ok' <=> Readable(bits, q, 16)
                     /\ command_ok' => command' = ByteAt(f, 16)
  BY <1>1 DEF Reading
<1> QED BY <1>1, <1>4, <1>5 DEF Reading, f

\* Whatever step the decoder makes.
LEMMA DecodeReads ==
  ASSUME received_bits \in Bitmaps, DecodeCommand, ReadInv
  PROVE  ReadInv'
<1>1. received_bits' = received_bits
  BY DEF DecodeCommand, DecodeWord, DecodeByteCommand, DecodeByteInverse, Check
<1> SUFFICES ASSUME NEW q, Trace(received_bits, q) PROVE Reading(q)'
  BY <1>1 DEF ReadInv
<1>2. Reading(q)
  BY DEF ReadInv
<1>3. CASE DecodeWord
  BY <1>2, <1>3, WordReads
<1>4. CASE DecodeByteCommand
  BY <1>2, <1>4, CommandReads
<1>5. CASE DecodeByteInverse
  BY <1>2, <1>5, InverseReads
<1>6. CASE Check
  BY <1>2, <1>6 DEF Check, Reading
<1> QED BY <1>3, <1>4, <1>5, <1>6 DEF DecodeCommand

\* A frame of the remote is a frame of the decoder.
LEMMA NecNextIsNext == NecNext => Next
<1> SUFFICES ASSUME NecNext PROVE Next
  OBVIOUS
<1>1. ASSUME NEW t \in Transmissions, FrameReceived(Measured(t)) PROVE Next
  BY <1>1, MeasuredUnits DEF Next
<1> QED BY <1>1 DEF NecNext, Send, Next

\* The invariant holds before the first frame.
LEMMA NecInitInv == NecInit => NecInv
<1> SUFFICES ASSUME NecInit PROVE NecInv
  OBVIOUS
<1>1. IInv
  BY InitInv DEF NecInit
<1>2. step = "idle"
  BY DEF NecInit, Init
<1>3. SentInv /\ ReadInv
  BY <1>2 DEF SentInv, ReadInv, Reading
<1> QED BY <1>1, <1>3 DEF NecInv

\* Every step keeps the invariant.
LEMMA NecNextInv == NecInv /\ [NecNext]_<<vars, sent>> => NecInv'
<1> SUFFICES ASSUME NecInv, [NecNext]_<<vars, sent>> PROVE NecInv'
  OBVIOUS
<1>1. IInv'
  <2>1. [Next]_vars
    BY NecNextIsNext
  <2> QED BY <2>1, NextInv DEF NecInv
<1>2. CASE Send
  <2>1. PICK t \in Transmissions : FrameReceived(Measured(t)) /\ sent' = t
    BY <1>2 DEF Send
  <2>2. /\ step' = "word" /\ received_bits' = Measured(t) /\ bit_index' = 0
    BY <2>1 DEF FrameReceived, FreshLocals
  <2> QED BY <1>1, <2>1, <2>2 DEF NecInv, SentInv, ReadInv, Reading
<1>3. CASE DecodeCommand /\ UNCHANGED sent
  <2>1. received_bits \in Bitmaps
    BY DEF NecInv, IInv, TypeOK
  <2>2. ReadInv'
    BY <1>3, <2>1, DecodeReads DEF NecInv
  <2>3. received_bits' = received_bits /\ step # "idle"
    BY <1>3 DEF DecodeCommand, DecodeWord, DecodeByteCommand, DecodeByteInverse, Check
  <2>4. SentInv'
    BY <1>3, <2>3 DEF NecInv, SentInv
  <2> QED BY <1>1, <2>2, <2>4 DEF NecInv
<1>4. CASE Return
  <2>1. step' = "idle"
    BY <1>4 DEF Return
  <2> QED BY <1>1, <2>1 DEF NecInv, SentInv, ReadInv, Reading
<1>5. CASE UNCHANGED <<vars, sent>>
  BY <1>1, <1>5 DEF vars, NecInv, SentInv, ReadInv, Reading
<1> QED BY <1>2, <1>3, <1>4, <1>5 DEF NecNext

\* The inductive invariant holds of every execution, whatever the remote sends.
THEOREM NecInvariance == NecSpec => []NecInv
<1> QED BY NecInitInv, NecNextInv, PTL DEF NecSpec

\* A remote in front of it: the decoder's own properties hold, because what is
\* measured of a frame, corrupted or not, is a bitmap (ir.c:83-203).
THEOREM NecDecoderSafe == NecSpec => [](TypeOK /\ IndexNeverWraps /\ FailuresRejected)
<1>1. NecInv => TypeOK /\ IndexNeverWraps /\ FailuresRejected
  BY DEF NecInv, IInv, FailureInv, FailuresRejected, TypeOK, Bytes
<1> QED BY <1>1, NecInvariance, PTL

-----------------------------------------------------------------------------
(* An undisturbed frame. *)

\* The types of what is sent.
LEMMA TransmissionType ==
  ASSUME NEW t \in Transmissions
  PROVE  t.address \in Words /\ t.command \in Bytes /\ t.corrupt \in 0..NumberOfBits
<1>1. t.corrupt \in 0..NumberOfBits
  BY DEF Transmissions, Intact, NumberOfBits
<1>2. t.address \in Addresses /\ t.command \in SentCommands \cup CorruptedCommands
  BY DEF Transmissions
<1> QED BY <1>1, <1>2, SentAssumption

\* The pulses of a frame that fits into the bitmap, but for the closing one.
LEMMA PulsesInside ==
  ASSUME NEW f \in [0..31 -> Bit], NEW p, Spaced(p, f), p[32] <= NumberOfBits,
         NEW k \in 0..31
  PROVE  /\ p[k] \in Nat /\ p[k] + 2 <= NumberOfBits
         /\ k # 31 => p[k] + 2 < NumberOfBits
<1>1. /\ p[k] \in Nat /\ p[31] \in Nat /\ p[32] \in Nat /\ p[k + 1] \in Nat
      /\ 31 < 32 => p[31 + 1] <= p[32]
      /\ k < 31 => p[k + 1] <= p[31]
      /\ k < 32 => p[k + 1] <= p[32]
  <2>1. k + 1 \in 0..32 /\ 31 \in 0..31 /\ 31 \in 0..32 /\ 32 \in 0..32
    OBVIOUS
  <2> QED BY <2>1, SpacedOrder
<1>2. /\ p[k + 1] = p[k] + 2 + 2 * f[k] /\ f[k] \in 0..1
      /\ p[31 + 1] = p[31] + 2 + 2 * f[31] /\ f[31] \in 0..1
  BY DEF Spaced, Bit
<1> QED BY <1>1, <1>2 DEF NumberOfBits

\* Every bit of such a frame is read as it was sent from where its pulse is.
LEMMA IntactBit ==
  ASSUME NEW t \in Transmissions, t.corrupt = Intact, Fits(t), NEW k \in 0..31
  PROVE  LET p == PulseAt(t.address, t.command)
         IN /\ BitDecodes(Measured(t), p[k])
            /\ BitAt(Measured(t), p[k]) = FrameBits(t.address, t.command)[k]
<1> DEFINE a == t.address
           c == t.command
           p == PulseAt(a, c)
           f == FrameBits(a, c)
           bits == Measured(t)
<1>1. a \in Words /\ c \in Bytes
  BY TransmissionType
<1>2. p[32] < NumberOfBits \/ (p[32] = NumberOfBits /\ c < 128)
  BY DEF Fits, FrameLength
<1>3. \A x \in Nat : BitmapValue(bits, x) <=> x < NumberOfBits /\ IsPulse(p, x)
  <2>1. \A x \in Nat : x < NumberOfBits => x # t.corrupt
    BY DEF Intact, NumberOfBits
  <2> QED BY <2>1, MeasuredUnits
<1> HIDE DEF a, c
<1>4. f \in [0..31 -> Bit] /\ ByteAt(f, 16) = c /\ \A r \in 0..7 : f[24 + r] = 1 - f[16 + r]
  BY <1>1, FrameBitsOfFrame
<1>5. Spaced(p, f)
  BY <1>1, PulsesSpaced
<1> HIDE DEF p, f, bits
<1>6. c < 128 => f[31] = 1
  <2>1. /\ f[16] \in 0..1 /\ f[17] \in 0..1 /\ f[18] \in 0..1 /\ f[19] \in 0..1
        /\ f[20] \in 0..1 /\ f[21] \in 0..1 /\ f[22] \in 0..1 /\ f[23] \in 0..1
    BY <1>4 DEF Bit
  <2>2. f[24 + 7] = 1 - f[16 + 7]
    BY <1>4
  <2>3. c < 128 => f[23] = 0
    BY <1>4, <2>1 DEF ByteAt
  <2> QED BY <2>2, <2>3
<1>7. /\ p[k] \in Nat /\ p[k] + 2 <= NumberOfBits
      /\ k # 31 => p[k] + 2 < NumberOfBits
  <2>1. p[32] \in Nat
    BY <1>5 DEF Spaced
  <2>2. p[32] <= NumberOfBits
    BY <1>2, <2>1 DEF NumberOfBits
  <2> QED BY <1>4, <1>5, <2>2, PulsesInside
<1>8. /\ IsPulse(p, p[k]) /\ ~IsPulse(p, p[k] + 1) /\ ~IsPulse(p, p[k] + 3)
      /\ IsPulse(p, p[k] + 2) <=> f[k] = 0
  BY <1>4, <1>5, PulsesAround
<1>9. f[k] = 0 => p[k] + 2 < NumberOfBits
  <2> SUFFICES ASSUME f[k] = 0, k = 31 PROVE p[k] + 2 < NumberOfBits
    BY <1>7
  <2>1. p[32] < NumberOfBits
    BY <1>2, <1>6
  <2>2. p[31 + 1] = p[31] + 2 + 2 * f[31]
    BY <1>5 DEF Spaced
  <2> QED BY <1>7, <2>1, <2>2
<1>10. /\ BitmapValue(bits, p[k]) /\ ~BitmapValue(bits, p[k] + 1)
       /\ ~BitmapValue(bits, p[k] + 3)
       /\ BitmapValue(bits, p[k] + 2) <=> f[k] = 0
  <2>1. p[k] < NumberOfBits /\ p[k] + 1 \in Nat /\ p[k] + 2 \in Nat /\ p[k] + 3 \in Nat
    BY <1>7 DEF NumberOfBits
  <2> QED BY <1>3, <1>7, <1>8, <1>9, <2>1
<1>11. f[k] = 0 \/ f[k] = 1
  BY <1>4 DEF Bit
<1>12. BitDecodes(bits, p[k]) /\ BitAt(bits, p[k]) = f[k]
  BY <1>10, <1>11 DEF BitDecodes, BitAt, BitValue
<1> QED BY <1>12 DEF p, f, bits, a, c

\* So the decoder follows the pulses, and reads the whole frame.
LEMMA IntactRead ==
  ASSUME NEW t \in Transmissions, t.corrupt = Intact, Fits(t),
         NEW q, Trace(Measured(t), q)
  PROVE  \A k \in 0..31 :
           /\ BitDecodes(Measured(t), q[k])
           /\ BitAt(Measured(t), q[k]) = FrameBits(t.address, t.command)[k]
<1> DEFINE p == PulseAt(t.address, t.command)
           f == FrameBits(t.address, t.command)
           bits == Measured(t)
           S == {k \in Nat : k <= 32 => q[k] = p[k]}
<1>1. Spaced(p, f)
  BY TransmissionType, PulsesSpaced
<1>2. \A k \in 0..31 : BitDecodes(bits, p[k]) /\ BitAt(bits, p[k]) = f[k]
  BY IntactBit
<1> HIDE DEF p, f, bits
<1>3. Trace(bits, q)
  BY DEF bits
<1>4. 0 \in S
  BY <1>1, <1>3 DEF Spaced, Trace
<1>5. ASSUME NEW k \in Nat, k \in S PROVE k + 1 \in S
  <2> SUFFICES ASSUME k + 1 <= 32 PROVE q[k + 1] = p[k + 1]
    OBVIOUS
  <2>1. k \in 0..31 /\ q[k] = p[k]
    BY <1>5
  <2>2. q[k + 1] = q[k] + 2 + 2 * BitAt(bits, q[k]) /\ p[k + 1] = p[k] + 2 + 2 * f[k]
    BY <1>1, <1>3, <2>1 DEF Spaced, Trace
  <2>3. BitAt(bits, p[k]) = f[k]
    BY <1>2, <2>1
  <2> QED BY <2>1, <2>2, <2>3
<1>6. Nat \subseteq S
  <2> HIDE DEF S
  <2> QED BY <1>4, <1>5, NumberInduction
<1>7. \A k \in 0..31 : q[k] = p[k]
  BY <1>6
<1>8. \A k \in 0..31 : BitDecodes(bits, q[k]) /\ BitAt(bits, q[k]) = f[k]
  BY <1>2, <1>7
<1> QED BY <1>8 DEF bits, f

\* Two bytes of an address make the address.
LEMMA AddressOfBytes ==
  ASSUME NEW a \in Words
  PROVE  (a \div 256) * 256 + (a % 256) = a
<1>1. a \in Nat
  BY WordRange
<1>2. 256 * (a \div 256) + (a % 256) = a
  BY <1>1
<1> DEFINE q == a \div 256
           r == a % 256
<1>3. q \in Int /\ r \in Int /\ 256 * q + r = a
  BY <1>1, <1>2
<1> HIDE DEF q, r
<1>4. q * 256 + r = a
  BY <1>3
<1> QED BY <1>4 DEF q, r

\* An undisturbed frame that fits is delivered.
LEMMA FittingStep == NecInv => FittingDelivered
<1> SUFFICES ASSUME NecInv, step = "done", sent.corrupt = Intact, Fits(sent)
             PROVE  DeliveredAsSent
  BY DEF FittingDelivered
<1> DEFINE a == sent.address
           c == sent.command
           s == FrameBits(a, c)
           bits == received_bits
<1>1. sent \in Transmissions /\ bits = Measured(sent)
  BY DEF NecInv, SentInv
<1>2. PICK q : Trace(bits, q)
  BY TraceExists
<1>3. Reading(q)
  BY <1>2 DEF NecInv, ReadInv
<1>4. \A k \in 0..31 : BitDecodes(bits, q[k]) /\ BitAt(bits, q[k]) = s[k]
  BY <1>1, <1>2, IntactRead
<1>5. a \in Words /\ c \in Bytes
  BY <1>1, TransmissionType
<1> DEFINE f == ReadBits(bits, q)
<1>6. \A k \in 0..31 : f[k] = s[k]
  BY <1>4, ReadBitsType
<1> HIDE DEF a, c
<1>7. /\ ByteAt(s, 0) = a % 256 /\ ByteAt(s, 8) = a \div 256
      /\ ByteAt(s, 16) = c /\ ByteAt(s, 24) = 255 - c
  BY <1>5, FrameBitsOfFrame
<1> HIDE DEF s, f
<1>8. /\ ByteAt(f, 0) = ByteAt(s, 0) /\ ByteAt(f, 8) = ByteAt(s, 8)
      /\ ByteAt(f, 16) = ByteAt(s, 16) /\ ByteAt(f, 24) = ByteAt(s, 24)
  BY <1>6 DEF ByteAt
<1>9. /\ Readable(bits, q, 0) /\ Readable(bits, q, 8)
      /\ Readable(bits, q, 16) /\ Readable(bits, q, 24)
  BY <1>4 DEF Readable
<1>10. word_ok /\ address = ByteAt(f, 8) * 256 + ByteAt(f, 0)
  BY <1>3, <1>9 DEF Reading, f
<1>11. command_ok /\ command = ByteAt(f, 16)
  BY <1>3, <1>9, <1>10 DEF Reading, f
<1>12. i_command_ok /\ i_command = ByteAt(f, 24)
  BY <1>3, <1>9, <1>10, <1>11 DEF Reading, f
<1>13. address = a /\ command = c /\ command + i_command = 255
  <2>1. c + (255 - c) = 255
    BY <1>5 DEF Bytes
  <2>2. address = (a \div 256) * 256 + (a % 256)
    <3> DEFINE h == a \div 256
               l == a % 256
    <3>1. ByteAt(f, 8) = h /\ ByteAt(f, 0) = l
      BY <1>7, <1>8
    <3> HIDE DEF h, l
    <3>2. address = h * 256 + l
      BY <1>10, <3>1
    <3> QED BY <3>2 DEF h, l
  <2>3. address = a
    BY <1>5, <2>2, AddressOfBytes
  <2>4. command = c /\ i_command = 255 - c
    BY <1>7, <1>8, <1>11, <1>12
  <2> QED BY <2>1, <2>3, <2>4
<1>14. accepted
  BY <1>3, <1>13 DEF Reading
<1> QED BY <1>13, <1>14 DEF DeliveredAsSent, a, c

\* The codes that mean a key.
LEMMA KeyCodes ==
  ASSUME NEW a, NEW c, KeyOf(a, c) # "none"
  PROVE  \/ a = Remote1Address /\ c \in {80, 81, 82, 83}
         \/ a = Remote2Address /\ c \in {4, 5, 6, 7}
<1> DEFINE codes == CASE a = Remote1Address -> Remote1Commands
                      [] a = Remote2Address -> Remote2Commands
                      [] OTHER -> << >>
           pressed == {k \in DOMAIN codes : codes[k] = c}
<1>1. pressed # {}
  BY DEF KeyOf
<1>2. PICK k \in DOMAIN codes : codes[k] = c
  BY <1>1
<1>3. CASE a = Remote1Address
  <2>1. codes = Remote1Commands
    BY <1>3 DEF Remote1Address, Remote2Address
  <2> HIDE DEF codes
  <2>2. k \in DOMAIN Remote1Commands /\ c = Remote1Commands[k]
    BY <1>2, <2>1
  <2>3. c \in {80, 81, 82, 83}
    BY <2>2 DEF Remote1Commands
  <2> QED BY <1>3, <2>3
<1>4. CASE a = Remote2Address
  <2>1. codes = Remote2Commands
    BY <1>4 DEF Remote1Address, Remote2Address
  <2> HIDE DEF codes
  <2>2. k \in DOMAIN Remote2Commands /\ c = Remote2Commands[k]
    BY <1>2, <2>1
  <2>3. c \in {4, 5, 6, 7}
    BY <2>2 DEF Remote2Commands
  <2> QED BY <1>4, <2>3
<1>5. CASE a # Remote1Address /\ a # Remote2Address
  <2>1. codes = << >>
    BY <1>5
  <2> HIDE DEF codes
  <2> QED BY <1>2, <2>1
<1> QED BY <1>3, <1>4, <1>5

\* The bits of the two addresses, which differ in the last one only.
LEMMA LampAddressBits ==
  ASSUME NEW f \in [0..31 -> Bit], NEW a \in {Remote1Address, Remote2Address},
         ByteAt(f, 0) = a % 256, ByteAt(f, 8) = a \div 256
  PROVE  /\ \A k \in 0..7 : f[k] = 0
         /\ \A k \in 8..14 : f[k] = 1
         /\ f[15] = IF a = Remote1Address THEN 0 ELSE 1
<1>1. /\ f[0] \in 0..1 /\ f[1] \in 0..1 /\ f[2] \in 0..1 /\ f[3] \in 0..1
      /\ f[4] \in 0..1 /\ f[5] \in 0..1 /\ f[6] \in 0..1 /\ f[7] \in 0..1
  BY DEF Bit
<1>2. /\ f[8] \in 0..1 /\ f[9] \in 0..1 /\ f[10] \in 0..1 /\ f[11] \in 0..1
      /\ f[12] \in 0..1 /\ f[13] \in 0..1 /\ f[14] \in 0..1 /\ f[15] \in 0..1
  BY DEF Bit
<1>3. a % 256 = 0 /\ a \div 256 = IF a = Remote1Address THEN 127 ELSE 255
  BY DEF Remote1Address, Remote2Address
<1>4. /\ f[0] = 0 /\ f[1] = 0 /\ f[2] = 0 /\ f[3] = 0
      /\ f[4] = 0 /\ f[5] = 0 /\ f[6] = 0 /\ f[7] = 0
  BY <1>1, <1>3 DEF ByteAt
<1>5. /\ f[8] = 1 /\ f[9] = 1 /\ f[10] = 1 /\ f[11] = 1
      /\ f[12] = 1 /\ f[13] = 1 /\ f[14] = 1
      /\ f[15] = IF a = Remote1Address THEN 0 ELSE 1
  BY <1>2, <1>3 DEF ByteAt
<1> QED BY <1>4, <1>5

\* The length of a byte.
LEMMA ByteLength ==
  ASSUME NEW f \in [0..31 -> Bit], NEW p, Spaced(p, f), NEW n \in {0, 8, 16, 24}
  PROVE  p[n + 8] = p[n] + 16 + 2 * (f[n] + f[n + 1] + f[n + 2] + f[n + 3]
                                       + f[n + 4] + f[n + 5] + f[n + 6] + f[n + 7])
<1>1. \A k \in 0..31 : p[k + 1] = p[k] + 2 + 2 * f[k] /\ p[k] \in Nat /\ f[k] \in 0..1
  BY DEF Spaced, Bit
<1>2. /\ n \in 0..31 /\ n + 1 \in 0..31 /\ n + 2 \in 0..31 /\ n + 3 \in 0..31
      /\ n + 4 \in 0..31 /\ n + 5 \in 0..31 /\ n + 6 \in 0..31 /\ n + 7 \in 0..31
      /\ (n + 1) + 1 = n + 2 /\ (n + 2) + 1 = n + 3 /\ (n + 3) + 1 = n + 4
      /\ (n + 4) + 1 = n + 5 /\ (n + 5) + 1 = n + 6 /\ (n + 6) + 1 = n + 7
      /\ (n + 7) + 1 = n + 8
  OBVIOUS
<1>3. /\ p[n + 1] = p[n] + 2 + 2 * f[n] /\ p[n + 2] = p[n + 1] + 2 + 2 * f[n + 1]
      /\ p[n + 3] = p[n + 2] + 2 + 2 * f[n + 2] /\ p[n + 4] = p[n + 3] + 2 + 2 * f[n + 3]
  BY <1>1, <1>2
<1>4. /\ p[n + 5] = p[n + 4] + 2 + 2 * f[n + 4] /\ p[n + 6] = p[n + 5] + 2 + 2 * f[n + 5]
      /\ p[n + 7] = p[n + 6] + 2 + 2 * f[n + 6] /\ p[n + 8] = p[n + 7] + 2 + 2 * f[n + 7]
  BY <1>1, <1>2
<1>5. /\ p[n] \in Nat
      /\ f[n] \in 0..1 /\ f[n + 1] \in 0..1 /\ f[n + 2] \in 0..1 /\ f[n + 3] \in 0..1
      /\ f[n + 4] \in 0..1 /\ f[n + 5] \in 0..1 /\ f[n + 6] \in 0..1 /\ f[n + 7] \in 0..1
  BY <1>1, <1>2
<1> QED BY <1>3, <1>4, <1>5

\* The frames of both remotes fit into the bitmap.
LEMMA LampFrameLength ==
  ASSUME NEW a \in {Remote1Address, Remote2Address}, NEW c \in Bytes
  PROVE  PulseAt(a, c)[32] <= NumberOfBits
<1> DEFINE p == PulseAt(a, c)
           f == FrameBits(a, c)
<1>1. a \in Words
  BY WordRange DEF Remote1Address, Remote2Address
<1>2. /\ f \in [0..31 -> Bit] /\ ByteAt(f, 0) = a % 256 /\ ByteAt(f, 8) = a \div 256
      /\ \A r \in 0..7 : f[24 + r] = 1 - f[16 + r]
  BY <1>1, FrameBitsOfFrame
<1>3. Spaced(p, f)
  BY <1>1, PulsesSpaced
<1> HIDE DEF p, f
<1>4. /\ \A k \in 0..7 : f[k] = 0
      /\ \A k \in 8..14 : f[k] = 1
      /\ f[15] \in 0..1
  BY <1>2, LampAddressBits
<1>5. p[0] = 0 /\ p[16] \in Nat /\ p[24] \in Nat /\ p[32] \in Nat
  BY <1>3 DEF Spaced
<1>6. /\ 0 \in {0, 8, 16, 24} /\ 0 + 8 = 8 /\ 8 \in {0, 8, 16, 24} /\ 8 + 8 = 16
      /\ 16 \in {0, 8, 16, 24} /\ 16 + 8 = 24 /\ 24 \in {0, 8, 16, 24} /\ 24 + 8 = 32
  OBVIOUS
<1>7. p[16] <= 48
  <2>1. p[0 + 8] = p[0] + 16 + 2 * (f[0] + f[0 + 1] + f[0 + 2] + f[0 + 3]
                                      + f[0 + 4] + f[0 + 5] + f[0 + 6] + f[0 + 7])
    BY <1>2, <1>3, <1>6, ByteLength
  <2>2. p[8 + 8] = p[8] + 16 + 2 * (f[8] + f[8 + 1] + f[8 + 2] + f[8 + 3]
                                      + f[8 + 4] + f[8 + 5] + f[8 + 6] + f[8 + 7])
    BY <1>2, <1>3, <1>6, ByteLength
  <2>3. p[8] = 16
    BY <1>4, <1>5, <2>1
  <2> QED BY <1>4, <2>2, <2>3
<1>8. p[24] = p[16] + 16 + 2 * (f[16] + f[17] + f[18] + f[19] + f[20] + f[21] + f[22] + f[23])
  <2>1. p[16 + 8] = p[16] + 16 + 2 * (f[16] + f[16 + 1] + f[16 + 2] + f[16 + 3]
                                        + f[16 + 4] + f[16 + 5] + f[16 + 6] + f[16 + 7])
    BY <1>2, <1>3, <1>6, ByteLength
  <2> QED BY <2>1
<1>9. p[32] = p[24] + 16 + 2 * (f[24] + f[25] + f[26] + f[27] + f[28] + f[29] + f[30] + f[31])
  <2>1. p[24 + 8] = p[24] + 16 + 2 * (f[24] + f[24 + 1] + f[24 + 2] + f[24 + 3]
                                        + f[24 + 4] + f[24 + 5] + f[24 + 6] + f[24 + 7])
    BY <1>2, <1>3, <1>6, ByteLength
  <2> QED BY <2>1
<1>10. /\ f[24] = 1 - f[16] /\ f[25] = 1 - f[17] /\ f[26] = 1 - f[18] /\ f[27] = 1 - f[19]
       /\ f[28] = 1 - f[20] /\ f[29] = 1 - f[21] /\ f[30] = 1 - f[22] /\ f[31] = 1 - f[23]
  <2>1. /\ f[24 + 0] = 1 - f[16 + 0] /\ f[24 + 1] = 1 - f[16 + 1]
        /\ f[24 + 2] = 1 - f[16 + 2] /\ f[24 + 3] = 1 - f[16 + 3]
        /\ f[24 + 4] = 1 - f[16 + 4] /\ f[24 + 5] = 1 - f[16 + 5]
        /\ f[24 + 6] = 1 - f[16 + 6] /\ f[24 + 7] = 1 - f[16 + 7]
    BY <1>2
  <2> QED BY <2>1
<1>11. \A k \in 16..31 : f[k] \in 0..1
  BY <1>2 DEF Bit
<1>12. p[32] <= 96
  BY <1>5, <1>7, <1>8, <1>9, <1>10, <1>11
<1> QED BY <1>12 DEF p, NumberOfBits

\* A frame of a key.
LEMMA KeyFrame ==
  ASSUME NEW t \in Transmissions, KeyOf(t.address, t.command) # "none"
  PROVE  /\ t.address \in {Remote1Address, Remote2Address} /\ t.command < 128
         /\ FrameLength(t) \in Nat /\ FrameLength(t) <= NumberOfBits /\ Fits(t)
<1> DEFINE a == t.address
           c == t.command
<1>1. a \in Words /\ c \in Bytes
  BY TransmissionType
<1>2. /\ a \in {Remote1Address, Remote2Address}
      /\ c \in {80, 81, 82, 83} \/ c \in {4, 5, 6, 7}
  BY KeyCodes
<1> HIDE DEF a, c
<1>3. c < 128
  BY <1>2
<1>4. PulseAt(a, c)[32] <= NumberOfBits
  BY <1>1, <1>2, LampFrameLength
<1>5. PulseAt(a, c)[32] \in Nat
  BY <1>1, PulsesSpaced DEF Spaced
<1>6. FrameLength(t) = PulseAt(a, c)[32]
  BY DEF FrameLength, a, c
<1>7. Fits(t)
  BY <1>3, <1>4, <1>5, <1>6 DEF Fits, NumberOfBits, c
<1> QED BY <1>2, <1>3, <1>4, <1>5, <1>6, <1>7 DEF a, c

\* A key of the lamp's remotes is read as it was sent, because its frame fits.
LEMMA KeysStep == NecInv => KeysDelivered
<1> SUFFICES ASSUME NecInv, step = "done", sent.corrupt = Intact,
                    KeyOf(sent.address, sent.command) # "none"
             PROVE  DeliveredAsSent
  BY DEF KeysDelivered
<1>1. sent \in Transmissions
  BY DEF NecInv, SentInv
<1>2. Fits(sent)
  BY <1>1, KeyFrame
<1> QED BY <1>2, FittingStep DEF FittingDelivered

-----------------------------------------------------------------------------
(* A frame with one unit corrupted. *)

\* What the decoder makes of a unit that is wrong.  Up to bit m it has read what
\* was sent.  At m a zero whose next pulse is missing is read as a one, and
\* swallows the zero after it; or a light unit in a one makes two zeros of it.
\* From there on it reads each bit one place too early, or too late.
Merged(s, e, m) ==
  /\ s[m] = 0 /\ e[m] = 1 /\ s[m + 1] = 0
  /\ \A j \in (m + 1)..30 : e[j] = s[j + 1]
  /\ e[31] = 1

Split(s, e, m) ==
  /\ s[m] = 1 /\ e[m] = 0 /\ e[m + 1] = 0
  /\ \A j \in (m + 1)..30 : e[j + 1] = s[j]

\* Two readings go on together for n bits, one from its bit i, one from its bit j.
Together(q, e, p, s, i, j, n) ==
  /\ \A d \in 0..n : q[i + d] = p[j + d]
  /\ \A d \in 0..(n - 1) : e[i + d] = s[j + d]

\* Two readings that begin at the same unit stay together while they read the
\* same bits.
LEMMA Follow ==
  ASSUME NEW e, NEW s, NEW q, NEW p, Spaced(q, e), Spaced(p, s),
         NEW i \in 0..32, NEW j \in 0..32, NEW n \in Nat, i + n <= 32, j + n <= 32,
         q[i] = p[j],
         \A d \in 0..(n - 1) : q[i + d] = p[j + d] => e[i + d] = s[j + d]
  PROVE  Together(q, e, p, s, i, j, n)
<1> DEFINE S == {d \in Nat : d <= n => q[i + d] = p[j + d]}
<1>1. 0 \in S
  OBVIOUS
<1>2. ASSUME NEW d \in Nat, d \in S PROVE d + 1 \in S
  <2> SUFFICES ASSUME d + 1 <= n PROVE q[i + (d + 1)] = p[j + (d + 1)]
    OBVIOUS
  <2>1. /\ i + d \in 0..31 /\ j + d \in 0..31 /\ d \in 0..(n - 1)
        /\ i + (d + 1) = (i + d) + 1 /\ j + (d + 1) = (j + d) + 1
        /\ q[i + d] = p[j + d]
    BY <1>2
  <2>2. e[i + d] = s[j + d]
    BY <2>1
  <2>3. q[(i + d) + 1] = q[i + d] + 2 + 2 * e[i + d]
    BY <2>1 DEF Spaced
  <2>4. p[(j + d) + 1] = p[j + d] + 2 + 2 * s[j + d]
    BY <2>1 DEF Spaced
  <2> QED BY <2>1, <2>2, <2>3, <2>4
<1>3. Nat \subseteq S
  <2> HIDE DEF S
  <2> QED BY <1>1, <1>2, NumberInduction
<1>4. \A d \in 0..n : q[i + d] = p[j + d]
  BY <1>3
<1>5. \A d \in 0..(n - 1) : d \in 0..n
  OBVIOUS
<1> QED BY <1>4, <1>5 DEF Together

\* The positions the decoder takes are spaced by the bits it reads.
LEMMA TraceSpaced ==
  ASSUME NEW bits, NEW q, Trace(bits, q)
  PROVE  Spaced(q, ReadBits(bits, q))
BY ReadBitsType DEF Trace, Spaced

\* The units of a frame whose pulses are at p and whose unit x is corrupted.
UnitsOf(bits, p, x) ==
  \A i \in Nat : BitmapValue(bits, i) <=> i < NumberOfBits /\ (IsPulse(p, i) <=> i # x)

\* The unit that decides about a bit is right: it is read as it was sent.
LEMMA ReadFromPulse ==
  ASSUME NEW f \in [0..31 -> Bit], NEW p, Spaced(p, f), NEW bits, NEW x,
         UnitsOf(bits, p, x), NEW k \in 0..31, p[k] + 2 # x, p[k] + 2 < NumberOfBits
  PROVE  BitAt(bits, p[k]) = f[k]
<1>1. p[k] \in Nat /\ p[k] + 2 \in Nat
  BY SpacedOrder
<1>2. IsPulse(p, p[k] + 2) <=> f[k] = 0
  BY PulsesAround
<1>3. BitmapValue(bits, p[k] + 2) <=> f[k] = 0
  BY <1>1, <1>2 DEF UnitsOf
<1>4. f[k] = 0 \/ f[k] = 1
  BY DEF Bit
<1> QED BY <1>3, <1>4 DEF BitAt, BitValue

\* A zero is read as a one.
LEMMA Merging ==
  ASSUME NEW s \in [0..31 -> Bit], NEW p, Spaced(p, s), p[32] <= NumberOfBits,
         NEW bits, NEW x, UnitsOf(bits, p, x), NEW q, Trace(bits, q),
         \A k \in 0..31 : BitDecodes(bits, q[k]),
         NEW m \in 0..30, q[m] = p[m], s[m] = 0, BitAt(bits, p[m]) = 1
  PROVE  Merged(s, ReadBits(bits, q), m)
<1> DEFINE e == ReadBits(bits, q)
<1>1. /\ e \in [0..31 -> Bit] /\ Spaced(q, e)
      /\ \A k \in 0..31 : e[k] = BitAt(bits, q[k])
  BY ReadBitsType, TraceSpaced
<1> HIDE DEF e
<1>2. /\ p[m] \in Nat /\ p[m + 1] = p[m] + 2 /\ m + 1 \in 0..31 /\ (m + 1) + 1 = m + 2
      /\ p[m] + 2 < NumberOfBits
  <2>1. m \in 0..31 /\ m # 31
    OBVIOUS
  <2>2. p[m + 1] = p[m] + 2 + 2 * s[m] /\ p[m] \in Nat
    BY <2>1 DEF Spaced
  <2>3. p[m] + 2 < NumberOfBits
    BY <2>1, PulsesInside
  <2> QED BY <2>2, <2>3
<1>3. x = p[m + 1]
  <2>1. IsPulse(p, p[m] + 2)
    BY <1>2 DEF IsPulse
  <2>2. ~BitmapValue(bits, p[m] + 2)
    BY DEF BitAt, BitValue
  <2> QED BY <1>2, <2>1, <2>2 DEF UnitsOf
<1>4. q[m + 1] = p[m + 1] + 2 /\ q[m + 1] \in Nat /\ p[m + 1] \in Nat
  <2>1. m \in 0..31 /\ q[m + 1] = q[m] + 2 + 2 * e[m] /\ e[m] = BitAt(bits, q[m])
    BY <1>1 DEF Spaced
  <2> QED BY <1>2, <2>1
<1>5. s[m + 1] = 0 /\ p[m + 2] = q[m + 1]
  <2>1. BitmapValue(bits, q[m + 1])
    BY <1>2 DEF BitDecodes
  <2>2. IsPulse(p, p[m + 1] + 2)
    BY <1>3, <1>4, <2>1 DEF UnitsOf
  <2>3. s[m + 1] = 0
    BY <1>2, <2>2, PulsesAround
  <2>4. p[m + 2] = p[m + 1] + 2 + 2 * s[m + 1]
    BY <1>2 DEF Spaced
  <2> QED BY <1>4, <2>3, <2>4
<1> DEFINE i == m + 1
           j == m + 2
           n == 30 - m
<1>6. i \in 0..32 /\ j \in 0..32 /\ n \in Nat /\ i + n <= 32 /\ j + n <= 32 /\ q[i] = p[j]
  BY <1>5
<1>7. ASSUME NEW d \in 0..(n - 1), q[i + d] = p[j + d] PROVE e[i + d] = s[j + d]
  <2> DEFINE k == j + d
  <2>1. /\ k \in 0..31 /\ i + d \in 0..31 /\ i + d = k - 1
        /\ m + 1 \in Nat /\ k \in Nat /\ m + 1 < k /\ k <= 32
    OBVIOUS
  <2>2. e[i + d] = BitAt(bits, p[k])
    BY <1>1, <1>7, <2>1
  <2>3. p[k] \in Nat /\ p[k] + 2 # x
    <3> HIDE DEF i, j, n, k
    <3>1. p[(m + 1) + 1] <= p[k] /\ p[k] \in Nat
      BY <2>1, PulseBefore
    <3>2. p[m + 2] = p[m + 1] + 2
      BY <1>4, <1>5
    <3>3. p[m + 2] <= p[k]
      BY <1>2, <3>1
    <3> QED BY <1>3, <1>4, <3>1, <3>2, <3>3
  <2> HIDE DEF k
  <2>4. CASE p[k] + 2 < NumberOfBits
    <3>1. BitAt(bits, p[k]) = s[k]
      BY <2>1, <2>3, <2>4, ReadFromPulse
    <3> QED BY <2>2, <3>1 DEF k
  <2>5. CASE ~(p[k] + 2 < NumberOfBits)
    <3>1. k = 31
      BY <2>1, <2>5, PulsesInside
    <3>2. ~BitmapValue(bits, p[k] + 2)
      BY <2>5 DEF BitmapValue
    <3>3. e[30] = 1 /\ q[30] = p[k]
      BY <1>7, <2>1, <2>2, <3>1, <3>2 DEF BitAt, BitValue, k
    <3>4. q[31] = p[k] + 4
      <4>1. q[30 + 1] = q[30] + 2 + 2 * e[30]
        BY <1>1 DEF Spaced
      <4> QED BY <2>3, <3>3, <4>1
    <3>5. BitmapValue(bits, q[31])
      BY DEF BitDecodes
    <3> QED BY <2>3, <2>5, <3>4, <3>5 DEF BitmapValue, NumberOfBits
  <2> QED BY <2>4, <2>5
<1>8. /\ \A d \in 0..n : q[i + d] = p[j + d]
      /\ \A d \in 0..(n - 1) : e[i + d] = s[j + d]
  <2>1. \A d \in 0..(n - 1) : q[i + d] = p[j + d] => e[i + d] = s[j + d]
    BY <1>7
  <2> HIDE DEF i, j, n
  <2>2. i \in 0..32 /\ j \in 0..32 /\ n \in Nat /\ i + n <= 32 /\ j + n <= 32
    BY <1>6
  <2>3. Together(q, e, p, s, i, j, n)
    BY <1>1, <1>6, <2>1, <2>2, Follow, Zenon
  <2> QED BY <2>3 DEF Together
<1>9. \A h \in (m + 1)..30 : e[h] = s[h + 1]
  <2> SUFFICES ASSUME NEW h \in (m + 1)..30 PROVE e[h] = s[h + 1]
    OBVIOUS
  <2>1. h - i \in 0..(n - 1) /\ i + (h - i) = h /\ j + (h - i) = h + 1
    OBVIOUS
  <2> HIDE DEF i, j, n
  <2> QED BY <1>8, <2>1
<1>10. e[31] = 1
  <2>1. q[31] = p[32]
    <3>1. n \in 0..n /\ i + n = 31 /\ j + n = 32
      OBVIOUS
    <3> HIDE DEF i, j, n
    <3> QED BY <1>8, <3>1
  <2>2. p[32] \in Nat /\ p[m + 1] <= p[32]
    <3>1. m \in Nat /\ 32 \in Nat /\ m < 32 /\ 32 <= 32
      OBVIOUS
    <3> QED BY <3>1, PulseBefore
  <2>3. p[32] + 2 # x /\ p[32] + 2 \in Nat /\ p[32] + 2 > p[32]
    BY <1>3, <1>4, <2>2
  <2>4. ~IsPulse(p, p[32] + 2)
    BY <2>3, PulsesEnd
  <2>5. ~BitmapValue(bits, p[32] + 2)
    BY <2>3, <2>4 DEF UnitsOf
  <2> QED BY <1>1, <2>1, <2>5 DEF BitAt, BitValue
<1>11. e[m] = 1
  BY <1>1
<1> QED BY <1>5, <1>9, <1>10, <1>11 DEF Merged, e

\* A one is read as a zero.
LEMMA Splitting ==
  ASSUME NEW s \in [0..31 -> Bit], NEW p, Spaced(p, s), p[32] <= NumberOfBits,
         NEW bits, NEW x, UnitsOf(bits, p, x), NEW q, Trace(bits, q),
         NEW m \in 0..30, q[m] = p[m], s[m] = 1, BitAt(bits, p[m]) = 0
  PROVE  Split(s, ReadBits(bits, q), m)
<1> DEFINE e == ReadBits(bits, q)
<1>1. /\ e \in [0..31 -> Bit] /\ Spaced(q, e)
      /\ \A k \in 0..31 : e[k] = BitAt(bits, q[k])
  BY ReadBitsType, TraceSpaced
<1> HIDE DEF e
<1>2. /\ p[m] \in Nat /\ p[m + 1] = p[m] + 4 /\ m + 1 \in 0..31 /\ m \in 0..31
      /\ p[m + 1] + 2 <= NumberOfBits
  <2>1. m \in 0..31 /\ m + 1 \in 0..31
    OBVIOUS
  <2>2. p[m + 1] = p[m] + 2 + 2 * s[m] /\ p[m] \in Nat
    BY <2>1 DEF Spaced
  <2>3. p[m + 1] + 2 <= NumberOfBits
    BY <2>1, PulsesInside
  <2> QED BY <2>1, <2>2, <2>3
<1>3. x = p[m] + 2
  <2>1. ~IsPulse(p, p[m] + 2)
    BY <1>2, PulsesAround
  <2>2. BitmapValue(bits, p[m] + 2)
    BY DEF BitAt, BitValue
  <2> QED BY <1>2, <2>1, <2>2 DEF UnitsOf
<1>4. e[m] = 0 /\ q[m + 1] = p[m] + 2
  <2>1. q[m + 1] = q[m] + 2 + 2 * e[m] /\ e[m] = BitAt(bits, q[m])
    BY <1>1, <1>2 DEF Spaced
  <2> QED BY <1>2, <2>1
<1>5. e[m + 1] = 0
  <2>1. IsPulse(p, p[m + 1]) /\ p[m + 1] < NumberOfBits /\ p[m + 1] # x /\ p[m + 1] \in Nat
    BY <1>2, <1>3 DEF IsPulse, NumberOfBits
  <2>2. BitmapValue(bits, q[m + 1] + 2)
    <3>1. q[m + 1] + 2 = p[m + 1]
      BY <1>2, <1>4
    <3> QED BY <2>1, <3>1 DEF UnitsOf
  <2> QED BY <1>1, <1>2, <2>2 DEF BitAt, BitValue
<1>6. q[m + 2] = p[m + 1]
  <2>1. q[(m + 1) + 1] = q[m + 1] + 2 + 2 * e[m + 1] /\ (m + 1) + 1 = m + 2
    BY <1>1, <1>2 DEF Spaced
  <2> QED BY <1>2, <1>4, <1>5, <2>1
<1> DEFINE i == m + 2
           j == m + 1
           n == 30 - m
<1>7. i \in 0..32 /\ j \in 0..32 /\ n \in Nat /\ i + n <= 32 /\ j + n <= 32 /\ q[i] = p[j]
  BY <1>6
<1>8. ASSUME NEW d \in 0..(n - 1), q[i + d] = p[j + d] PROVE e[i + d] = s[j + d]
  <2> DEFINE k == j + d
  <2>1. k \in 0..31 /\ k # 31 /\ i + d \in 0..31 /\ m < k /\ m \in 0..31
    OBVIOUS
  <2>2. e[i + d] = BitAt(bits, p[k])
    BY <1>1, <1>8, <2>1
  <2> HIDE DEF k
  <2>3. p[k] \in Nat /\ p[k] + 2 # x
    <3>1. m \in Nat /\ k \in Nat /\ m < k /\ k <= 32
      BY <2>1
    <3>2. p[m + 1] <= p[k] /\ p[k] \in Nat
      BY <3>1, PulseBefore
    <3> HIDE DEF i, j, n
    <3>3. p[m] \in Nat /\ p[m + 1] = p[m] + 4 /\ x = p[m] + 2
      BY <1>2, <1>3
    <3> QED BY <3>2, <3>3
  <2>4. p[k] + 2 < NumberOfBits
    BY <2>1, PulsesInside
  <2>5. BitAt(bits, p[k]) = s[k]
    BY <2>1, <2>3, <2>4, ReadFromPulse
  <2> QED BY <2>2, <2>5 DEF k
<1>9. \A d \in 0..(n - 1) : e[i + d] = s[j + d]
  <2>1. \A d \in 0..(n - 1) : q[i + d] = p[j + d] => e[i + d] = s[j + d]
    BY <1>8
  <2> HIDE DEF i, j, n
  <2>2. i \in 0..32 /\ j \in 0..32 /\ n \in Nat /\ i + n <= 32 /\ j + n <= 32
    BY <1>7
  <2>3. Together(q, e, p, s, i, j, n)
    BY <1>1, <1>7, <2>1, <2>2, Follow, Zenon
  <2> QED BY <2>3 DEF Together
<1>10. \A h \in (m + 1)..30 : e[h + 1] = s[h]
  <2> SUFFICES ASSUME NEW h \in (m + 1)..30 PROVE e[h + 1] = s[h]
    OBVIOUS
  <2>1. h - j \in 0..(n - 1) /\ i + (h - j) = h + 1 /\ j + (h - j) = h
    OBVIOUS
  <2> HIDE DEF i, j, n
  <2> QED BY <1>9, <2>1
<1> QED BY <1>4, <1>5, <1>10 DEF Split, e

\* Bit m is the first of the bits e read of the frame t along q that differs from
\* the bit sent, and all of them decode.
FirstWrong(t, q, s, e, m) ==
  /\ t \in Transmissions /\ FrameLength(t) <= NumberOfBits
  /\ Trace(Measured(t), q) /\ \A k \in 0..31 : BitDecodes(Measured(t), q[k])
  /\ s = FrameBits(t.address, t.command) /\ e = ReadBits(Measured(t), q)
  /\ m \in 0..30 /\ e[m] # s[m] /\ \A k \in 0..(m - 1) : e[k] = s[k]

\* The first bit that is read wrong is merged or split.
LEMMA CorruptedRead ==
  ASSUME NEW t, NEW q, NEW s, NEW e, NEW m, FirstWrong(t, q, s, e, m)
  PROVE  Merged(s, e, m) \/ Split(s, e, m)
<1> SUFFICES ASSUME t \in Transmissions, FrameLength(t) <= NumberOfBits,
                    Trace(Measured(t), q), \A k \in 0..31 : BitDecodes(Measured(t), q[k]),
                    s = FrameBits(t.address, t.command), e = ReadBits(Measured(t), q),
                    m \in 0..30, \A k \in 0..(m - 1) : e[k] = s[k], e[m] # s[m]
             PROVE  Merged(s, e, m) \/ Split(s, e, m)
  BY DEF FirstWrong
<1> DEFINE p == PulseAt(t.address, t.command)
           bits == Measured(t)
           x == t.corrupt
<1>1. s \in [0..31 -> Bit] /\ Spaced(p, s)
  BY TransmissionType, FrameBitsOfFrame, PulsesSpaced
<1>2. p[32] <= NumberOfBits
  BY DEF FrameLength
<1>3. UnitsOf(bits, p, x)
  BY MeasuredUnits DEF UnitsOf
<1>4. Trace(bits, q) /\ \A k \in 0..31 : BitDecodes(bits, q[k])
  OBVIOUS
<1>5. /\ e \in [0..31 -> Bit] /\ Spaced(q, e) /\ e = ReadBits(bits, q)
      /\ \A k \in 0..31 : e[k] = BitAt(bits, q[k])
  BY ReadBitsType, TraceSpaced
<1> HIDE DEF p, bits, x
<1>6. q[m] = p[m]
  <2>1. 0 \in 0..32 /\ m \in Nat /\ 0 + m <= 32 /\ q[0] = p[0]
    BY <1>1, <1>5 DEF Spaced
  <2>2. \A d \in 0..(m - 1) : q[0 + d] = p[0 + d] => e[0 + d] = s[0 + d]
    OBVIOUS
  <2>3. Together(q, e, p, s, 0, 0, m)
    BY <1>1, <1>5, <2>1, <2>2, Follow, Zenon
  <2>4. m \in 0..m /\ 0 + m = m
    OBVIOUS
  <2> QED BY <2>3, <2>4 DEF Together
<1>7. m \in 0..31 /\ e[m] = BitAt(bits, p[m])
  BY <1>5, <1>6
<1>8. (s[m] = 0 \/ s[m] = 1) /\ (e[m] = 0 \/ e[m] = 1)
  BY <1>1, <1>5, <1>7 DEF Bit
<1>9. CASE s[m] = 0
  <2>1. BitAt(bits, p[m]) = 1
    BY <1>7, <1>8, <1>9
  <2>2. Merged(s, ReadBits(bits, q), m)
    BY <1>1, <1>2, <1>3, <1>4, <1>6, <1>9, <2>1, Merging, Zenon
  <2> QED BY <1>5, <2>2
<1>10. CASE s[m] = 1
  <2>1. BitAt(bits, p[m]) = 0
    BY <1>7, <1>8, <1>10
  <2>2. Split(s, ReadBits(bits, q), m)
    BY <1>1, <1>2, <1>3, <1>4, <1>6, <1>10, <2>1, Splitting, Zenon
  <2> QED BY <1>5, <2>2
<1> QED BY <1>8, <1>9, <1>10

\* The second half of a command is the complement of the first.
Complemented(f) == \A k \in 16..23 : f[k + 8] = 1 - f[k]

\* The bits of a command are merged or split from bit m on, and right before it.
ShiftedCommand(s, e, m) ==
  /\ s \in [0..31 -> Bit] /\ e \in [0..31 -> Bit] /\ m \in 16..23
  /\ Merged(s, e, m) \/ Split(s, e, m)
  /\ \A k \in 16..(m - 1) : e[k] = s[k]

\* No command with a bit merged or split has its complement behind it.
LEMMA ShiftDetected ==
  ASSUME NEW s, NEW e, NEW m, Complemented(s), Complemented(e), ShiftedCommand(s, e, m)
  PROVE  FALSE
<1> SUFFICES ASSUME s \in [0..31 -> Bit], e \in [0..31 -> Bit],
                    m \in 16..23, \A k \in 16..(m - 1) : e[k] = s[k],
                    Merged(s, e, m) \/ Split(s, e, m)
             PROVE  FALSE
  BY DEF ShiftedCommand
<1>1. \A k \in 0..31 : s[k] \in 0..1 /\ e[k] \in 0..1
  BY DEF Bit
<1>2. CASE Merged(s, e, m) /\ m = 23
  <2>1. e[31] = 1 /\ e[23] = 1
    BY <1>2 DEF Merged
  <2>2. e[23 + 8] = 1 - e[23]
    BY DEF Complemented
  <2> QED BY <2>1, <2>2
<1>3. CASE Merged(s, e, m) /\ m # 23
  <2>1. e[m] = 1 /\ s[m + 1] = 0 /\ e[m + 8] = s[(m + 8) + 1]
    BY <1>3 DEF Merged
  <2>2. e[m + 8] = 0
    BY <2>1 DEF Complemented
  <2>3. s[(m + 1) + 8] = 1
    BY <1>3, <2>1 DEF Complemented
  <2>4. s[(m + 8) + 1] = 1
    <3>1. (m + 1) + 8 = (m + 8) + 1
      OBVIOUS
    <3> QED BY <2>3, <3>1, Zenon
  <2>5. e[m + 8] = 1
    BY <2>1, <2>4, Zenon
  <2> QED BY <2>2, <2>5
<1>4. CASE Split(s, e, m) /\ m # 23
  <2>1. s[m] = 1 /\ e[m + 1] = 0 /\ e[(m + 8) + 1] = s[m + 8]
    BY <1>4 DEF Split
  <2>2. s[m + 8] = 1 - s[m] /\ e[(m + 1) + 8] = 1 - e[m + 1] /\ (m + 1) + 8 = (m + 8) + 1
    BY <1>4 DEF Complemented
  <2> QED BY <2>1, <2>2
<1>5. CASE Split(s, e, m) /\ m = 23
  <2>1. /\ e[23] = 0 /\ e[24] = 0
        /\ \A j \in 24..30 : e[j + 1] = s[j]
        /\ \A k \in 16..22 : e[k] = s[k]
    BY <1>5 DEF Split
  <2>2. e[23 + 8] = 1 - e[23] /\ e[16 + 8] = 1 - e[16]
    BY DEF Complemented
  \* One place up and eight down again: the ones travel from bit 31 to bit 24.
  <2>3. ASSUME NEW k \in 16..22, e[k + 9] = 1 PROVE e[k + 8] = 1
    <3>1. k + 8 \in 24..30 /\ (k + 8) + 1 = k + 9
      OBVIOUS
    <3>2. s[k + 8] = 1
      BY <2>1, <2>3, <3>1
    <3>3. s[k + 8] = 1 - s[k] /\ e[k + 8] = 1 - e[k] /\ e[k] = s[k]
      BY <2>1 DEF Complemented
    <3> QED BY <1>1, <3>2, <3>3
  <2>4. e[31] = 1
    BY <2>1, <2>2
  <2>5. e[30] = 1 /\ e[29] = 1 /\ e[28] = 1
    <3>1. /\ e[22 + 9] = 1 => e[22 + 8] = 1
          /\ e[21 + 9] = 1 => e[21 + 8] = 1
          /\ e[20 + 9] = 1 => e[20 + 8] = 1
      BY <2>3
    <3> QED BY <2>4, <3>1
  <2>6. e[27] = 1 /\ e[26] = 1 /\ e[25] = 1 /\ e[24] = 1
    <3>1. /\ e[19 + 9] = 1 => e[19 + 8] = 1
          /\ e[18 + 9] = 1 => e[18 + 8] = 1
          /\ e[17 + 9] = 1 => e[17 + 8] = 1
          /\ e[16 + 9] = 1 => e[16 + 8] = 1
      BY <2>3
    <3> QED BY <2>5, <3>1
  <2> QED BY <2>1, <2>6
<1> QED BY <1>2, <1>3, <1>4, <1>5

\* A byte of bits is a byte, and an address splits into its bytes.
LEMMA ByteAtType ==
  ASSUME NEW f \in [0..31 -> Bit], NEW n \in {0, 8, 16, 24}
  PROVE  ByteAt(f, n) \in Bytes
<1>1. /\ f[n] \in 0..1 /\ f[n + 1] \in 0..1 /\ f[n + 2] \in 0..1 /\ f[n + 3] \in 0..1
      /\ f[n + 4] \in 0..1 /\ f[n + 5] \in 0..1 /\ f[n + 6] \in 0..1 /\ f[n + 7] \in 0..1
  BY DEF Bit
<1> DEFINE v == ByteAt(f, n)
<1>2. v \in Int
  BY <1>1 DEF ByteAt
<1>3. 0 <= v
  BY <1>1 DEF ByteAt
<1>4. v <= 255
  BY <1>1 DEF ByteAt
<1> HIDE DEF v
<1>5. v \in Bytes
  BY <1>2, <1>3, <1>4 DEF Bytes
<1> QED BY <1>5 DEF v

\* The two bytes an address is made of.
LEMMA BytesOfAddress ==
  ASSUME NEW h \in Bytes, NEW l \in Bytes, NEW w \in Nat, w = h * 256 + l
  PROVE  w % 256 = l /\ w \div 256 = h
<1>1. h \in Nat /\ l \in Nat /\ l <= 255
  BY ByteRange
<1>2. w % 256 = l
  BY <1>1
<1>3. w \div 256 = h
  BY <1>1
<1> QED BY <1>2, <1>3

\* A frame that is delivered has been read in full, but for the command 255.
LEMMA DeliveredRead ==
  ASSUME NecInv, Delivered, command # 255
  PROVE  \E q :
           /\ Trace(Measured(sent), q)
           /\ \A k \in 0..31 : BitDecodes(Measured(sent), q[k])
           /\ LET e == ReadBits(Measured(sent), q)
              IN /\ ByteAt(e, 0) = address % 256 /\ ByteAt(e, 8) = address \div 256
                 /\ ByteAt(e, 16) = command /\ ByteAt(e, 16) + ByteAt(e, 24) = 255
<1> DEFINE bits == received_bits
<1>1. bits = Measured(sent) /\ step = "done" /\ accepted
  BY DEF NecInv, SentInv, Delivered
<1>2. PICK q : Trace(bits, q)
  BY TraceExists
<1>3. Reading(q)
  BY <1>2 DEF NecInv, ReadInv
<1> DEFINE e == ReadBits(bits, q)
<1>4. word_ok /\ command_ok /\ i_command_ok
  BY <1>1 DEF NecInv, IInv, FailureInv, TypeOK, Bytes
<1>5. /\ Readable(bits, q, 0) /\ Readable(bits, q, 8)
      /\ Readable(bits, q, 16) /\ Readable(bits, q, 24)
      /\ address = ByteAt(e, 8) * 256 + ByteAt(e, 0)
      /\ command = ByteAt(e, 16) /\ i_command = ByteAt(e, 24) /\ command + i_command = 255
  BY <1>1, <1>3, <1>4 DEF Reading
<1>6. ASSUME NEW k \in 0..31 PROVE BitDecodes(bits, q[k])
  <2>1. k \in 0..(0 + 7) \/ k \in 8..(8 + 7) \/ k \in 16..(16 + 7) \/ k \in 24..(24 + 7)
    OBVIOUS
  <2> QED BY <1>5, <2>1 DEF Readable
<1>7. e \in [0..31 -> Bit]
  BY ReadBitsType
<1> HIDE DEF bits, e
<1>8. ByteAt(e, 0) \in Bytes /\ ByteAt(e, 8) \in Bytes
  BY <1>7, ByteAtType
<1> DEFINE h == ByteAt(e, 8)
           l == ByteAt(e, 0)
<1>9. l = address % 256 /\ h = address \div 256
  <2>1. h \in Bytes /\ l \in Bytes /\ address = h * 256 + l
    BY <1>5, <1>8
  <2>2. address \in Nat
    BY WordRange DEF NecInv, IInv, TypeOK
  <2> HIDE DEF h, l
  <2> QED BY <2>1, <2>2, BytesOfAddress
<1>10. ByteAt(e, 16) + ByteAt(e, 24) = 255
  BY <1>5
<1>11. /\ Trace(bits, q) /\ \A k \in 0..31 : BitDecodes(bits, q[k])
       /\ ByteAt(e, 0) = address % 256 /\ ByteAt(e, 8) = address \div 256
       /\ ByteAt(e, 16) = command /\ ByteAt(e, 16) + ByteAt(e, 24) = 255
  BY <1>2, <1>5, <1>6, <1>9, <1>10
<1> QED BY <1>1, <1>11 DEF e

\* The complement as a fact about bits.
LEMMA ComplementedBits ==
  ASSUME NEW f \in [0..31 -> Bit], ByteAt(f, 16) + ByteAt(f, 24) = 255
  PROVE  Complemented(f)
<1>1. \A r \in 0..7 : f[24 + r] = 1 - f[16 + r]
  <2>1. 16 \in {0, 8, 16, 24} /\ 24 \in {0, 8, 16, 24}
    OBVIOUS
  <2> QED BY <2>1, ComplementBits
<1>2. ASSUME NEW k \in 16..23 PROVE f[k + 8] = 1 - f[k]
  <2>1. k - 16 \in 0..7 /\ 24 + (k - 16) = k + 8 /\ 16 + (k - 16) = k
    OBVIOUS
  <2>2. f[24 + (k - 16)] = 1 - f[16 + (k - 16)]
    BY <1>1, <2>1
  <2> QED BY <2>1, <2>2
<1> QED BY <1>2 DEF Complemented

\* A delivered command that keeps its address is the one that was sent, or 255.
LEMMA ProtectedStep == NecInv => CommandProtected
<1> SUFFICES ASSUME NecInv, Delivered, address = sent.address,
                    FrameLength(sent) <= NumberOfBits, command # 255
             PROVE  command = sent.command
  BY DEF CommandProtected
<1> DEFINE a == sent.address
           c == sent.command
           s == FrameBits(a, c)
<1>1. sent \in Transmissions /\ a \in Words /\ c \in Bytes
  <2>1. sent \in Transmissions
    BY DEF NecInv, SentInv, Delivered
  <2> QED BY <2>1, TransmissionType
<1>2. PICK q :
        /\ Trace(Measured(sent), q)
        /\ \A k \in 0..31 : BitDecodes(Measured(sent), q[k])
        /\ LET e == ReadBits(Measured(sent), q)
           IN /\ ByteAt(e, 0) = address % 256 /\ ByteAt(e, 8) = address \div 256
              /\ ByteAt(e, 16) = command /\ ByteAt(e, 16) + ByteAt(e, 24) = 255
  BY DeliveredRead
<1> DEFINE e == ReadBits(Measured(sent), q)
<1>3. /\ e \in [0..31 -> Bit]
      /\ ByteAt(e, 0) = a % 256 /\ ByteAt(e, 8) = a \div 256
      /\ ByteAt(e, 16) = command /\ ByteAt(e, 16) + ByteAt(e, 24) = 255
  BY <1>2, ReadBitsType
<1> HIDE DEF a, c
<1>4. /\ s \in [0..31 -> Bit]
      /\ ByteAt(s, 0) = a % 256 /\ ByteAt(s, 8) = a \div 256
      /\ ByteAt(s, 16) = c /\ ByteAt(s, 24) = 255 - c
  BY <1>1, FrameBitsOfFrame
<1>5. s = FrameBits(sent.address, sent.command) /\ e = ReadBits(Measured(sent), q)
  BY DEF a, c
<1> HIDE DEF s, e
<1>6. Complemented(s) /\ Complemented(e)
  <2>1. ByteAt(s, 16) + ByteAt(s, 24) = 255
    BY <1>1, <1>4 DEF Bytes
  <2> QED BY <1>3, <1>4, <2>1, ComplementedBits
<1>7. \A k \in 0..15 : e[k] = s[k]
  <2>1. 0 \in {0, 8, 16, 24} /\ 8 \in {0, 8, 16, 24}
    OBVIOUS
  <2>2. \A r \in 0..7 : e[0 + r] = s[0 + r]
    BY <1>3, <1>4, <2>1, SameBits
  <2>3. \A r \in 0..7 : e[8 + r] = s[8 + r]
    BY <1>3, <1>4, <2>1, SameBits
  <2>4. ASSUME NEW k \in 8..15 PROVE e[k] = s[k]
    <3>1. k - 8 \in 0..7 /\ 8 + (k - 8) = k
      OBVIOUS
    <3>2. e[8 + (k - 8)] = s[8 + (k - 8)]
      BY <2>3, <3>1
    <3> QED BY <3>1, <3>2
  <2> QED BY <2>2, <2>4
<1> SUFFICES ASSUME command # c PROVE FALSE
  BY DEF c
<1> DEFINE Wrong == {k \in 16..23 : e[k] # s[k]}
<1>8. PICK m \in Wrong : \A k \in Wrong : ~(k < m)
  <2>1. Wrong # {}
    <3> SUFFICES ASSUME \A k \in 16..23 : e[k] = s[k] PROVE FALSE
      OBVIOUS
    <3>1. ByteAt(e, 16) = ByteAt(s, 16)
      BY DEF ByteAt
    <3> QED BY <1>3, <1>4, <3>1
  <2>2. Wrong \in SUBSET Nat
    OBVIOUS
  <2> HIDE DEF Wrong
  <2> QED BY <2>1, <2>2, LeastNumber
<1>9. /\ m \in 0..30 /\ m \in 16..23 /\ e[m] # s[m]
      /\ \A k \in 16..(m - 1) : e[k] = s[k]
  BY <1>8
<1>10. \A k \in 0..(m - 1) : e[k] = s[k]
  <2>1. \A k \in 0..(m - 1) : k \in 0..15 \/ k \in 16..(m - 1)
    BY <1>9
  <2> QED BY <1>7, <1>9, <2>1
<1>11. Merged(s, e, m) \/ Split(s, e, m)
  <2>1. Trace(Measured(sent), q) /\ \A k \in 0..31 : BitDecodes(Measured(sent), q[k])
    BY <1>2
  <2>2. FirstWrong(sent, q, s, e, m)
    BY <1>1, <1>5, <1>9, <1>10, <2>1 DEF FirstWrong
  <2> QED BY <2>2, CorruptedRead
<1>12. ShiftedCommand(s, e, m)
  BY <1>3, <1>4, <1>9, <1>11 DEF ShiftedCommand
<1> QED BY <1>6, <1>12, ShiftDetected

\* The address of the other remote: the last address bit is the first to differ,
\* and neither what is merged nor what is split there is a key.
LEMMA RemotesKeptApart ==
  ASSUME NEW s \in [0..31 -> Bit], NEW e \in [0..31 -> Bit],
         Complemented(s), Complemented(e), ByteAt(s, 16) < 128,
         Merged(s, e, 15) \/ Split(s, e, 15)
  PROVE  FALSE
<1>1. CASE Merged(s, e, 15)
  <2>1. s[16] = 0 /\ e[23] = s[24] /\ e[31] = 1
    <3>1. s[15 + 1] = 0 /\ e[23] = s[23 + 1] /\ e[31] = 1
      BY <1>1 DEF Merged
    <3> QED BY <3>1
  <2>2. s[16 + 8] = 1 - s[16] /\ e[23 + 8] = 1 - e[23]
    BY DEF Complemented
  <2> QED BY <2>1, <2>2
<1>2. CASE Split(s, e, 15)
  <2>1. e[16] = 0 /\ e[24] = s[23]
    <3>1. e[15 + 1] = 0 /\ e[23 + 1] = s[23]
      BY <1>2 DEF Split
    <3> QED BY <3>1
  <2>2. e[16 + 8] = 1 - e[16]
    BY DEF Complemented
  <2>3. s[23] = 0
    <3>1. /\ s[16] \in 0..1 /\ s[17] \in 0..1 /\ s[18] \in 0..1 /\ s[19] \in 0..1
          /\ s[20] \in 0..1 /\ s[21] \in 0..1 /\ s[22] \in 0..1 /\ s[23] \in 0..1
      BY DEF Bit
    <3> QED BY <3>1 DEF ByteAt
  <2> QED BY <2>1, <2>2, <2>3
<1> QED BY <1>1, <1>2

\* A key that is obeyed is the one that was sent, when one was.
LEMMA NotMistakenStep == NecInv => KeysNotMistaken
<1> SUFFICES ASSUME NecInv, Obeyed, KeyOf(sent.address, sent.command) # "none"
             PROVE  address = sent.address /\ command = sent.command
  BY DEF KeysNotMistaken, DeliveredAsSent, Obeyed, Delivered
<1> DEFINE a == sent.address
           c == sent.command
           s == FrameBits(a, c)
           Lamps == {Remote1Address, Remote2Address}
<1>1. sent \in Transmissions /\ a \in Words /\ c \in Bytes
  <2>1. sent \in Transmissions
    BY DEF NecInv, SentInv, Obeyed, Delivered
  <2> QED BY <2>1, TransmissionType
<1>2. a \in Lamps /\ c < 128 /\ FrameLength(sent) <= NumberOfBits
  BY <1>1, KeyFrame
<1>3. Delivered /\ address \in Lamps /\ command # 255
  <2>1. KeyOf(address, command) # "none"
    BY DEF Obeyed
  <2> QED BY <2>1, KeyCodes DEF Obeyed
<1>4. CASE address = a
  <2>1. command \in {c, 255}
    BY <1>2, <1>3, <1>4, ProtectedStep DEF CommandProtected
  <2> QED BY <1>3, <1>4, <2>1
<1>5. CASE address # a
  <2>1. PICK q :
          /\ Trace(Measured(sent), q)
          /\ \A k \in 0..31 : BitDecodes(Measured(sent), q[k])
          /\ LET e == ReadBits(Measured(sent), q)
             IN /\ ByteAt(e, 0) = address % 256 /\ ByteAt(e, 8) = address \div 256
                /\ ByteAt(e, 16) = command /\ ByteAt(e, 16) + ByteAt(e, 24) = 255
    BY <1>3, DeliveredRead
  <2> DEFINE e == ReadBits(Measured(sent), q)
  <2>2. /\ e \in [0..31 -> Bit]
        /\ ByteAt(e, 0) = address % 256 /\ ByteAt(e, 8) = address \div 256
        /\ ByteAt(e, 16) + ByteAt(e, 24) = 255
    BY <2>1, ReadBitsType
  <2> HIDE DEF a, c
  <2>3. /\ s \in [0..31 -> Bit]
        /\ ByteAt(s, 0) = a % 256 /\ ByteAt(s, 8) = a \div 256
        /\ ByteAt(s, 16) = c /\ ByteAt(s, 24) = 255 - c
    BY <1>1, FrameBitsOfFrame
  <2>4. s = FrameBits(sent.address, sent.command) /\ e = ReadBits(Measured(sent), q)
    BY DEF a, c
  <2> HIDE DEF s, e
  <2>5. Complemented(s) /\ Complemented(e)
    <3>1. ByteAt(s, 16) + ByteAt(s, 24) = 255
      BY <1>1, <2>3 DEF Bytes
    <3> QED BY <2>2, <2>3, <3>1, ComplementedBits
  <2>6. /\ \A k \in 0..7 : s[k] = 0
        /\ \A k \in 8..14 : s[k] = 1
        /\ s[15] = IF a = Remote1Address THEN 0 ELSE 1
    BY <1>2, <2>3, LampAddressBits
  <2>7. /\ \A k \in 0..7 : e[k] = 0
        /\ \A k \in 8..14 : e[k] = 1
        /\ e[15] = IF address = Remote1Address THEN 0 ELSE 1
    BY <1>3, <2>2, LampAddressBits
  <2>8. \A k \in 0..(15 - 1) : e[k] = s[k]
    <3>1. \A k \in 0..(15 - 1) : k \in 0..7 \/ k \in 8..14
      OBVIOUS
    <3> QED BY <2>6, <2>7, <3>1
  <2>9. e[15] # s[15] /\ 15 \in 0..30
    BY <1>2, <1>3, <1>5, <2>6, <2>7
  <2>10. Merged(s, e, 15) \/ Split(s, e, 15)
    <3>1. Trace(Measured(sent), q) /\ \A k \in 0..31 : BitDecodes(Measured(sent), q[k])
      BY <2>1
    <3>2. FirstWrong(sent, q, s, e, 15)
      BY <1>1, <1>2, <2>4, <2>8, <2>9, <3>1 DEF FirstWrong
    <3> QED BY <3>2, CorruptedRead
  <2>11. ByteAt(s, 16) < 128
    BY <1>2, <2>3
  <2> QED BY <2>2, <2>3, <2>5, <2>10, <2>11, RemotesKeptApart
<1> QED BY <1>4, <1>5 DEF a, c

-----------------------------------------------------------------------------
(* The theorems, for all addresses and commands the remote may send. *)

\* Every undisturbed frame that fits into the bitmap is delivered as it was sent.
THEOREM FittingDeliveredSafe == NecSpec => []FittingDelivered
<1> QED BY FittingStep, NecInvariance, PTL

\* Every key of the two remotes arrives as it was sent.
THEOREM KeysDeliveredSafe == NecSpec => []KeysDelivered
<1> QED BY KeysStep, NecInvariance, PTL

\* One wrong unit, wherever it is, never makes another command but 255 of a frame
\* that is no longer than the bitmap and keeps its address.
THEOREM CommandProtectedSafe == NecSpec => []CommandProtected
<1> QED BY ProtectedStep, NecInvariance, PTL

\* Nor does it make another key of a key.
THEOREM KeysNotMistakenSafe == NecSpec => []KeysNotMistaken
<1> QED BY NotMistakenStep, NecInvariance, PTL

=============================================================================
