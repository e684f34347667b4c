--------------------------- MODULE ConsoleProofs ---------------------------
(***************************************************************************)
(* The console, for every set of commands and every number and size of the *)
(* serial buffers.                                                         *)
(*                                                                         *)
(* The argument for the line that reaches the host: what the host will     *)
(* have heard when it has read everything that waits for it only changes   *)
(* by what main writes.  A buffer that is posted, flushed or read moves    *)
(* text towards the host and leaves that alone.                            *)
(***************************************************************************)
EXTENDS Console, Iteration, SequenceTheorems, FiniteSetTheorems

-----------------------------------------------------------------------------
(* What the host makes of a text. *)

\* What the host may have heard of a line.
Heard == {h \in Seq(Values) : Len(h) <= Len(LineParts)}

LEMMA HearType ==
  ASSUME NEW h \in Heard, NEW p \in Parts
  PROVE  Hear(h, p) \in Heard
<1>1. p.value \in Values /\ Len(LineParts) = 3 /\ << >> \in Heard
  BY DEF Parts, Heard, LineParts
<1> DEFINE so_far == IF Len(h) = Len(LineParts) THEN << >> ELSE h
<1>2. so_far \in Seq(Values) /\ Len(so_far) <= 2
  BY <1>1 DEF Heard
<1>3. << p.value >> \in Heard
  BY <1>1 DEF Heard
<1> HIDE DEF so_far
<1>4. Append(so_far, p.value) \in Heard
  BY <1>1, <1>2, AppendProperties DEF Heard
<1>5. Hear(h, p) \in {<< p.value >>, Append(so_far, p.value), << >>}
  BY DEF Hear, so_far
<1> QED BY <1>1, <1>3, <1>4, <1>5

\* The recursion of HearText.
LEMMA HearTextIterates ==
  ASSUME NEW h \in Heard, NEW t \in Text
  PROVE  \E f \in [0..Len(t) -> Heard] :
           /\ Iterates(f, h, [i \in 1..Len(t) |-> [v \in Heard |-> Hear(v, t[i])]], Len(t))
           /\ HearText(h, t) = f[Len(t)]
<1> DEFINE N == Len(t)
           F == [i \in 1..N |-> [v \in Heard |-> Hear(v, t[i])]]
           IsHear(g) == g = [n \in 0..N |-> IF n = 0 THEN h ELSE Hear(g[n - 1], t[n])]
           hear == CHOOSE g : IsHear(g)
<1>1. N \in Nat /\ \A i \in 1..N : t[i] \in Parts
  BY DEF Text
<1>2. F \in [1..N -> [Heard -> Heard]]
  <2>1. ASSUME NEW i \in 1..N PROVE [v \in Heard |-> Hear(v, t[i])] \in [Heard -> Heard]
    BY <1>1, HearType
  <2> QED BY <2>1
<1>3. PICK f \in [0..N -> Heard] : Iterates(f, h, F, N)
  <2> HIDE DEF F, N
  <2> QED BY <1>1, <1>2, IterationExists
<1>4. IsHear(f)
  <2>1. ASSUME NEW n \in 0..N PROVE f[n] = IF n = 0 THEN h ELSE Hear(f[n - 1], t[n])
    <3>1. CASE n = 0
      BY <1>3, <3>1 DEF Iterates
    <3>2. CASE n # 0
      <4>1. n \in 1..N /\ n - 1 \in 0..N
        BY <1>1, <3>2
      <4>2. f[n] = F[n][f[n - 1]] /\ f[n - 1] \in Heard
        BY <1>3, <4>1 DEF Iterates
      <4> QED BY <3>2, <4>1, <4>2
    <3> QED BY <3>1, <3>2
  <2> QED BY <2>1
<1>5. IsHear(hear)
  <2> HIDE DEF IsHear
  <2> QED BY <1>4
<1>6. HearText(h, t) = hear[N]
  BY DEF HearText
<1> HIDE DEF hear
<1>7. Iterates(hear, h, F, N) /\ hear \in [0..N -> Heard]
  <2> DEFINE S == {n \in Nat : n <= N => hear[n] = f[n]}
  <2>1. 0 \in S
    BY <1>3, <1>5, <1>1 DEF Iterates
  <2>2. ASSUME NEW n \in Nat, n \in S PROVE n + 1 \in S
    <3> SUFFICES ASSUME n + 1 <= N PROVE hear[n + 1] = f[n + 1]
      OBVIOUS
    <3>1. n + 1 \in 0..N /\ n + 1 # 0 /\ (n + 1) - 1 = n /\ n <= N
      BY <1>1
    <3>2. hear[n] = f[n]
      BY <2>2, <3>1
    <3> QED BY <1>4, <1>5, <3>1, <3>2
  <2>3. Nat \subseteq S
    <3> HIDE DEF S
    <3> QED BY <2>1, <2>2, NumberInduction
  <2>4. hear = f
    BY <1>1, <1>4, <1>5, <2>3
  <2> QED BY <1>3, <2>4
<1> QED BY <1>6, <1>7

LEMMA HearTextType ==
  ASSUME NEW h \in Heard, NEW t \in Text
  PROVE  HearText(h, t) \in Heard
<1>1. PICK f \in [0..Len(t) -> Heard] : HearText(h, t) = f[Len(t)]
  BY HearTextIterates
<1>2. Len(t) \in 0..Len(t)
  BY DEF Text
<1> QED BY <1>1, <1>2

\* Nothing is heard of an empty text.
LEMMA HearTextEmpty == ASSUME NEW h \in Heard PROVE HearText(h, << >>) = h
<1>1. << >> \in Text /\ Len(<< >>) = 0
  BY DEF Text
<1> QED BY <1>1, HearTextIterates DEF Iterates

\* One more part is heard after what was heard before it.
LEMMA HearTextAppend ==
  ASSUME NEW h \in Heard, NEW t \in Text, NEW p \in Parts
  PROVE  HearText(h, Append(t, p)) = Hear(HearText(h, t), p)
<1> DEFINE u == Append(t, p)
           N == Len(t)
           F == [i \in 1..N |-> [v \in Heard |-> Hear(v, t[i])]]
           G == [i \in 1..Len(u) |-> [v \in Heard |-> Hear(v, u[i])]]
<1>1. /\ N \in Nat /\ u \in Text /\ Len(u) = N + 1 /\ u[N + 1] = p
      /\ \A i \in 1..N : u[i] = t[i]
  BY DEF Text
<1> HIDE DEF u
<1>2. PICK f \in [0..N -> Heard] : Iterates(f, h, F, N) /\ HearText(h, t) = f[N]
  BY HearTextIterates
<1>3. PICK g \in [0..Len(u) -> Heard] : Iterates(g, h, G, Len(u)) /\ HearText(h, u) = g[Len(u)]
  BY <1>1, HearTextIterates
<1>4. Iterates(g, h, F, N)
  <2>1. \A i \in 1..N : G[i] = F[i]
    BY <1>1
  <2>2. \A i \in 1..N : i \in 1..Len(u)
    BY <1>1
  <2> HIDE DEF F, G
  <2> QED BY <1>3, <2>1, <2>2 DEF Iterates
<1>5. f[N] = g[N]
  <2> HIDE DEF F, N
  <2> QED BY <1>1, <1>2, <1>4, IterationUnique
<1>6. g[N + 1] = Hear(g[N], p)
  <2>1. N + 1 \in 1..Len(u) /\ (N + 1) - 1 = N /\ g[N] \in Heard
    BY <1>1
  <2>2. g[N + 1] = G[N + 1][g[N]]
    BY <1>3, <2>1 DEF Iterates
  <2> QED BY <1>1, <2>1, <2>2
<1> QED BY <1>1, <1>2, <1>3, <1>5, <1>6 DEF u

\* The recursion of HearAll.
LEMMA HearAllIterates ==
  ASSUME NEW h \in Heard, NEW b \in Seq(Text)
  PROVE  \E f \in [0..Len(b) -> Heard] :
           /\ Iterates(f, h, [i \in 1..Len(b) |-> [v \in Heard |-> HearText(v, b[i])]], Len(b))
           /\ HearAll(h, b) = f[Len(b)]
<1> DEFINE N == Len(b)
           F == [i \in 1..N |-> [v \in Heard |-> HearText(v, b[i])]]
           IsHear(g) == g = [n \in 0..N |-> IF n = 0 THEN h ELSE HearText(g[n - 1], b[n])]
           hear == CHOOSE g : IsHear(g)
<1>1. N \in Nat /\ \A i \in 1..N : b[i] \in Text
  OBVIOUS
<1>2. F \in [1..N -> [Heard -> Heard]]
  <2>1. ASSUME NEW i \in 1..N PROVE [v \in Heard |-> HearText(v, b[i])] \in [Heard -> Heard]
    BY <1>1, HearTextType
  <2> QED BY <2>1
<1>3. PICK f \in [0..N -> Heard] : Iterates(f, h, F, N)
  <2> HIDE DEF F, N
  <2> QED BY <1>1, <1>2, IterationExists
<1>4. IsHear(f)
  <2>1. ASSUME NEW n \in 0..N PROVE f[n] = IF n = 0 THEN h ELSE HearText(f[n - 1], b[n])
    <3>1. CASE n = 0
      BY <1>3, <3>1 DEF Iterates
    <3>2. CASE n # 0
      <4>1. n \in 1..N /\ n - 1 \in 0..N
        BY <1>1, <3>2
      <4>2. f[n] = F[n][f[n - 1]] /\ f[n - 1] \in Heard
        BY <1>3, <4>1 DEF Iterates
      <4> QED BY <3>2, <4>1, <4>2
    <3> QED BY <3>1, <3>2
  <2> QED BY <2>1
<1>5. IsHear(hear)
  <2> HIDE DEF IsHear
  <2> QED BY <1>4
<1>6. HearAll(h, b) = hear[N]
  BY DEF HearAll
<1> HIDE DEF hear
<1>7. Iterates(hear, h, F, N) /\ hear \in [0..N -> Heard]
  <2> DEFINE S == {n \in Nat : n <= N => hear[n] = f[n]}
  <2>1. 0 \in S
    BY <1>3, <1>5, <1>1 DEF Iterates
  <2>2. ASSUME NEW n \in Nat, n \in S PROVE n + 1 \in S
    <3> SUFFICES ASSUME n + 1 <= N PROVE hear[n + 1] = f[n + 1]
      OBVIOUS
    <3>1. n + 1 \in 0..N /\ n + 1 # 0 /\ (n + 1) - 1 = n /\ n <= N
      BY <1>1
    <3>2. hear[n] = f[n]
      BY <2>2, <3>1
    <3> QED BY <1>4, <1>5, <3>1, <3>2
  <2>3. Nat \subseteq S
    <3> HIDE DEF S
    <3> QED BY <2>1, <2>2, NumberInduction
  <2>4. hear = f
    BY <1>1, <1>4, <1>5, <2>3
  <2> QED BY <1>3, <2>4
<1> QED BY <1>6, <1>7

LEMMA HearAllType ==
  ASSUME NEW h \in Heard, NEW b \in Seq(Text)
  PROVE  HearAll(h, b) \in Heard
<1>1. PICK f \in [0..Len(b) -> Heard] : HearAll(h, b) = f[Len(b)]
  BY HearAllIterates
<1>2. Len(b) \in 0..Len(b)
  OBVIOUS
<1> QED BY <1>1, <1>2

\* Nothing is heard when no buffer waits.
LEMMA HearAllEmpty == ASSUME NEW h \in Heard PROVE HearAll(h, << >>) = h
<1> DEFINE none == << >>
<1>1. none \in Seq(Text) /\ Len(none) = 0
  OBVIOUS
<1> HIDE DEF none
<1>2. PICK f \in [0..Len(none) -> Heard] :
         /\ Iterates(f, h, [i \in 1..Len(none) |-> [v \in Heard |-> HearText(v, none[i])]],
                     Len(none))
         /\ HearAll(h, none) = f[Len(none)]
  BY <1>1, HearAllIterates, Zenon
<1>3. f[0] = h
  BY <1>2 DEF Iterates
<1> QED BY <1>1, <1>2, <1>3 DEF none

\* One more buffer is heard after those before it.
LEMMA HearAllAppend ==
  ASSUME NEW h \in Heard, NEW b \in Seq(Text), NEW t \in Text
  PROVE  HearAll(h, Append(b, t)) = HearText(HearAll(h, b), t)
<1> DEFINE c == Append(b, t)
           N == Len(b)
           F == [i \in 1..N |-> [v \in Heard |-> HearText(v, b[i])]]
           G == [i \in 1..Len(c) |-> [v \in Heard |-> HearText(v, c[i])]]
<1>1. /\ N \in Nat /\ c \in Seq(Text) /\ Len(c) = N + 1 /\ c[N + 1] = t
      /\ \A i \in 1..N : c[i] = b[i]
  OBVIOUS
<1> HIDE DEF c
<1>2. PICK f \in [0..N -> Heard] : Iterates(f, h, F, N) /\ HearAll(h, b) = f[N]
  BY HearAllIterates
<1>3. PICK g \in [0..Len(c) -> Heard] : Iterates(g, h, G, Len(c)) /\ HearAll(h, c) = g[Len(c)]
  BY <1>1, HearAllIterates
<1>4. Iterates(g, h, F, N)
  <2>1. \A i \in 1..N : G[i] = F[i]
    BY <1>1
  <2>2. \A i \in 1..N : i \in 1..Len(c)
    BY <1>1
  <2> HIDE DEF F, G
  <2> QED BY <1>3, <2>1, <2>2 DEF Iterates
<1>5. f[N] = g[N]
  <2> HIDE DEF F, N
  <2> QED BY <1>1, <1>2, <1>4, IterationUnique
<1>6. g[N + 1] = HearText(g[N], t)
  <2>1. N + 1 \in 1..Len(c) /\ (N + 1) - 1 = N /\ g[N] \in Heard
    BY <1>1
  <2>2. g[N + 1] = G[N + 1][g[N]]
    BY <1>3, <2>1 DEF Iterates
  <2> QED BY <1>1, <2>1, <2>2
<1> QED BY <1>1, <1>2, <1>3, <1>5, <1>6 DEF c

\* The host takes the buffers from the front.
LEMMA HearAllTail ==
  ASSUME NEW h \in Heard, NEW b \in Seq(Text), b # << >>
  PROVE  HearAll(HearText(h, Head(b)), Tail(b)) = HearAll(h, b)
<1> DEFINE c == Tail(b)
           N == Len(c)
           k == HearText(h, Head(b))
           F == [i \in 1..N |-> [v \in Heard |-> HearText(v, c[i])]]
           G == [i \in 1..Len(b) |-> [v \in Heard |-> HearText(v, b[i])]]
<1>1. /\ N \in Nat /\ c \in Seq(Text) /\ Len(b) = N + 1
      /\ Head(b) = b[1] /\ Head(b) \in Text /\ \A i \in 1..N : c[i] = b[i + 1]
  BY HeadTailProperties
<1>2. k \in Heard
  BY <1>1, HearTextType
<1> HIDE DEF c, k
<1>3. PICK f \in [0..N -> Heard] : Iterates(f, k, F, N) /\ HearAll(k, c) = f[N]
  BY <1>1, <1>2, HearAllIterates
<1>4. PICK g \in [0..Len(b) -> Heard] : Iterates(g, h, G, Len(b)) /\ HearAll(h, b) = g[Len(b)]
  BY HearAllIterates
<1> DEFINE later == [i \in 0..N |-> g[i + 1]]
<1>5. Iterates(later, k, F, N)
  <2>1. ASSUME NEW i \in 0..N PROVE g[i + 1] = HearText(g[i], b[i + 1])
    <3>1. i + 1 \in 1..Len(b) /\ (i + 1) - 1 = i /\ g[i] \in Heard
      BY <1>1
    <3>2. g[i + 1] = G[i + 1][g[i]]
      BY <1>4, <3>1 DEF Iterates
    <3> QED BY <3>1, <3>2
  <2>2. later[0] = k
    <3>1. 0 \in 0..N /\ g[0] = h
      BY <1>1, <1>4 DEF Iterates
    <3>2. g[0 + 1] = HearText(g[0], b[0 + 1])
      BY <2>1, <3>1
    <3> QED BY <1>1, <3>1, <3>2 DEF k
  <2>3. ASSUME NEW i \in 1..N PROVE later[i] = F[i][later[i - 1]]
    <3>1. i \in 0..N /\ i - 1 \in 0..N /\ (i - 1) + 1 = i /\ i \in 0..Len(b)
      BY <1>1
    <3>2. later[i] = HearText(g[i], b[i + 1]) /\ later[i - 1] = g[i] /\ g[i] \in Heard
      BY <2>1, <3>1
    <3> QED BY <1>1, <3>2
  <2> QED BY <2>2, <2>3 DEF Iterates
<1>6. f[N] = later[N]
  <2> HIDE DEF F, N, later
  <2> QED BY <1>1, <1>3, <1>5, IterationUnique
<1> QED BY <1>1, <1>3, <1>4, <1>6 DEF c, k

-----------------------------------------------------------------------------
(* The serial driver's buffers. *)

\* A buffer that is being filled is not full, and one is free to post it to.
Sdus ==
  {s \in [suspended : BOOLEAN, partial : Text, posted : Seq(Text), writer : Writers] :
     /\ Len(s.partial) < BufferSize /\ Len(s.posted) <= BufferNumber
     /\ s.partial # << >> => Len(s.posted) < BufferNumber}

\* Posting the buffer that is being filled changes nothing for the host.
LEMMA PostedHeard ==
  ASSUME NEW h \in Heard, NEW b \in Seq(Text), NEW t \in Text
  PROVE  HearText(HearAll(h, Append(b, t)), << >>) = HearText(HearAll(h, b), t)
<1>1. HearAll(h, b) \in Heard
  BY HearAllType
<1>2. HearText(HearAll(h, b), t) \in Heard
  BY <1>1, HearTextType
<1> QED BY <1>2, HearAllAppend, HearTextEmpty

\* A part that is written is the next one the host hears.
LEMMA WriteHeard ==
  ASSUME NEW s \in Sdus, NEW p \in Parts, NEW h \in Heard
  PROVE  /\ SduWrite(s, p) \in Sdus /\ SduWrite(s, p).suspended = s.suspended
         /\ SduWrite(s, p).writer = "none"
         /\ ~SduFull(s) => WillHear(h, SduWrite(s, p)) = Hear(WillHear(h, s), p)
<1> DEFINE text == Append(s.partial, p)
           t    == [s EXCEPT !.writer = "none"]
           more == [t EXCEPT !.partial = text]
           sent == [t EXCEPT !.partial = << >>, !.posted = Append(@, text)]
<1>1. /\ s.partial \in Text /\ s.posted \in Seq(Text) /\ Len(s.posted) \in Nat
      /\ Len(s.partial) < BufferSize /\ Len(s.posted) <= BufferNumber
      /\ s.partial # << >> => Len(s.posted) < BufferNumber
  BY DEF Sdus
<1>2. t \in Sdus /\ t.suspended = s.suspended /\ t.writer = "none"
  BY DEF Sdus, Writers
<1>3. text \in Text /\ << >> \in Text /\ Len(<< >>) = 0
  BY <1>1 DEF Text
<1>4. Append(s.posted, text) \in Seq(Text) /\ Len(Append(s.posted, text)) = Len(s.posted) + 1
  BY <1>1, <1>3
<1>5. /\ more.partial = text /\ more.posted = s.posted
      /\ sent.partial = << >> /\ sent.posted = Append(s.posted, text)
  BY <1>2 DEF Sdus
<1>6. HearAll(h, s.posted) \in Heard
  BY <1>1, HearAllType
<1>7. HearText(HearAll(h, s.posted), text) = Hear(WillHear(h, s), p)
  BY <1>1, <1>6, HearTextAppend DEF WillHear
<1>8. ASSUME ~SduFull(s) PROVE Len(s.posted) < BufferNumber
  BY <1>1, <1>8, BufferAssumption DEF SduFull
<1> HIDE DEF text
<1>9. ASSUME ~SduFull(s), Len(text) < BufferSize
      PROVE  /\ more \in Sdus /\ more.suspended = s.suspended /\ more.writer = "none"
             /\ WillHear(h, more) = Hear(WillHear(h, s), p)
  <2>1. more \in Sdus /\ more.suspended = s.suspended /\ more.writer = "none"
    BY <1>2, <1>3, <1>8, <1>9 DEF Sdus
  <2>2. WillHear(h, more) = Hear(WillHear(h, s), p)
    BY <1>5, <1>7 DEF WillHear
  <2> QED BY <2>1, <2>2
<1>10. ASSUME ~SduFull(s)
       PROVE  /\ sent \in Sdus /\ sent.suspended = s.suspended /\ sent.writer = "none"
              /\ WillHear(h, sent) = Hear(WillHear(h, s), p)
  <2>1. sent \in Sdus /\ sent.suspended = s.suspended /\ sent.writer = "none"
    <3>1. Len(s.posted) + 1 <= BufferNumber /\ 0 < BufferSize
      BY <1>1, <1>8, <1>10, BufferAssumption
    <3> QED BY <1>2, <1>3, <1>4, <3>1 DEF Sdus
  <2>2. WillHear(h, sent) = Hear(WillHear(h, s), p)
    BY <1>1, <1>3, <1>5, <1>7, PostedHeard DEF WillHear
  <2> QED BY <2>1, <2>2
<1> HIDE DEF t, more, sent
<1>11. SduWrite(s, p) = IF SduFull(s) THEN t ELSE IF Len(text) < BufferSize THEN more ELSE sent
  BY DEF SduWrite, t, more, sent, text
<1> QED BY <1>2, <1>9, <1>10, <1>11

\* A writer that waits or gives up moves no text.
LEMMA WriterHeard ==
  ASSUME NEW s \in Sdus, NEW h
  PROVE  /\ SduWait(s) \in Sdus /\ SduWait(s).suspended = s.suspended
         /\ SduWait(s).writer = "waiting" /\ WillHear(h, SduWait(s)) = WillHear(h, s)
         /\ SduGiveUp(s) \in Sdus /\ SduGiveUp(s).suspended = s.suspended
         /\ SduGiveUp(s).writer = "none" /\ WillHear(h, SduGiveUp(s)) = WillHear(h, s)
<1>1. /\ SduWait(s) \in Sdus /\ SduWait(s).suspended = s.suspended
      /\ SduWait(s).writer = "waiting"
      /\ SduGiveUp(s) \in Sdus /\ SduGiveUp(s).suspended = s.suspended
      /\ SduGiveUp(s).writer = "none"
  BY DEF Sdus, Writers, SduWait, SduGiveUp
<1>2. /\ SduWait(s).posted = s.posted /\ SduWait(s).partial = s.partial
      /\ SduGiveUp(s).posted = s.posted /\ SduGiveUp(s).partial = s.partial
  BY DEF Sdus, SduWait, SduGiveUp
<1> QED BY <1>1, <1>2 DEF WillHear

\* Nor does the start of a USB frame, towards the host.
LEMMA FrameHeard ==
  ASSUME NEW s \in Sdus, NEW h \in Heard
  PROVE  /\ SduFrameStart(s) \in Sdus /\ SduFrameStart(s).suspended = s.suspended
         /\ SduFrameStart(s).writer = s.writer
         /\ WillHear(h, SduFrameStart(s)) = WillHear(h, s)
<1>1. /\ s.partial \in Text /\ s.posted \in Seq(Text)
      /\ << >> \in Text /\ Len(<< >>) = 0
      /\ << s.partial >> \in Seq(Text) /\ Len(<< s.partial >>) = 1
  BY DEF Sdus, Text
<1>2. CASE s.posted = << >> /\ s.partial # << >>
  <2> DEFINE t == [s EXCEPT !.partial = << >>, !.posted = << s.partial >>]
  <2>1. SduFrameStart(s) = t
    BY <1>2 DEF SduFrameStart
  <2>2. t \in Sdus /\ t.suspended = s.suspended /\ t.writer = s.writer
    <3>1. 1 <= BufferNumber /\ 0 < BufferSize
      BY BufferAssumption
    <3>2. t \in [suspended : BOOLEAN, partial : Text, posted : Seq(Text), writer : Writers]
      BY <1>1 DEF Sdus
    <3>3. /\ t.partial = << >> /\ Len(t.partial) = 0 /\ Len(t.posted) = 1
          /\ t.suspended = s.suspended /\ t.writer = s.writer
      BY <1>1 DEF Sdus
    <3> HIDE DEF t
    <3> QED BY <3>1, <3>2, <3>3 DEF Sdus
  <2>3. t.partial = << >> /\ t.posted = << s.partial >>
    BY DEF Sdus
  <2>4. << s.partial >> = Append(s.posted, s.partial)
    BY <1>2
  <2> HIDE DEF t
  <2>5. t.posted = Append(s.posted, s.partial)
    BY <2>3, <2>4, Zenon
  <2>6. HearText(HearAll(h, Append(s.posted, s.partial)), << >>)
          = HearText(HearAll(h, s.posted), s.partial)
    BY <1>1, PostedHeard
  <2>7. WillHear(h, t) = WillHear(h, s)
    BY <2>3, <2>5, <2>6, Zenon DEF WillHear
  <2> QED BY <2>1, <2>2, <2>7
<1>3. CASE ~(s.posted = << >> /\ s.partial # << >>)
  BY <1>3 DEF SduFrameStart
<1> QED BY <1>2, <1>3

\* What the host reads it need not read any more.
LEMMA ReadHeard ==
  ASSUME NEW s \in Sdus, s.posted # << >>, NEW h \in Heard
  PROVE  /\ SduTransmitted(s) \in Sdus /\ SduTransmitted(s).suspended = s.suspended
         /\ SduTransmitted(s).writer \in {s.writer, "retry"}
         /\ s.writer = "none" => SduTransmitted(s).writer = "none"
         /\ HearText(h, Head(s.posted)) \in Heard
         /\ WillHear(HearText(h, Head(s.posted)), SduTransmitted(s)) = WillHear(h, s)
<1>1. /\ s.posted \in Seq(Text)
      /\ Tail(s.posted) \in Seq(Text) /\ Head(s.posted) \in Text
      /\ Len(s.posted) \in Nat /\ Len(Tail(s.posted)) = Len(s.posted) - 1
  BY HeadTailProperties DEF Sdus
<1>2. /\ Release(s.writer, "retry") \in Writers \cap {s.writer, "retry"}
      /\ s.writer = "none" => Release(s.writer, "retry") = "none"
  BY DEF Sdus, Release, Writers
<1>3. /\ SduTransmitted(s).posted = Tail(s.posted) /\ SduTransmitted(s).partial = s.partial
      /\ SduTransmitted(s).suspended = s.suspended
      /\ SduTransmitted(s).writer = Release(s.writer, "retry")
  BY DEF Sdus, SduTransmitted
<1>4. SduTransmitted(s) \in Sdus
  <2> DEFINE t == SduTransmitted(s)
  <2>1. BufferNumber \in Nat
    BY BufferAssumption
  <2>2. t \in [suspended : BOOLEAN, partial : Text, posted : Seq(Text), writer : Writers]
    BY <1>1, <1>2 DEF Sdus, SduTransmitted
  <2>3. /\ Len(s.partial) < BufferSize /\ Len(s.posted) <= BufferNumber
        /\ s.partial # << >> => Len(s.posted) < BufferNumber
    BY DEF Sdus
  <2>4. /\ Len(t.partial) < BufferSize /\ Len(t.posted) <= BufferNumber
        /\ t.partial # << >> => Len(t.posted) < BufferNumber
    BY <1>1, <1>3, <2>1, <2>3
  <2> HIDE DEF t
  <2>5. t \in Sdus
    BY <2>2, <2>4 DEF Sdus
  <2> QED BY <2>5 DEF t
<1>5. HearText(h, Head(s.posted)) \in Heard
  BY <1>1, HearTextType
<1>6. HearAll(HearText(h, Head(s.posted)), Tail(s.posted)) = HearAll(h, s.posted)
  BY <1>1, HearAllTail
<1> QED BY <1>2, <1>3, <1>4, <1>5, <1>6 DEF WillHear

\* usb_event: connected after "configured" and "wakeup", not connected after
\* the others that matter.  No event makes a writer wait.
LEMMA EventSuspends ==
  ASSUME NEW s \in Sdus, NEW event
  PROVE  /\ usb_event(s, event) \in Sdus
         /\ event \in {"configured", "wakeup"} => usb_event(s, event).suspended = FALSE
         /\ event \in {"reset", "unconfigured", "suspend"} =>
              usb_event(s, event).suspended = TRUE
         /\ s.writer = "none" => usb_event(s, event).writer = "none"
<1>1. << >> \in Text /\ << >> \in Seq(Text) /\ Len(<< >>) = 0
  BY DEF Text
<1>2. /\ Release(s.writer, "reset") \in Writers
      /\ s.writer = "none" => Release(s.writer, "reset") = "none"
  BY DEF Sdus, Release, Writers
<1>3. SduConfigure(s) \in Sdus /\ SduConfigure(s).suspended = FALSE
  BY <1>1, <1>2, BufferAssumption DEF Sdus, SduConfigure
<1>4. SduSuspend(s) \in Sdus /\ SduSuspend(s).suspended = TRUE
  BY <1>2 DEF Sdus, SduSuspend
<1>5. SduWakeup(s) \in Sdus /\ SduWakeup(s).suspended = FALSE
  BY DEF Sdus, SduWakeup
<1>6. /\ SduConfigure(s).writer = Release(s.writer, "reset")
      /\ SduSuspend(s).writer = Release(s.writer, "reset") /\ SduWakeup(s).writer = s.writer
  BY DEF Sdus, SduConfigure, SduSuspend, SduWakeup
<1> QED BY <1>2, <1>3, <1>4, <1>5, <1>6 DEF usb_event

-----------------------------------------------------------------------------
(* The inductive invariant. *)

\* What the callback stores, and what the loop holds of it.
Typed ==
  /\ session \in Commands \cup {NoCommand}
  /\ last_call \in [command : Commands \cup {NoCommand}, repeat : BOOLEAN, odd : BOOLEAN]
  /\ was_command \in BOOLEAN
  /\ cmd_address \in Addresses /\ cmd_command \in Numbers /\ cmd_repeat \in {0, 1}
  /\ main \in {"test", "load", "print", "clear"}
  /\ todo \in SUBSET (Fields \cup Flags)
  /\ args \in [Fields -> Values]
  /\ part \in 1..3
  /\ sdu \in Sdus
  /\ bus \in {"default", "configured"} /\ asleep \in BOOLEAN /\ woken \in BOOLEAN
  /\ fate \in {"none", "overlapped", "cut"}
  /\ heard \in Heard

\* The fields hold the last call.
Mailed ==
  /\ cmd_address = last_call.command.address
  /\ cmd_command = last_call.command.command
  /\ cmd_repeat = Digit(last_call.repeat)

Loaded(f) ==
  args[f] = CASE f = "address" -> last_call.command.address
              [] f = "command" -> last_call.command.command
              [] f = "repeat"  -> Digit(last_call.repeat)

\* The loop is at a line of the last call, or has none to print.
Current ==
  fate # "overlapped" =>
    /\ main = "test" /\ was_command => Mailed
    /\ main = "load" => Mailed /\ \A f \in Fields \ todo : Loaded(f)
    /\ main = "print" => \A i \in part..3 : Loaded(LineParts[i])
    /\ main = "clear" /\ "was_command" \notin todo => ~was_command

\* Only a print waits for the serial driver, and it is begun with a whole line.
AtPrint == main # "print" => part = 1 /\ sdu.writer = "none"

\* When nothing is in the way of a call the bus is connected, nobody is told to
\* give up, and the parts that were printed are the last that wait for the host.
Progress ==
  fate = "none" =>
    /\ Connected /\ sdu.writer # "reset"
    /\ main = "print" /\ part = 2 => WillHear(heard, sdu) = << LastLine[1] >>
    /\ main = "print" /\ part = 3 => WillHear(heard, sdu) = << LastLine[1], LastLine[2] >>
    /\ main = "clear" => WillHear(heard, sdu) = LastLine
    /\ main = "test" /\ ~was_command => WillHear(heard, sdu) = LastLine

\* Configuring the device makes good for an early wakeup.
WokenEarly == bus = "configured" => ~woken

ConsoleInv ==
  /\ Typed /\ Current /\ AtPrint /\ Progress
  /\ SerialFollowsBus /\ WokenEarly

LEMMA ConsoleInitInv == Init => ConsoleInv
<1> SUFFICES ASSUME Init PROVE ConsoleInv
  OBVIOUS
<1>1. /\ NoCommand.address \in Addresses /\ NoCommand.command \in Numbers
      /\ NoLine \in [Fields -> Values] /\ Len(LineParts) = 3
  BY DEF Addresses, Numbers, NoLine, Values, LineParts
<1>2. sdu \in Sdus /\ sdu.suspended = TRUE /\ sdu.writer = "none"
  <2>1. << >> \in Text /\ << >> \in Seq(Text) /\ Len(<< >>) = 0
    BY DEF Text
  <2> QED BY <2>1, BufferAssumption DEF Init, SduInit, Sdus, Writers
<1>3. Typed
  <2>1. was_command \in BOOLEAN /\ asleep \in BOOLEAN /\ woken \in BOOLEAN
    BY Zenon DEF Init
  <2>2. /\ session \in Commands \cup {NoCommand}
        /\ last_call \in [command : Commands \cup {NoCommand}, repeat : BOOLEAN, odd : BOOLEAN]
    BY DEF Init, Channel!Init
  <2>3. heard \in Heard
    BY <1>1 DEF Init, Heard
  <2> QED BY <1>1, <1>2, <2>1, <2>2, <2>3 DEF Init, Typed
<1>4. Current /\ AtPrint /\ Progress
  BY <1>2 DEF Init, Current, AtPrint, Progress
<1>5. SerialFollowsBus /\ WokenEarly
  <2>1. asleep = FALSE /\ bus # "configured" /\ woken = FALSE
    BY DEF Init
  <2> QED BY <1>2, <2>1, Zenon DEF SerialFollowsBus, WokenEarly
<1> QED BY <1>3, <1>4, <1>5 DEF ConsoleInv

\* The type invariant, once the inductive one holds.
LEMMA ConsoleTypes == ConsoleInv => TypeOK
<1> SUFFICES ASSUME ConsoleInv PROVE TypeOK
  OBVIOUS
<1>1. Len(LineParts) = 3
  BY DEF LineParts
<1>2. /\ sdu \in [suspended : BOOLEAN, partial : Text, posted : Seq(Text), writer : Writers]
      /\ Len(sdu.partial) < BufferSize /\ Len(sdu.posted) <= BufferNumber
  BY DEF ConsoleInv, Typed, Sdus
<1>3. heard \in Seq(Values) /\ Len(heard) <= Len(LineParts)
  BY DEF ConsoleInv, Typed, Heard
<1> QED BY <1>1, <1>2, <1>3 DEF ConsoleInv, Typed, TypeOK

\* The line that is printed, once the invariant holds.
LEMMA PrintsCurrent == ConsoleInv => PrintsLastCall
<1> SUFFICES ASSUME ConsoleInv, main = "print", part = 1, fate # "overlapped"
             PROVE  \A i \in 1..3 : Loaded(LineParts[i])
  BY DEF PrintsLastCall, Loaded, LineParts
<1> QED BY DEF ConsoleInv, Current

\* A call replaces what was there before; one that comes while main is at a line
\* is overlapped.
LEMMA StoreStep ==
  ASSUME ConsoleInv, NEW c \in Commands \cup {NoCommand}, NEW repeat \in BOOLEAN,
         Channel!Calls(c, repeat), Store(c, repeat),
         session' \in Commands \cup {NoCommand},
         fate' = IF main # "test" THEN "overlapped"
                 ELSE IF Connected THEN "none" ELSE "cut",
         heard' = << >>,
         UNCHANGED <<loop, sdu, host>>
  PROVE  ConsoleInv'
<1>1. /\ cmd_address' = c.address /\ cmd_command' = c.command
      /\ cmd_repeat' = Digit(repeat) /\ was_command' = TRUE
  BY DEF Store
<1>2. /\ last_call'.command = c /\ last_call'.repeat = repeat
      /\ last_call' \in [command : Commands \cup {NoCommand}, repeat : BOOLEAN, odd : BOOLEAN]
  BY DEF Channel!Calls, ConsoleInv, Typed
<1>3. Mailed'
  BY <1>1, <1>2 DEF Mailed
<1>4. UNCHANGED <<main, todo, args, part, sdu, bus, asleep, woken>>
  BY DEF loop, host
<1>5. Typed'
  <2>1. was_command' \in BOOLEAN
    BY <1>1, Zenon
  <2>2. /\ cmd_address' \in Addresses /\ cmd_command' \in Numbers
        /\ cmd_repeat' \in {0, 1}
    BY <1>1 DEF Addresses, Numbers, Digit
  <2>3. heard' \in Heard /\ fate' \in {"none", "overlapped", "cut"}
    BY DEF Heard, LineParts
  <2> QED BY <1>2, <1>4, <2>1, <2>2, <2>3 DEF ConsoleInv, Typed
<1>6. Current'
  BY <1>3, <1>4 DEF Current
<1>7. AtPrint'
  BY <1>4 DEF ConsoleInv, AtPrint
<1>8. Progress'
  <2> SUFFICES ASSUME fate' = "none" PROVE main' = "test" /\ Connected' /\ sdu'.writer = "none"
    BY <1>1 DEF Progress
  <2>1. main = "test" /\ Connected
    OBVIOUS
  <2> QED BY <1>4, <2>1 DEF ConsoleInv, AtPrint, Connected
<1>9. SerialFollowsBus' /\ WokenEarly'
  BY <1>4 DEF ConsoleInv, SerialFollowsBus, WokenEarly
<1> QED BY <1>5, <1>6, <1>7, <1>8, <1>9 DEF ConsoleInv

LEMMA CallStep == ConsoleInv /\ Call => ConsoleInv'
<1> SUFFICES ASSUME ConsoleInv, Call PROVE ConsoleInv'
  OBVIOUS
<1>1. /\ fate' = IF main # "test" THEN "overlapped"
                 ELSE IF Connected THEN "none" ELSE "cut"
      /\ heard' = << >>
      /\ UNCHANGED <<loop, sdu, host>>
  BY DEF Call
<1>2. CASE \E c \in Commands : Channel!Deliver(c) /\ Store(c, FALSE)
  <2>1. PICK c \in Commands : Channel!Deliver(c) /\ Store(c, FALSE)
    BY <1>2
  <2>2. Channel!Calls(c, FALSE) /\ session' = c
    BY <2>1 DEF Channel!Deliver
  <2> QED BY <1>1, <2>1, <2>2, StoreStep
<1>3. CASE Channel!Repeat /\ Store(session, TRUE)
  <2>1. Channel!Calls(session, TRUE) /\ session' = session /\ Store(session, TRUE)
    BY <1>3 DEF Channel!Repeat
  <2>2. session \in Commands \cup {NoCommand}
    BY DEF ConsoleInv, Typed
  <2> QED BY <1>1, <2>1, <2>2, StoreStep
<1> QED BY <1>2, <1>3 DEF Call

\* What the conjuncts that are not about types look at.
LEMMA OthersKept ==
  ASSUME ConsoleInv,
         UNCHANGED <<last_call, was_command, cmd_address, cmd_command, cmd_repeat,
                     main, todo, args, part, sdu, bus, asleep, woken, fate, heard>>
  PROVE  Current' /\ AtPrint' /\ Progress' /\ SerialFollowsBus' /\ WokenEarly'
<1>1. Current' /\ AtPrint'
  BY DEF ConsoleInv, Current, Mailed, Loaded, AtPrint
<1>2. Progress'
  <2>1. (WillHear(heard, sdu) = WillHear(heard, sdu)') /\ LastLine' = LastLine
    BY DEF WillHear, LastLine
  <2> QED BY <2>1 DEF ConsoleInv, Progress, Connected
<1>3. SerialFollowsBus' /\ WokenEarly'
  BY DEF ConsoleInv, SerialFollowsBus, WokenEarly
<1> QED BY <1>1, <1>2, <1>3

LEMMA SessionEndsStep == ConsoleInv /\ SessionEnds => ConsoleInv'
<1> SUFFICES ASSUME ConsoleInv, SessionEnds PROVE ConsoleInv'
  OBVIOUS
<1>1. session' = NoCommand /\ last_call' = last_call
  BY DEF SessionEnds, Channel!Close
<1>2. UNCHANGED <<was_command, cmd_address, cmd_command, cmd_repeat, main, todo, args, part,
                  sdu, bus, asleep, woken, fate, heard>>
  BY DEF SessionEnds, mailbox, loop, host, history
<1>3. Typed'
  BY <1>1, <1>2 DEF ConsoleInv, Typed
<1> QED BY <1>1, <1>2, <1>3, OthersKept DEF ConsoleInv

-----------------------------------------------------------------------------
(* The loop of main. *)

\* What every step of the loop leaves alone.
LEMMA OutsideKept ==
  ASSUME ConsoleInv, UNCHANGED Outside
  PROVE  /\ UNCHANGED <<session, last_call, bus, asleep, woken, fate, heard, LastLine>>
         /\ session' \in Commands \cup {NoCommand} /\ bus' \in {"default", "configured"}
         /\ asleep' \in BOOLEAN /\ woken' \in BOOLEAN
         /\ last_call' \in [command : Commands \cup {NoCommand}, repeat : BOOLEAN,
                             odd : BOOLEAN]
         /\ fate' \in {"none", "overlapped", "cut"} /\ heard' \in Heard
         /\ sdu'.suspended = sdu.suspended => SerialFollowsBus'
         /\ WokenEarly'
<1>1. UNCHANGED <<session, last_call, bus, asleep, woken, fate, heard>>
  BY DEF Outside, channel, host, history
<1>2. LastLine' = LastLine
  BY <1>1 DEF LastLine
<1> QED BY <1>1, <1>2 DEF ConsoleInv, Typed, SerialFollowsBus, WokenEarly

\* A call that nothing is in the way of keeps its bus and its writer while the
\* loop runs.
LEMMA ProgressKept ==
  ASSUME ConsoleInv, UNCHANGED Outside, fate' = "none"
  PROVE  /\ fate = "none" /\ Connected' /\ sdu.writer # "reset" /\ ~sdu.suspended
         /\ sdu' = sdu => WillHear(heard, sdu)' = WillHear(heard, sdu)
<1>1. fate = "none" /\ Connected /\ sdu.writer # "reset"
  BY OutsideKept DEF ConsoleInv, Progress
<1>2. Connected'
  BY <1>1, OutsideKept DEF Connected
<1>3. ~sdu.suspended
  BY <1>1 DEF Connected, ConsoleInv, SerialFollowsBus
<1>4. sdu' = sdu => WillHear(heard, sdu)' = WillHear(heard, sdu)
  BY OutsideKept DEF WillHear
<1> QED BY <1>1, <1>2, <1>3, <1>4

LEMMA TestStep == ConsoleInv /\ Test => ConsoleInv'
<1> SUFFICES ASSUME ConsoleInv, Test PROVE ConsoleInv'
  OBVIOUS
<1>1. /\ main = "test" /\ was_command /\ main' = "load" /\ todo' = Fields
      /\ UNCHANGED Outside
      /\ UNCHANGED <<was_command, cmd_address, cmd_command, cmd_repeat, args, part, sdu>>
  BY DEF Test, mailbox
<1>2. Typed'
  BY <1>1, OutsideKept DEF ConsoleInv, Typed
<1>3. Current'
  BY <1>1, OutsideKept DEF ConsoleInv, Current, Mailed
<1>4. AtPrint'
  BY <1>1 DEF ConsoleInv, AtPrint
<1>5. Progress'
  BY <1>1, ProgressKept DEF Progress
<1> QED BY <1>1, <1>2, <1>3, <1>4, <1>5, OutsideKept DEF ConsoleInv

LEMMA LoadStep == ASSUME ConsoleInv, NEW f \in Fields, Load(f) PROVE ConsoleInv'
<1>1. /\ main = "load" /\ f \in todo /\ todo' = todo \ {f}
      /\ main' \in {"load", "print"} /\ (main' = "print" => todo' = {})
      /\ UNCHANGED Outside
      /\ UNCHANGED <<was_command, cmd_address, cmd_command, cmd_repeat, part, sdu>>
  BY DEF Load, mailbox
<1>2. args' = [args EXCEPT ![f] = CASE f = "address" -> cmd_address
                                    [] f = "command" -> cmd_command
                                    [] f = "repeat"  -> cmd_repeat]
  BY DEF Load
<1>3. args \in [Fields -> Values]
  BY DEF ConsoleInv, Typed
<1>4. Typed'
  <2>1. cmd_address \in Values /\ cmd_command \in Values /\ cmd_repeat \in Values
    BY DEF ConsoleInv, Typed, Values
  <2>2. args' \in [Fields -> Values]
    BY <1>2, <1>3, <2>1 DEF Fields
  <2> QED BY <1>1, <2>2, OutsideKept DEF ConsoleInv, Typed
<1>5. Current'
  <2> SUFFICES ASSUME fate' # "overlapped"
               PROVE  Mailed' /\ \A g \in Fields \ todo' : Loaded(g)'
    <3>1. \A i \in part'..3 : part' \in 1..3 => LineParts[i] \in Fields
      BY DEF LineParts, Fields
    <3>2. part' \in 1..3
      BY <1>4 DEF Typed
    <3> QED BY <1>1, <3>1, <3>2 DEF Current
  <2>1. Mailed /\ \A g \in Fields \ todo : Loaded(g)
    BY <1>1, OutsideKept DEF ConsoleInv, Current
  <2>2. Mailed'
    BY <1>1, <2>1, OutsideKept DEF Mailed
  <2>3. Loaded(f)'
    BY <1>2, <1>3, <2>1, OutsideKept, <1>1 DEF Loaded, Mailed, Fields
  <2>4. ASSUME NEW g \in Fields \ todo', g # f PROVE Loaded(g)'
    <3>1. Loaded(g) /\ args'[g] = args[g]
      BY <1>1, <1>2, <1>3, <2>1, <2>4
    <3> QED BY <1>1, <3>1, OutsideKept DEF Loaded
  <2> QED BY <2>2, <2>3, <2>4
<1>6. AtPrint'
  BY <1>1 DEF ConsoleInv, AtPrint
<1>7. Progress'
  <2>1. part' = 1
    BY <1>1 DEF ConsoleInv, AtPrint
  <2> QED BY <1>1, <2>1, ProgressKept DEF Progress
<1> QED BY <1>1, <1>4, <1>5, <1>6, <1>7, OutsideKept DEF ConsoleInv

\* The parts of a line, heard one after the other, make the line.
LEMMA LineHeard ==
  ASSUME NEW h, NEW a, NEW c, NEW v
  PROVE  /\ Hear(h, [field |-> "address", value |-> v]) = << v >>
         /\ Hear(<< a >>, [field |-> "command", value |-> v]) = << a, v >>
         /\ Hear(<< a, c >>, [field |-> "repeat", value |-> v]) = << a, c, v >>
<1>1. /\ LineParts[1] = "address" /\ LineParts[2] = "command" /\ LineParts[3] = "repeat"
      /\ Len(LineParts) = 3 /\ Len(<< a >>) = 1 /\ Len(<< a, c >>) = 2
  BY DEF LineParts
<1>2. << a >> # << >> /\ << a, c >> # << >>
  OBVIOUS
<1>3. Append(<< a >>, v) = << a, v >> /\ Append(<< a, c >>, v) = << a, c, v >>
  <2> DEFINE S == {a, c, v}
  <2>1. /\ << a >> \in Seq(S) /\ << a, c >> \in Seq(S) /\ v \in S
        /\ << a, v >> \in Seq(S) /\ << a, c, v >> \in Seq(S)
    OBVIOUS
  <2> HIDE DEF S
  <2>2. Append(<< a >>, v) = << a, v >>
    <3> DEFINE s == Append(<< a >>, v)
    <3>1. s \in Seq(S) /\ Len(s) = 2 /\ s[1] = a /\ s[2] = v
      BY <2>1, AppendProperties
    <3> HIDE DEF s
    <3>2. s = << a, v >>
      BY <2>1, <3>1, SeqEqual
    <3> QED BY <3>2 DEF s
  <2>3. Append(<< a, c >>, v) = << a, c, v >>
    <3> DEFINE s == Append(<< a, c >>, v)
    <3>1. s \in Seq(S) /\ Len(s) = 3 /\ s[1] = a /\ s[2] = c /\ s[3] = v
      BY <2>1, AppendProperties
    <3> HIDE DEF s
    <3>2. s = << a, c, v >>
      BY <2>1, <3>1, SeqEqual
    <3> QED BY <3>2 DEF s
  <2> QED BY <2>2, <2>3
<1>4. Hear(h, [field |-> "address", value |-> v]) = << v >>
  BY <1>1 DEF Hear
<1>5. Hear(<< a >>, [field |-> "command", value |-> v]) = Append(<< a >>, v)
  BY <1>1, <1>2 DEF Hear
<1>6. Hear(<< a, c >>, [field |-> "repeat", value |-> v]) = Append(<< a, c >>, v)
  BY <1>1, <1>2 DEF Hear
<1> QED BY <1>3, <1>4, <1>5, <1>6, Zenon

\* The second part follows the first, the last one completes the line.
LEMMA CommandHeard ==
  \A a, v : Hear(<< a >>, [field |-> "command", value |-> v]) = << a, v >>
BY LineHeard, Zenon

LEMMA RepeatHeard ==
  \A a, c, v : Hear(<< a, c >>, [field |-> "repeat", value |-> v]) = << a, c, v >>
BY LineHeard, Zenon

\* A part of the line has been dealt with: it was written, or given up in vain.
LEMMA PartStep ==
  ASSUME ConsoleInv, main = "print", NextPart, UNCHANGED <<Outside, mailbox>>,
         sdu' \in Sdus, sdu'.suspended = sdu.suspended, sdu'.writer = "none",
         fate' = "none" => WillHear(heard, sdu') =
           Hear(WillHear(heard, sdu), [field |-> LineParts[part], value |-> args[LineParts[part]]])
  PROVE  ConsoleInv'
<1>1. /\ part \in 1..3 /\ Len(LineParts) = 3 /\ LineParts[part] \in Fields
      /\ LineParts[1] = "address" /\ LineParts[2] = "command" /\ LineParts[3] = "repeat"
  BY DEF ConsoleInv, Typed, LineParts, Fields
<1>2. /\ args \in [Fields -> Values] /\ args' = [args EXCEPT ![LineParts[part]] = 0]
      /\ args' \in [Fields -> Values]
  BY <1>1 DEF NextPart, ConsoleInv, Typed, Values
<1>3. \/ part' = part + 1 /\ part' \in 2..3 /\ main' = "print" /\ todo' = todo
      \/ part = 3 /\ part' = 1 /\ main' = "clear" /\ todo' = Flags
  BY <1>1 DEF NextPart
<1>4. UNCHANGED <<was_command, cmd_address, cmd_command, cmd_repeat>> /\ UNCHANGED Outside
  BY DEF mailbox
<1>5. Typed'
  BY <1>2, <1>3, <1>4, OutsideKept DEF ConsoleInv, Typed
<1>6. Current'
  <2> SUFFICES ASSUME fate' # "overlapped", main' = "print", NEW i \in part'..3
               PROVE  Loaded(LineParts[i])'
    BY <1>3 DEF Current, Flags
  <2>1. i \in part..3 /\ i \in 2..3 /\ LineParts[i] # LineParts[part] /\ LineParts[i] \in Fields
    BY <1>1, <1>3 DEF Fields
  <2>2. Loaded(LineParts[i])
    BY <2>1, <1>4, OutsideKept DEF ConsoleInv, Current
  <2>3. args'[LineParts[i]] = args[LineParts[i]]
    BY <1>1, <1>2, <2>1
  <2> QED BY <2>2, <2>3, <1>4, OutsideKept DEF Loaded
<1>7. AtPrint'
  BY <1>3 DEF AtPrint
<1>8. Progress'
  <2> SUFFICES ASSUME fate' = "none" PROVE Progress'
    BY DEF Progress
  <2> DEFINE will == WillHear(heard, sdu)
             line == LastLine
             v    == args[LineParts[part]]
  <2>1. will' = Hear(will, [field |-> LineParts[part], value |-> v])
    BY <1>4, OutsideKept
  <2>2. fate = "none" /\ Connected' /\ line' = line
    BY <1>4, OutsideKept, ProgressKept
  <2>3. /\ line = << line[1], line[2], line[3] >>
        /\ v = line[part]
    <3>1. Loaded(LineParts[part])
      BY <1>1, <2>2 DEF ConsoleInv, Current
    <3> QED BY <1>1, <3>1 DEF LastLine, Loaded
  <2>4. /\ part = 2 => will = << line[1] >>
        /\ part = 3 => will = << line[1], line[2] >>
    BY <2>2 DEF ConsoleInv, Progress
  <2> HIDE DEF will, line, v
  <2>5. /\ part = 1 => will' = << line[1] >>
        /\ part = 2 => will' = << line[1], line[2] >>
        /\ part = 3 => will' = line
    <3>1. ASSUME part = 1 PROVE will' = << line[1] >>
      <4>1. LineParts[part] = "address" /\ v = line[1]
        BY <1>1, <2>3, <3>1
      <4> QED BY <2>1, <4>1, LineHeard, Zenon
    <3>2. ASSUME part = 2 PROVE will' = << line[1], line[2] >>
      <4>1. LineParts[part] = "command" /\ v = line[2] /\ will = << line[1] >>
        BY <1>1, <2>3, <2>4, <3>2
      <4> QED BY <2>1, <4>1, CommandHeard, Zenon
    <3>3. ASSUME part = 3 PROVE will' = << line[1], line[2], line[3] >>
      <4>1. LineParts[part] = "repeat" /\ v = line[3] /\ will = << line[1], line[2] >>
        BY <1>1, <2>3, <2>4, <3>3
      <4>2. Hear(<< line[1], line[2] >>, [field |-> "repeat", value |-> v])
              = << line[1], line[2], v >>
        BY RepeatHeard, Zenon
      <4> QED BY <2>1, <4>1, <4>2, Zenon
    <3> QED BY <2>3, <3>1, <3>2, <3>3
  <2>6. /\ main' = "print" /\ part' = 2 => will' = << line'[1] >>
        /\ main' = "print" /\ part' = 3 => will' = << line'[1], line'[2] >>
        /\ main' = "clear" => will' = line'
        /\ main' # "test"
    BY <1>1, <1>3, <2>2, <2>5
  <2> QED BY <2>2, <2>6 DEF Progress, will, line
<1> QED BY <1>4, <1>5, <1>6, <1>7, <1>8, OutsideKept DEF ConsoleInv

LEMMA PrintStep == ConsoleInv /\ (WritePart \/ WriteGivesUp) => ConsoleInv'
<1> SUFFICES ASSUME ConsoleInv, WritePart \/ WriteGivesUp PROVE ConsoleInv'
  OBVIOUS
<1>1. sdu \in Sdus /\ heard \in Heard
  BY DEF ConsoleInv, Typed
<1>2. CASE WritePart
  <2> DEFINE p == [field |-> LineParts[part], value |-> args[LineParts[part]]]
  <2>1. LineParts[part] \in Fields /\ args \in [Fields -> Values]
    BY DEF ConsoleInv, Typed, LineParts, Fields
  <2>2. p \in Parts
    BY <2>1 DEF Parts
  <2>3. /\ main = "print" /\ NextPart /\ UNCHANGED <<Outside, mailbox>>
        /\ ~SduBlocks(sdu) /\ sdu' = SduWrite(sdu, p)
    BY <1>2 DEF WritePart
  <2> HIDE DEF p
  <2>4. sdu' \in Sdus /\ sdu'.suspended = sdu.suspended /\ sdu'.writer = "none"
    BY <1>1, <2>2, <2>3, WriteHeard
  <2>5. fate' = "none" => WillHear(heard, sdu') = Hear(WillHear(heard, sdu), p)
    <3> SUFFICES ASSUME fate' = "none" PROVE WillHear(heard, sdu') = Hear(WillHear(heard, sdu), p)
      OBVIOUS
    <3>1. ~SduFull(sdu)
      BY <2>3, ProgressKept DEF SduBlocks
    <3> QED BY <1>1, <2>2, <2>3, <3>1, WriteHeard
  <2> QED BY <2>3, <2>4, <2>5, PartStep DEF p
<1>3. CASE WriteGivesUp
  <2>1. sdu' \in Sdus /\ sdu'.suspended = sdu.suspended /\ sdu'.writer = "none"
    BY <1>1, <1>3, WriterHeard DEF WriteGivesUp
  <2>2. /\ main = "print" /\ NextPart /\ UNCHANGED <<Outside, mailbox>>
        /\ sdu.writer = "reset"
    BY <1>3 DEF WriteGivesUp
  <2>3. fate' # "none"
    BY <2>2, ProgressKept
  <2> QED BY <2>1, <2>2, <2>3, PartStep
<1> QED BY <1>2, <1>3

LEMMA BlockStep == ConsoleInv /\ WriteBlocks => ConsoleInv'
<1> SUFFICES ASSUME ConsoleInv, WriteBlocks PROVE ConsoleInv'
  OBVIOUS
<1>1. /\ UNCHANGED Outside /\ main = "print" /\ sdu' = SduWait(sdu)
      /\ UNCHANGED <<was_command, cmd_address, cmd_command, cmd_repeat, main, todo, args, part>>
  BY DEF WriteBlocks, mailbox, loop
<1>2. /\ sdu' \in Sdus /\ sdu'.suspended = sdu.suspended /\ sdu'.writer = "waiting"
      /\ WillHear(heard, sdu') = WillHear(heard, sdu)
  BY <1>1, WriterHeard DEF ConsoleInv, Typed
<1>3. Typed'
  BY <1>1, <1>2, OutsideKept DEF ConsoleInv, Typed
<1>4. Current' /\ AtPrint'
  BY <1>1, OutsideKept DEF ConsoleInv, Current, Mailed, Loaded, AtPrint
<1>5. Progress'
  <2> SUFFICES ASSUME fate' = "none" PROVE Progress'
    BY DEF Progress
  <2>1. fate = "none" /\ Connected'
    BY <1>1, ProgressKept
  <2>2. WillHear(heard, sdu)' = WillHear(heard, sdu) /\ LastLine' = LastLine
    BY <1>1, <1>2, OutsideKept DEF WillHear
  <2> QED BY <1>1, <1>2, <2>1, <2>2 DEF ConsoleInv, Progress
<1> QED BY <1>1, <1>2, <1>3, <1>4, <1>5, OutsideKept DEF ConsoleInv

\* When the flag has been cleared, it stays so until the next call.
LEMMA ClearStep == ASSUME ConsoleInv, NEW f \in Flags, Clear(f) PROVE ConsoleInv'
<1>1. /\ main = "clear" /\ f \in todo /\ todo' = todo \ {f}
      /\ main' = (IF todo = {f} THEN "test" ELSE "clear")
      /\ was_command' = (was_command /\ f # "was_command")
      /\ cmd_repeat' \in {0, cmd_repeat}
      /\ UNCHANGED Outside /\ UNCHANGED <<cmd_address, cmd_command, args, part, sdu>>
  BY DEF Clear
<1>2. was_command' \in BOOLEAN
  BY <1>1, Zenon
<1>3. Typed'
  BY <1>1, <1>2, OutsideKept DEF ConsoleInv, Typed
<1>4. Current'
  <2> SUFFICES ASSUME fate' # "overlapped", "was_command" \notin todo' PROVE ~was_command'
    <3>1. main' = "test" => "was_command" \notin todo'
      BY <1>1
    <3>2. main' # "load" /\ main' # "print"
      BY <1>1
    <3> QED BY <3>1, <3>2 DEF Current
  <2>1. CASE f = "was_command"
    BY <1>1, <2>1, Zenon
  <2>2. CASE f # "was_command"
    <3>1. "was_command" \notin todo
      BY <1>1, <2>2
    <3>2. ~was_command
      BY <1>1, <3>1, OutsideKept DEF ConsoleInv, Current
    <3> QED BY <1>1, <3>2, Zenon
  <2> QED BY <2>1, <2>2
<1>5. AtPrint'
  BY <1>1 DEF ConsoleInv, AtPrint
<1>6. Progress'
  <2> SUFFICES ASSUME fate' = "none" PROVE Progress'
    BY DEF Progress
  <2>1. fate = "none" /\ Connected' /\ sdu'.writer # "reset"
    BY <1>1, ProgressKept
  <2>2. WillHear(heard, sdu)' = WillHear(heard, sdu) /\ LastLine' = LastLine
    BY <1>1, OutsideKept, ProgressKept
  <2>3. WillHear(heard, sdu) = LastLine
    BY <1>1, <2>1 DEF ConsoleInv, Progress
  <2>4. main' # "print"
    BY <1>1
  <2> QED BY <2>1, <2>2, <2>3, <2>4 DEF Progress
<1> QED BY <1>1, <1>3, <1>4, <1>5, <1>6, OutsideKept DEF ConsoleInv

-----------------------------------------------------------------------------
(* The host. *)

\* What every step of the host leaves alone; it can only spoil a call's fate, and
\* when it does not, it only moves text.
LEMMA BesideKept ==
  ASSUME ConsoleInv, UNCHANGED Beside,
         sdu' \in Sdus, sdu.writer = "none" => sdu'.writer = "none",
         bus' \in {"default", "configured"}, asleep' \in BOOLEAN, woken' \in BOOLEAN,
         fate' \in {fate, "cut"}, fate = "overlapped" => fate' = "overlapped", heard' \in Heard,
         fate' = "none" => /\ Connected' /\ sdu'.writer # "reset"
                           /\ WillHear(heard', sdu') = WillHear(heard, sdu)
  PROVE  Typed' /\ Current' /\ AtPrint' /\ Progress'
<1>1. UNCHANGED <<session, last_call, was_command, cmd_address, cmd_command, cmd_repeat,
                  main, todo, args, part>>
  BY DEF Beside, channel, mailbox, loop
<1>2. Typed'
  BY <1>1 DEF ConsoleInv, Typed
<1>3. Current'
  BY <1>1 DEF ConsoleInv, Current, Mailed, Loaded
<1>4. AtPrint'
  BY <1>1 DEF ConsoleInv, AtPrint
<1>5. Progress'
  <2> SUFFICES ASSUME fate' = "none" PROVE Progress'
    BY DEF Progress
  <2>1. LastLine' = LastLine /\ WillHear(heard, sdu)' = WillHear(heard, sdu)
    BY <1>1 DEF LastLine
  <2>2. fate = "none"
    OBVIOUS
  <2> QED BY <1>1, <2>1, <2>2 DEF ConsoleInv, Progress
<1> QED BY <1>2, <1>3, <1>4, <1>5

\* A lost connection spoils a call that nothing else was in the way of.
LEMMA LoseSpoils ==
  ASSUME Lose
  PROVE  /\ fate' # "none" /\ fate' \in {fate, "cut"} /\ heard' \in Heard
         /\ fate = "overlapped" => fate' = "overlapped"
BY DEF Lose, Heard, LineParts

LEMMA HostStep == ConsoleInv /\ Host => ConsoleInv'
<1> SUFFICES ASSUME ConsoleInv, Host PROVE ConsoleInv'
  OBVIOUS
<1>1. /\ sdu \in Sdus /\ bus \in {"default", "configured"}
      /\ asleep \in BOOLEAN /\ woken \in BOOLEAN /\ heard \in Heard
  BY DEF ConsoleInv, Typed
<1>2. fate = "none" => Connected /\ sdu.writer # "reset"
  BY DEF ConsoleInv, Progress
<1>3. CASE Reset
  <2>1. /\ sdu' \in Sdus /\ sdu'.suspended = TRUE /\ bus' = "default"
        /\ sdu.writer = "none" => sdu'.writer = "none"
        /\ asleep' = FALSE /\ woken' = FALSE
    BY <1>1, <1>3, EventSuspends DEF Reset
  <2>2. SerialFollowsBus' /\ WokenEarly'
    BY <2>1 DEF SerialFollowsBus, WokenEarly
  <2> QED BY <1>3, <2>1, <2>2, LoseSpoils, BesideKept DEF Reset, ConsoleInv
<1>4. CASE Configure
  <2> DEFINE t == usb_event(usb_event(sdu, "address"), "stalled")
  <2>1. t \in Sdus /\ (sdu.writer = "none" => t.writer = "none")
    <3> DEFINE s == usb_event(sdu, "address")
    <3>1. s \in Sdus /\ (sdu.writer = "none" => s.writer = "none")
      BY <1>1, EventSuspends
    <3> HIDE DEF s
    <3>2. /\ usb_event(s, "stalled") \in Sdus
          /\ s.writer = "none" => usb_event(s, "stalled").writer = "none"
      BY <3>1, EventSuspends
    <3> QED BY <3>1, <3>2 DEF s
  <2>2. /\ sdu' = usb_event(t, "configured") /\ bus' = "configured" /\ bus = "default"
        /\ ~asleep /\ UNCHANGED asleep /\ woken' = FALSE /\ UNCHANGED history
    BY <1>4 DEF Configure
  <2> HIDE DEF t
  <2>3. /\ sdu' \in Sdus /\ sdu'.suspended = FALSE
        /\ sdu.writer = "none" => sdu'.writer = "none"
    BY <2>1, <2>2, EventSuspends
  <2>4. SerialFollowsBus' /\ WokenEarly'
    BY <2>2, <2>3 DEF SerialFollowsBus, WokenEarly
  <2>5. fate' = fate /\ heard' = heard /\ fate # "none"
    BY <1>2, <2>2 DEF history, Connected
  <2> QED BY <1>1, <1>4, <2>2, <2>3, <2>4, <2>5, BesideKept DEF Configure, ConsoleInv
<1>5. CASE Unconfigure
  <2>1. /\ sdu' \in Sdus /\ sdu'.suspended = TRUE /\ bus' = "default"
        /\ sdu.writer = "none" => sdu'.writer = "none"
        /\ bus = "configured" /\ ~asleep /\ UNCHANGED <<asleep, woken>>
    BY <1>1, <1>5, EventSuspends DEF Unconfigure, Connected
  <2>2. ~woken'
    BY <2>1 DEF ConsoleInv, WokenEarly
  <2>3. SerialFollowsBus' /\ WokenEarly'
    BY <2>1, <2>2 DEF SerialFollowsBus, WokenEarly
  <2> QED BY <1>1, <1>5, <2>1, <2>3, LoseSpoils, BesideKept DEF Unconfigure, ConsoleInv
<1>6. CASE Suspend
  <2>1. /\ sdu' \in Sdus /\ sdu'.suspended = TRUE /\ bus' = bus /\ asleep' = TRUE
        /\ sdu.writer = "none" => sdu'.writer = "none"
        /\ woken' = FALSE
    BY <1>1, <1>6, EventSuspends DEF Suspend
  <2>2. SerialFollowsBus' /\ WokenEarly'
    BY <2>1 DEF SerialFollowsBus, WokenEarly
  <2> QED BY <1>1, <1>6, <2>1, <2>2, LoseSpoils, BesideKept DEF Suspend, ConsoleInv
<1>7. CASE Wakeup
  <2>1. /\ sdu' \in Sdus /\ sdu'.suspended = FALSE /\ bus' = bus /\ asleep /\ asleep' = FALSE
        /\ sdu.writer = "none" => sdu'.writer = "none"
        /\ woken' = (bus # "configured") /\ fate' = fate /\ heard' = heard
    BY <1>1, <1>7, EventSuspends DEF Wakeup, history
  <2>2. SerialFollowsBus' /\ WokenEarly' /\ woken' \in BOOLEAN
    <3>1. woken' <=> bus' # "configured"
      BY <2>1, Zenon
    <3>2. ~sdu'.suspended /\ ~asleep' /\ woken' \in BOOLEAN
      BY <2>1, Zenon
    <3> QED BY <3>1, <3>2 DEF SerialFollowsBus, WokenEarly
  <2>3. fate # "none"
    BY <1>2, <2>1 DEF Connected
  <2> QED BY <1>1, <1>7, <2>1, <2>2, <2>3, BesideKept DEF Wakeup, ConsoleInv
<1>8. CASE FrameStart
  <2>1. /\ sdu' \in Sdus /\ sdu'.suspended = sdu.suspended /\ sdu'.writer = sdu.writer
        /\ WillHear(heard, sdu') = WillHear(heard, sdu)
        /\ fate' = fate /\ heard' = heard /\ UNCHANGED <<bus, asleep, woken>>
    BY <1>1, <1>8, FrameHeard DEF FrameStart, sof_handler, host, history
  <2>2. SerialFollowsBus' /\ WokenEarly' /\ Connected' = Connected
    BY <2>1 DEF ConsoleInv, SerialFollowsBus, WokenEarly, Connected
  <2> QED BY <1>1, <1>2, <1>8, <2>1, <2>2, BesideKept DEF FrameStart, ConsoleInv
<1>9. CASE Read
  <2>1. /\ sdu.posted # << >> /\ sdu' = SduTransmitted(sdu) /\ UNCHANGED Beside
        /\ heard' = IF fate = "none" THEN HearText(heard, Head(sdu.posted)) ELSE << >>
        /\ fate' = fate /\ UNCHANGED <<bus, asleep, woken>>
    BY <1>9 DEF Read, host
  <2>2. /\ sdu' \in Sdus /\ sdu'.suspended = sdu.suspended
        /\ sdu'.writer \in {sdu.writer, "retry"}
        /\ sdu.writer = "none" => sdu'.writer = "none"
        /\ HearText(heard, Head(sdu.posted)) \in Heard
        /\ WillHear(HearText(heard, Head(sdu.posted)), sdu') = WillHear(heard, sdu)
    BY <1>1, <2>1, ReadHeard
  <2>3. heard' \in Heard
    BY <2>1, <2>2 DEF Heard, LineParts
  <2>4. SerialFollowsBus' /\ WokenEarly' /\ Connected' = Connected
    BY <2>1, <2>2 DEF ConsoleInv, SerialFollowsBus, WokenEarly, Connected
  <2> QED BY <1>1, <1>2, <2>1, <2>2, <2>3, <2>4, BesideKept DEF ConsoleInv
<1> QED BY <1>3, <1>4, <1>5, <1>6, <1>7, <1>8, <1>9 DEF Host

-----------------------------------------------------------------------------
(* What the host reads in the descriptors.  They are concatenations, so what   *)
(* is at which position is followed from part to part; the host's walk is a    *)
(* recursion with one solution, and the one that is shown is a solution.       *)

\* The bytes of d stand in bytes from position p on.
At(bytes, p, d) ==
  /\ p + Len(d) <= Len(bytes) + 1
  /\ \A j \in p..(p + Len(d) - 1) : bytes[j] = d[j - p + 1]

\* A concatenation holds its two parts one behind the other.
LEMMA Joined ==
  ASSUME NEW s \in Seq(Nat), NEW t \in Seq(Nat)
  PROVE  /\ s \o t \in Seq(Nat) /\ Len(s \o t) = Len(s) + Len(t)
         /\ At(s \o t, 1, s) /\ At(s \o t, Len(s) + 1, t)
<1>1. /\ Len(s) \in Nat /\ Len(t) \in Nat
      /\ s \o t \in Seq(Nat) /\ Len(s \o t) = Len(s) + Len(t)
      /\ \A i \in 1..(Len(s) + Len(t)) :
           (s \o t)[i] = IF i <= Len(s) THEN s[i] ELSE t[i - Len(s)]
  BY ConcatProperties
<1> DEFINE u == s \o t
<1> HIDE DEF u
<1>2. \A j \in 1..(1 + Len(s) - 1) : u[j] = s[j - 1 + 1]
  BY <1>1 DEF u
<1>3. \A j \in (Len(s) + 1)..((Len(s) + 1) + Len(t) - 1) : u[j] = t[j - (Len(s) + 1) + 1]
  <2> SUFFICES ASSUME NEW j \in (Len(s) + 1)..((Len(s) + 1) + Len(t) - 1)
               PROVE  u[j] = t[j - (Len(s) + 1) + 1]
    OBVIOUS
  <2>1. /\ j \in 1..(Len(s) + Len(t)) /\ ~(j <= Len(s))
        /\ j - (Len(s) + 1) + 1 = j - Len(s)
    BY <1>1
  <2> QED BY <1>1, <2>1 DEF u
<1>4. Len(u) = Len(s) + Len(t)
  BY <1>1 DEF u
<1> QED BY <1>1, <1>2, <1>3, <1>4 DEF At, u

\* What stands in a part stands in the whole.
LEMMA AtPart ==
  ASSUME NEW u \in Seq(Nat), NEW s \in Seq(Nat), NEW d \in Seq(Nat), NEW p \in Nat \ {0},
         At(u, 1, s), At(s, p, d)
  PROVE  At(u, p, d)
<1>1. Len(u) \in Nat /\ Len(s) \in Nat /\ Len(d) \in Nat
  OBVIOUS
<1>2. ASSUME NEW j \in p..(p + Len(d) - 1) PROVE u[j] = d[j - p + 1]
  <2>1. j \in 1..(1 + Len(s) - 1) /\ j - 1 + 1 = j /\ s[j] = d[j - p + 1]
    BY <1>1 DEF At
  <2> QED BY <2>1 DEF At
<1>3. p + Len(d) <= Len(u) + 1
  BY <1>1 DEF At
<1> QED BY <1>2, <1>3 DEF At

\* What precedes a part and the part itself keep their places in a whole.
LEMMA Split ==
  ASSUME NEW u \in Seq(Nat), NEW s \in Seq(Nat), NEW t \in Seq(Nat), At(u, 1, s \o t)
  PROVE  At(u, 1, s) /\ At(u, Len(s) + 1, t)
<1> DEFINE w == s \o t
<1>1. /\ w \in Seq(Nat) /\ At(w, 1, s) /\ At(w, Len(s) + 1, t) /\ At(u, 1, w)
      /\ Len(s) + 1 \in Nat \ {0} /\ 1 \in Nat \ {0}
  BY Joined
<1> HIDE DEF w
<1> QED BY <1>1, AtPart

\* A descriptor is its length, its type and its fields.
LEMMA DescBytes ==
  ASSUME NEW type \in Nat, NEW fields \in Seq(Nat)
  PROVE  /\ Desc(type, fields) \in Seq(Nat) /\ Len(Desc(type, fields)) = Len(fields) + 2
         /\ Desc(type, fields)[1] = Len(fields) + 2 /\ Desc(type, fields)[2] = type
         /\ At(Desc(type, fields), 3, fields)
<1> DEFINE s == << Len(fields) + 2, type >>
<1>1. s \in Seq(Nat) /\ Len(s) = 2 /\ s[1] = Len(fields) + 2 /\ s[2] = type
  OBVIOUS
<1> HIDE DEF s
<1> DEFINE u == s \o fields
<1>2. u \in Seq(Nat) /\ Len(u) = Len(s) + Len(fields) /\ At(u, 1, s) /\ At(u, Len(s) + 1, fields)
  BY <1>1, Joined
<1>3. u = Desc(type, fields)
  BY DEF Desc, s
<1> HIDE DEF u
<1>4. Len(s) + 1 = 3 /\ Len(u) = Len(fields) + 2
  BY <1>1, <1>2
<1>5. At(u, 3, fields)
  BY <1>2, <1>4
<1>6. u[1] = s[1] /\ u[2] = s[2]
  BY <1>1, <1>2 DEF At
<1> QED BY <1>1, <1>2, <1>3, <1>4, <1>5, <1>6

\* A word is its low byte and its high byte.
LEMMA WordBytes ==
  ASSUME NEW n \in Nat
  PROVE  /\ Word(n) \in Seq(Nat) /\ Len(Word(n)) = 2
         /\ Word(n)[1] + 256 * Word(n)[2] = n
<1>1. n % 256 \in Nat /\ n \div 256 \in Nat /\ (n % 256) + 256 * (n \div 256) = n
  OBVIOUS
<1> QED BY <1>1 DEF Word

\* The bytes of an endpoint descriptor.
LEMMA EndpointBytes ==
  ASSUME NEW n \in Nat, NEW type \in Nat, NEW size \in Nat, NEW interval \in Nat,
         NEW d, d = Desc(TypeEndpoint, << n, type >> \o Word(size) \o << interval >>)
  PROVE  /\ d \in Seq(Nat) /\ Len(d) = 7 /\ d[1] = 7 /\ d[2] = TypeEndpoint
         /\ d[3] = n /\ d[4] = type /\ d[5] + 256 * d[6] = size
<1> DEFINE head == << n, type >>
           front == head \o Word(size)
           last == << interval >>
           fields == front \o last
<1>1. /\ head \in Seq(Nat) /\ Len(head) = 2 /\ head[1] = n /\ head[2] = type
      /\ last \in Seq(Nat) /\ Len(last) = 1 /\ TypeEndpoint \in Nat
  BY DEF TypeEndpoint
<1> HIDE DEF head, last
<1>2. /\ Word(size) \in Seq(Nat) /\ Len(Word(size)) = 2
      /\ Word(size)[1] + 256 * Word(size)[2] = size
  BY WordBytes
<1>3. /\ front \in Seq(Nat) /\ Len(front) = 4 /\ At(front, 1, head) /\ At(front, 3, Word(size))
  <2>1. /\ front \in Seq(Nat) /\ Len(front) = Len(head) + Len(Word(size))
        /\ At(front, 1, head) /\ At(front, Len(head) + 1, Word(size))
    BY <1>1, <1>2, Joined
  <2>2. Len(head) + 1 = 3 /\ Len(head) + Len(Word(size)) = 4
    BY <1>1, <1>2
  <2> QED BY <2>1, <2>2
<1> HIDE DEF front
<1>4. fields \in Seq(Nat) /\ Len(fields) = 5 /\ At(fields, 1, front)
  <2>1. fields \in Seq(Nat) /\ Len(fields) = Len(front) + Len(last) /\ At(fields, 1, front)
    BY <1>1, <1>3, Joined
  <2> QED BY <1>1, <1>3, <2>1
<1>5. d = Desc(TypeEndpoint, fields)
  BY DEF fields, front, head, last
<1> HIDE DEF fields
<1>6. /\ d \in Seq(Nat) /\ Len(d) = Len(fields) + 2 /\ d[1] = Len(fields) + 2
      /\ d[2] = TypeEndpoint /\ At(d, 3, fields)
  <2> DEFINE e == Desc(TypeEndpoint, fields)
  <2>1. /\ e \in Seq(Nat) /\ Len(e) = Len(fields) + 2 /\ e[1] = Len(fields) + 2
        /\ e[2] = TypeEndpoint /\ At(e, 3, fields)
    BY <1>1, <1>4, DescBytes
  <2> HIDE DEF e
  <2>2. d = e
    BY <1>5 DEF e
  <2> QED BY <2>1, <2>2
<1>7. d[3] = fields[1] /\ d[4] = fields[2] /\ d[5] = fields[3] /\ d[6] = fields[4]
  BY <1>4, <1>6 DEF At
<1>8. fields[1] = n /\ fields[2] = type
  BY <1>1, <1>3, <1>4 DEF At
<1>9. fields[3] = Word(size)[1] /\ fields[4] = Word(size)[2]
  BY <1>2, <1>3, <1>4 DEF At
<1>10. Len(d) = 7 /\ d[1] = 7
  BY <1>4, <1>6
<1> QED BY <1>2, <1>6, <1>7, <1>8, <1>9, <1>10

\* The bytes of an interface descriptor.
LEMMA InterfaceBytes ==
  ASSUME NEW fields \in Seq(Nat), Len(fields) = 7,
         NEW d, d = Desc(TypeInterface, fields)
  PROVE  /\ d \in Seq(Nat) /\ Len(d) = 9 /\ d[1] = 9 /\ d[2] = TypeInterface
         /\ d[3] = fields[1] /\ d[5] = fields[3]
<1> DEFINE e == Desc(TypeInterface, fields)
<1>1. /\ e \in Seq(Nat) /\ Len(e) = Len(fields) + 2 /\ e[1] = Len(fields) + 2
      /\ e[2] = TypeInterface /\ At(e, 3, fields)
  <2>1. TypeInterface \in Nat
    BY DEF TypeInterface
  <2> QED BY <2>1, DescBytes
<1>2. d = e
  OBVIOUS
<1> HIDE DEF e
<1>3. e[3] = fields[1] /\ e[5] = fields[3]
  BY <1>1 DEF At
<1> QED BY <1>1, <1>2, <1>3

\* Where the descriptors of the configuration stand, and what the host looks at.
LEMMA ConfigurationBytes ==
  ASSUME NEW u, u = vcom_configuration_descriptor
  PROVE  /\ u \in Seq(Nat) /\ Len(u) = 67
         /\ u[1] = 9 /\ u[2] = TypeConfiguration /\ u[3] + 256 * u[4] = 67 /\ u[5] = 2
         /\ u[10] = 9 /\ u[11] = TypeInterface /\ u[12] = 0 /\ u[14] = 1
         /\ u[19] = 5 /\ u[20] = CsInterface
         /\ u[24] = 5 /\ u[25] = CsInterface
         /\ u[29] = 4 /\ u[30] = CsInterface
         /\ u[33] = 5 /\ u[34] = CsInterface
         /\ u[38] = 7 /\ u[39] = TypeEndpoint /\ u[40] = USBD1_INTERRUPT_REQUEST_EP + In
         /\ u[41] = 3 /\ u[42] + 256 * u[43] = 8
         /\ u[45] = 9 /\ u[46] = TypeInterface /\ u[47] = 1 /\ u[49] = 2
         /\ u[54] = 7 /\ u[55] = TypeEndpoint /\ u[56] = USBD1_DATA_AVAILABLE_EP
         /\ u[57] = 2 /\ u[58] + 256 * u[59] = 64
         /\ u[61] = 7 /\ u[62] = TypeEndpoint /\ u[63] = USBD1_DATA_REQUEST_EP + In
         /\ u[64] = 2 /\ u[65] + 256 * u[66] = 64
<1> DEFINE d0 == Desc(TypeConfiguration, Word(67) \o <<2, 1, 0, 192, 50>>)
           d1 == Desc(TypeInterface, <<0, 0, 1, 2, 2, 1, 0>>)
           d2 == <<5, CsInterface, 0>>
           d3 == Word(272)
           d4 == <<5, CsInterface, 1, 0, 1>>
           d5 == <<4, CsInterface, 2, 2>>
           d6 == <<5, CsInterface, 6, 0, 1>>
           d7 == Desc(TypeEndpoint, <<USBD1_INTERRUPT_REQUEST_EP + In, 3>> \o Word(8) \o <<255>>)
           d8 == Desc(TypeInterface, <<1, 0, 2, 10, 0, 0, 0>>)
           d9 == Desc(TypeEndpoint, <<USBD1_DATA_AVAILABLE_EP, 2>> \o Word(64) \o <<0>>)
           d10 == Desc(TypeEndpoint, <<USBD1_DATA_REQUEST_EP + In, 2>> \o Word(64) \o <<0>>)
           s1 == d0 \o d1
           s2 == s1 \o d2
           s3 == s2 \o d3
           s4 == s3 \o d4
           s5 == s4 \o d5
           s6 == s5 \o d6
           s7 == s6 \o d7
           s8 == s7 \o d8
           s9 == s8 \o d9
           s10 == s9 \o d10
<1>1. u = s10
  BY DEF vcom_configuration_descriptor
\* The parts.
<1>2. /\ d0 \in Seq(Nat) /\ Len(d0) = 9 /\ d0[1] = 9 /\ d0[2] = TypeConfiguration
      /\ d0[3] + 256 * d0[4] = 67 /\ d0[5] = 2
  <2> DEFINE w == Word(67)
             rest == <<2, 1, 0, 192, 50>>
             fields == w \o rest
             e == Desc(TypeConfiguration, fields)
  <2>1. /\ w \in Seq(Nat) /\ Len(w) = 2 /\ w[1] + 256 * w[2] = 67
    BY WordBytes
  <2>2. rest \in Seq(Nat) /\ Len(rest) = 5 /\ rest[1] = 2 /\ TypeConfiguration \in Nat
    BY DEF TypeConfiguration
  <2> HIDE DEF w, rest
  <2>3. /\ fields \in Seq(Nat) /\ Len(fields) = Len(w) + Len(rest)
        /\ At(fields, 1, w) /\ At(fields, Len(w) + 1, rest)
    BY <2>1, <2>2, Joined
  <2> HIDE DEF fields
  <2>4. Len(fields) = 7 /\ Len(w) + 1 = 3
    BY <2>1, <2>2, <2>3
  <2>5. At(fields, 3, rest)
    BY <2>3, <2>4
  <2>6. fields[1] = w[1] /\ fields[2] = w[2] /\ fields[3] = 2
    BY <2>1, <2>2, <2>3, <2>5 DEF At
  <2>7. /\ e \in Seq(Nat) /\ Len(e) = Len(fields) + 2 /\ e[1] = Len(fields) + 2
        /\ e[2] = TypeConfiguration /\ At(e, 3, fields)
    BY <2>2, <2>3, DescBytes
  <2>8. d0 = e
    BY DEF e, fields, w, rest
  <2> HIDE DEF e
  <2>9. e[3] = fields[1] /\ e[4] = fields[2] /\ e[5] = fields[3]
    BY <2>4, <2>7 DEF At
  <2>10. /\ e \in Seq(Nat) /\ Len(e) = 9 /\ e[1] = 9 /\ e[2] = TypeConfiguration
         /\ e[3] + 256 * e[4] = 67 /\ e[5] = 2
    BY <2>1, <2>4, <2>6, <2>7, <2>9
  <2> HIDE DEF d0
  <2> QED BY <2>8, <2>10
<1>3. /\ d1 \in Seq(Nat) /\ Len(d1) = 9 /\ d1[1] = 9 /\ d1[2] = TypeInterface
      /\ d1[3] = 0 /\ d1[5] = 1
  <2> DEFINE fields == <<0, 0, 1, 2, 2, 1, 0>>
  <2>1. fields \in Seq(Nat) /\ Len(fields) = 7 /\ fields[1] = 0 /\ fields[3] = 1
    OBVIOUS
  <2>2. d1 = Desc(TypeInterface, fields)
    OBVIOUS
  <2> HIDE DEF fields, d1
  <2> QED BY <2>1, <2>2, InterfaceBytes
<1>4. /\ d8 \in Seq(Nat) /\ Len(d8) = 9 /\ d8[1] = 9 /\ d8[2] = TypeInterface
      /\ d8[3] = 1 /\ d8[5] = 2
  <2> DEFINE fields == <<1, 0, 2, 10, 0, 0, 0>>
  <2>1. fields \in Seq(Nat) /\ Len(fields) = 7 /\ fields[1] = 1 /\ fields[3] = 2
    OBVIOUS
  <2>2. d8 = Desc(TypeInterface, fields)
    OBVIOUS
  <2> HIDE DEF fields, d8
  <2> QED BY <2>1, <2>2, InterfaceBytes
<1>5. /\ CsInterface \in Nat /\ USBD1_INTERRUPT_REQUEST_EP + In \in Nat
      /\ USBD1_DATA_AVAILABLE_EP \in Nat /\ USBD1_DATA_REQUEST_EP + In \in Nat
  BY DEF CsInterface, USBD1_INTERRUPT_REQUEST_EP, In, USBD1_DATA_AVAILABLE_EP,
         USBD1_DATA_REQUEST_EP
<1>6. /\ d2 \in Seq(Nat) /\ Len(d2) = 3 /\ d2[1] = 5 /\ d2[2] = CsInterface
      /\ d4 \in Seq(Nat) /\ Len(d4) = 5 /\ d4[1] = 5 /\ d4[2] = CsInterface
      /\ d5 \in Seq(Nat) /\ Len(d5) = 4 /\ d5[1] = 4 /\ d5[2] = CsInterface
      /\ d6 \in Seq(Nat) /\ Len(d6) = 5 /\ d6[1] = 5 /\ d6[2] = CsInterface
  BY <1>5
<1>7. d3 \in Seq(Nat) /\ Len(d3) = 2
  BY WordBytes
<1>8. /\ d7 \in Seq(Nat) /\ Len(d7) = 7 /\ d7[1] = 7 /\ d7[2] = TypeEndpoint
      /\ d7[3] = USBD1_INTERRUPT_REQUEST_EP + In /\ d7[4] = 3 /\ d7[5] + 256 * d7[6] = 8
  <2> HIDE DEF d7
  <2>1. d7 = Desc(TypeEndpoint, <<USBD1_INTERRUPT_REQUEST_EP + In, 3>> \o Word(8) \o <<255>>)
    BY DEF d7
  <2> QED BY <1>5, <2>1, EndpointBytes
<1>9. /\ d9 \in Seq(Nat) /\ Len(d9) = 7 /\ d9[1] = 7 /\ d9[2] = TypeEndpoint
      /\ d9[3] = USBD1_DATA_AVAILABLE_EP /\ d9[4] = 2 /\ d9[5] + 256 * d9[6] = 64
  <2> HIDE DEF d9
  <2>1. d9 = Desc(TypeEndpoint, <<USBD1_DATA_AVAILABLE_EP, 2>> \o Word(64) \o <<0>>)
    BY DEF d9
  <2> QED BY <1>5, <2>1, EndpointBytes
<1>10. /\ d10 \in Seq(Nat) /\ Len(d10) = 7 /\ d10[1] = 7 /\ d10[2] = TypeEndpoint
       /\ d10[3] = USBD1_DATA_REQUEST_EP + In /\ d10[4] = 2 /\ d10[5] + 256 * d10[6] = 64
  <2> HIDE DEF d10
  <2>1. d10 = Desc(TypeEndpoint, <<USBD1_DATA_REQUEST_EP + In, 2>> \o Word(64) \o <<0>>)
    BY DEF d10
  <2> QED BY <1>5, <2>1, EndpointBytes
<1> HIDE DEF d0, d1, d2, d3, d4, d5, d6, d7, d8, d9, d10
\* Their places, from the front.
<1>11. s1 \in Seq(Nat) /\ Len(s1) = 18
  <2>1. s1 \in Seq(Nat) /\ Len(s1) = Len(d0) + Len(d1)
    BY <1>2, <1>3, Joined
  <2> QED BY <1>2, <1>3, <2>1
<1> HIDE DEF s1
<1>12. s2 \in Seq(Nat) /\ Len(s2) = 21
  <2>1. s2 \in Seq(Nat) /\ Len(s2) = Len(s1) + Len(d2)
    BY <1>11, <1>6, Joined
  <2> QED BY <1>11, <1>6, <2>1
<1> HIDE DEF s2
<1>13. s3 \in Seq(Nat) /\ Len(s3) = 23
  <2>1. s3 \in Seq(Nat) /\ Len(s3) = Len(s2) + Len(d3)
    BY <1>12, <1>7, Joined
  <2> QED BY <1>12, <1>7, <2>1
<1> HIDE DEF s3
<1>14. s4 \in Seq(Nat) /\ Len(s4) = 28
  <2>1. s4 \in Seq(Nat) /\ Len(s4) = Len(s3) + Len(d4)
    BY <1>13, <1>6, Joined
  <2> QED BY <1>13, <1>6, <2>1
<1> HIDE DEF s4
<1>15. s5 \in Seq(Nat) /\ Len(s5) = 32
  <2>1. s5 \in Seq(Nat) /\ Len(s5) = Len(s4) + Len(d5)
    BY <1>14, <1>6, Joined
  <2> QED BY <1>14, <1>6, <2>1
<1> HIDE DEF s5
<1>16. s6 \in Seq(Nat) /\ Len(s6) = 37
  <2>1. s6 \in Seq(Nat) /\ Len(s6) = Len(s5) + Len(d6)
    BY <1>15, <1>6, Joined
  <2> QED BY <1>15, <1>6, <2>1
<1> HIDE DEF s6
<1>17. s7 \in Seq(Nat) /\ Len(s7) = 44
  <2>1. s7 \in Seq(Nat) /\ Len(s7) = Len(s6) + Len(d7)
    BY <1>16, <1>8, Joined
  <2> QED BY <1>16, <1>8, <2>1
<1> HIDE DEF s7
<1>18. s8 \in Seq(Nat) /\ Len(s8) = 53
  <2>1. s8 \in Seq(Nat) /\ Len(s8) = Len(s7) + Len(d8)
    BY <1>17, <1>4, Joined
  <2> QED BY <1>17, <1>4, <2>1
<1> HIDE DEF s8
<1>19. s9 \in Seq(Nat) /\ Len(s9) = 60
  <2>1. s9 \in Seq(Nat) /\ Len(s9) = Len(s8) + Len(d9)
    BY <1>18, <1>9, Joined
  <2> QED BY <1>18, <1>9, <2>1
<1> HIDE DEF s9
<1>20. u \in Seq(Nat) /\ Len(u) = 67 /\ At(u, 1, s9) /\ At(u, 61, d10)
  <2>1. s10 \in Seq(Nat) /\ Len(s10) = Len(s9) + Len(d10)
        /\ At(s10, 1, s9) /\ At(s10, Len(s9) + 1, d10)
    BY <1>19, <1>10, Joined
  <2> HIDE DEF s10
  <2>2. Len(s9) + Len(d10) = 67 /\ Len(s9) + 1 = 61
    BY <1>19, <1>10
  <2> QED BY <1>1, <2>1, <2>2
<1> HIDE DEF s10
\* Their places in the whole, from the end.
<1>21. At(u, 1, s8) /\ At(u, 54, d9)
  <2>1. At(u, 1, s8) /\ At(u, Len(s8) + 1, d9)
    BY <1>20, <1>18, <1>9, Split DEF s9
  <2> QED BY <1>18, <2>1
<1>22. At(u, 1, s7) /\ At(u, 45, d8)
  <2>1. At(u, 1, s7) /\ At(u, Len(s7) + 1, d8)
    BY <1>20, <1>21, <1>17, <1>4, Split DEF s8
  <2> QED BY <1>17, <2>1
<1>23. At(u, 1, s6) /\ At(u, 38, d7)
  <2>1. At(u, 1, s6) /\ At(u, Len(s6) + 1, d7)
    BY <1>20, <1>22, <1>16, <1>8, Split DEF s7
  <2> QED BY <1>16, <2>1
<1>24. At(u, 1, s5) /\ At(u, 33, d6)
  <2>1. At(u, 1, s5) /\ At(u, Len(s5) + 1, d6)
    BY <1>20, <1>23, <1>15, <1>6, Split DEF s6
  <2> QED BY <1>15, <2>1
<1>25. At(u, 1, s4) /\ At(u, 29, d5)
  <2>1. At(u, 1, s4) /\ At(u, Len(s4) + 1, d5)
    BY <1>20, <1>24, <1>14, <1>6, Split DEF s5
  <2> QED BY <1>14, <2>1
<1>26. At(u, 1, s3) /\ At(u, 24, d4)
  <2>1. At(u, 1, s3) /\ At(u, Len(s3) + 1, d4)
    BY <1>20, <1>25, <1>13, <1>6, Split DEF s4
  <2> QED BY <1>13, <2>1
<1>27. At(u, 1, s2)
  BY <1>20, <1>26, <1>12, <1>7, Split DEF s3
<1>28. At(u, 1, s1) /\ At(u, 19, d2)
  <2>1. At(u, 1, s1) /\ At(u, Len(s1) + 1, d2)
    BY <1>20, <1>27, <1>11, <1>6, Split DEF s2
  <2> QED BY <1>11, <2>1
<1>29. At(u, 1, d0) /\ At(u, 10, d1)
  <2>1. At(u, 1, d0) /\ At(u, Len(d0) + 1, d1)
    BY <1>20, <1>28, <1>2, <1>3, Split DEF s1
  <2> QED BY <1>2, <2>1
\* The bytes.
<1>30. u[1] = d0[1] /\ u[2] = d0[2] /\ u[3] = d0[3] /\ u[4] = d0[4] /\ u[5] = d0[5]
  BY <1>2, <1>29 DEF At
<1>31. u[10] = d1[1] /\ u[11] = d1[2] /\ u[12] = d1[3] /\ u[14] = d1[5]
  BY <1>3, <1>29 DEF At
<1>32. u[45] = d8[1] /\ u[46] = d8[2] /\ u[47] = d8[3] /\ u[49] = d8[5]
  BY <1>4, <1>22 DEF At
<1>33. /\ u[19] = d2[1] /\ u[20] = d2[2] /\ u[24] = d4[1] /\ u[25] = d4[2]
       /\ u[29] = d5[1] /\ u[30] = d5[2] /\ u[33] = d6[1] /\ u[34] = d6[2]
  <2>1. u[19] = d2[1] /\ u[20] = d2[2]
    BY <1>6, <1>28 DEF At
  <2>2. u[24] = d4[1] /\ u[25] = d4[2]
    BY <1>6, <1>26 DEF At
  <2>3. u[29] = d5[1] /\ u[30] = d5[2]
    BY <1>6, <1>25 DEF At
  <2>4. u[33] = d6[1] /\ u[34] = d6[2]
    BY <1>6, <1>24 DEF At
  <2> QED BY <2>1, <2>2, <2>3, <2>4
<1>34. /\ u[38] = d7[1] /\ u[39] = d7[2] /\ u[40] = d7[3] /\ u[41] = d7[4]
       /\ u[42] = d7[5] /\ u[43] = d7[6]
  BY <1>8, <1>23 DEF At
<1>35. /\ u[54] = d9[1] /\ u[55] = d9[2] /\ u[56] = d9[3] /\ u[57] = d9[4]
       /\ u[58] = d9[5] /\ u[59] = d9[6]
  BY <1>9, <1>21 DEF At
<1>36. /\ u[61] = d10[1] /\ u[62] = d10[2] /\ u[63] = d10[3] /\ u[64] = d10[4]
       /\ u[65] = d10[5] /\ u[66] = d10[6]
  BY <1>10, <1>20 DEF At
<1> QED BY <1>2, <1>3, <1>4, <1>6, <1>8, <1>9, <1>10, <1>20, <1>30, <1>31, <1>32, <1>33,
           <1>34, <1>35, <1>36

\* A descriptor is found where the one before it ends: if S holds the first
\* position and exactly the ends of what starts in it, it is what the host finds.
LEMMA WalkFinds ==
  ASSUME NEW bytes \in Seq(Nat), NEW S \in SUBSET (1..(Len(bytes) + 1)),
         \A p \in 1..(Len(bytes) + 1) :
           p \in S <=> p = 1 \/ \E q \in S : q < p /\ q + bytes[q] = p /\ bytes[q] > 0
  PROVE  StartsIn(bytes) = S
<1> DEFINE P == 1..(Len(bytes) + 1)
           After(g, p) == p = 1 \/ \E q \in 1..(p - 1) : q + bytes[q] = p /\ bytes[q] > 0 /\ g[q]
           Walks(g) == g = [p \in P |-> After(g, p)]
           starts == CHOOSE g : Walks(g)
           found == [p \in P |-> p \in S]
<1>1. \A p \in P : found[p] = (p \in S) /\ (found[p] <=> p \in S)
  <2> HIDE DEF P
  <2> QED BY Zenon
<1>2. Walks(found)
  <2>1. ASSUME NEW p \in P PROVE found[p] = After(found, p)
    <3> HIDE DEF found
    <3>1. \A q \in 1..(p - 1) : q \in P /\ (found[q] <=> q \in S)
      BY <1>1
    <3>2. \A q \in S : q < p => q \in 1..(p - 1)
      OBVIOUS
    <3>3. p \in S <=> After(found, p)
      BY <3>1, <3>2
    <3>4. CASE p \in S
      <4>1. (p \in S) = TRUE /\ After(found, p) = TRUE
        BY <3>3, <3>4
      <4> HIDE DEF After, P
      <4> QED BY <1>1, <4>1
    <3>5. CASE p \notin S
      <4>1. (p \in S) = FALSE /\ After(found, p) = FALSE
        BY <3>3, <3>5
      <4> HIDE DEF After, P
      <4> QED BY <1>1, <4>1
    <3> QED BY <3>4, <3>5
  <2> HIDE DEF After, P
  <2> QED BY <2>1, Zenon
<1>3. Walks(starts)
  <2> HIDE DEF Walks
  <2> QED BY <1>2
<1>4. StartsIn(bytes) = {p \in P : starts[p]}
  BY DEF StartsIn
<1> HIDE DEF starts
<1>5. \A p \in P : starts[p] <=> After(starts, p)
  <2> HIDE DEF After, P
  <2> QED BY <1>3, Zenon
<1> DEFINE Same == {n \in Nat : \A p \in P : p <= n => (starts[p] <=> p \in S)}
<1>6. 0 \in Same
  OBVIOUS
<1>7. ASSUME NEW n \in Nat, n \in Same PROVE n + 1 \in Same
  <2> SUFFICES ASSUME NEW p \in P, p <= n + 1 PROVE starts[p] <=> p \in S
    OBVIOUS
  <2>1. \A q \in 1..(p - 1) : q \in P /\ (starts[q] <=> q \in S)
    BY <1>7
  <2>2. \A q \in S : q < p => q \in 1..(p - 1)
    OBVIOUS
  <2> QED BY <1>5, <2>1, <2>2
<1>8. Nat \subseteq Same
  <2> HIDE DEF Same
  <2> QED BY <1>6, <1>7, NumberInduction
<1>9. ASSUME NEW p \in P PROVE starts[p] <=> p \in S
  <2>1. p \in Nat /\ p <= p
    OBVIOUS
  <2>2. p \in Same
    <3> HIDE DEF Same
    <3> QED BY <1>8, <2>1
  <2> QED BY <2>1, <2>2
<1> QED BY <1>4, <1>9

\* Where the descriptors of the configuration start, and where they end.
Starts == {1, 10, 19, 24, 29, 33, 38, 45, 54, 61, 68}

\* The host's walk finds the descriptors.
LEMMA ConfigurationWalk ==
  ASSUME NEW u, u = vcom_configuration_descriptor
  PROVE  StartsIn(u) = Starts
<1>1. /\ u \in Seq(Nat) /\ Len(u) = 67 /\ u[1] = 9 /\ u[10] = 9 /\ u[19] = 5 /\ u[24] = 5
      /\ u[29] = 4 /\ u[33] = 5 /\ u[38] = 7 /\ u[45] = 9 /\ u[54] = 7 /\ u[61] = 7
  BY ConfigurationBytes
<1>2. Starts \in SUBSET (1..(Len(u) + 1))
  BY <1>1 DEF Starts
<1>3. ASSUME NEW p \in 1..(Len(u) + 1)
      PROVE  p \in Starts <=> p = 1 \/ \E q \in Starts : q < p /\ q + u[q] = p /\ u[q] > 0
  <2>1. p <= 68 /\ p \in Nat
    BY <1>1
  <2>2. ASSUME NEW q \in Starts, q < p PROVE q + u[q] \in Starts
    <3>1. q \in {1, 10, 19, 24, 29, 33, 38, 45, 54, 61}
      BY <2>1, <2>2 DEF Starts
    <3> QED BY <1>1, <3>1 DEF Starts
  <2>3. ASSUME p \in Starts, p # 1
        PROVE  \E q \in Starts : q < p /\ q + u[q] = p /\ u[q] > 0
    <3>1. p \in {10, 19, 24, 29, 33, 38, 45, 54, 61, 68}
      BY <2>3 DEF Starts
    <3>2. /\ 1 \in Starts /\ 10 \in Starts /\ 19 \in Starts /\ 24 \in Starts /\ 29 \in Starts
          /\ 33 \in Starts /\ 38 \in Starts /\ 45 \in Starts /\ 54 \in Starts /\ 61 \in Starts
      BY DEF Starts
    <3> DEFINE Before(q) == q < p /\ q + u[q] = p /\ u[q] > 0
    <3>3. \/ Before(1) \/ Before(10) \/ Before(19) \/ Before(24) \/ Before(29)
          \/ Before(33) \/ Before(38) \/ Before(45) \/ Before(54) \/ Before(61)
      BY <1>1, <3>1
    <3>4. SUFFICES \E q \in Starts : Before(q)
      OBVIOUS
    <3> HIDE DEF Before
    <3> QED BY <3>2, <3>3
  <2>4. 1 \in Starts
    BY DEF Starts
  <2> QED BY <2>2, <2>3, <2>4
<1> QED BY <1>1, <1>2, <1>3, WalkFinds

\* The interfaces and the endpoints among them.
LEMMA ConfigurationParts ==
  ASSUME NEW u, u = vcom_configuration_descriptor
  PROVE  /\ DescriptorsIn(u, TypeInterface, 0, 67) = {10, 45}
         /\ DescriptorsIn(u, TypeInterface, 10, 67) = {45}
         /\ DescriptorsIn(u, TypeInterface, 45, 67) = {}
         /\ DescriptorsIn(u, TypeEndpoint, 0, 67) = {38, 54, 61}
         /\ DescriptorsIn(u, TypeEndpoint, 10, 45) = {38}
         /\ DescriptorsIn(u, TypeEndpoint, 45, 68) = {54, 61}
<1>1. /\ u[2] = 2 /\ u[11] = 4 /\ u[20] = 36 /\ u[25] = 36 /\ u[30] = 36 /\ u[34] = 36
      /\ u[39] = 5 /\ u[46] = 4 /\ u[55] = 5 /\ u[62] = 5
  BY ConfigurationBytes DEF TypeConfiguration, TypeInterface, TypeEndpoint, CsInterface
<1>2. ASSUME NEW type, NEW from \in Nat, NEW to \in Nat
      PROVE  DescriptorsIn(u, type, from, to)
               = {p \in Starts : from < p /\ p < to /\ u[p + 1] = type}
  BY ConfigurationWalk DEF DescriptorsIn
<1>3. DescriptorsIn(u, TypeInterface, 0, 67) = {10, 45}
  BY <1>1, <1>2 DEF Starts, TypeInterface
<1>4. DescriptorsIn(u, TypeInterface, 10, 67) = {45}
  BY <1>1, <1>2 DEF Starts, TypeInterface
<1>5. DescriptorsIn(u, TypeInterface, 45, 67) = {}
  BY <1>1, <1>2 DEF Starts, TypeInterface
<1>6. DescriptorsIn(u, TypeEndpoint, 0, 67) = {38, 54, 61}
  BY <1>1, <1>2 DEF Starts, TypeEndpoint
<1>7. DescriptorsIn(u, TypeEndpoint, 10, 45) = {38}
  BY <1>1, <1>2 DEF Starts, TypeEndpoint
<1>8. DescriptorsIn(u, TypeEndpoint, 45, 68) = {54, 61}
  BY <1>1, <1>2 DEF Starts, TypeEndpoint
<1> QED BY <1>3, <1>4, <1>5, <1>6, <1>7, <1>8

\* What the host reads of the configuration is all of it.
LEMMA ConfigurationWhole == ConfigurationRead = vcom_configuration_descriptor
<1> DEFINE all == get_descriptor(TypeConfiguration, 0)
           length == all[3] + 256 * all[4]
<1>1. all = vcom_configuration_descriptor
  BY DEF get_descriptor, TypeConfiguration, TypeDevice, TypeString
<1> HIDE DEF all
<1>2. all \in Seq(Nat) /\ Len(all) = 67 /\ length = 67
  BY <1>1, ConfigurationBytes
<1>3. ConfigurationRead = SubSeq(all, 1, IF length < Len(all) THEN length ELSE Len(all))
  BY DEF ConfigurationRead, all
<1> HIDE DEF length
<1>4. SubSeq(all, 1, Len(all)) = all
  BY <1>2, SubSeqFull
<1> QED BY <1>1, <1>2, <1>3, <1>4

\* The device descriptor, with the numbers of the strings it names.
LEMMA DeviceBytes ==
  ASSUME NEW u, u = vcom_device_descriptor
  PROVE  Len(u) = 18 /\ u[1] = 18 /\ u[15] = 1 /\ u[16] = 2 /\ u[17] = 3
<1> DEFINE d0 == Word(272)
           d1 == <<2, 0, 0, 64>>
           d2 == Word(1155)
           d3 == Word(22336)
           d4 == Word(512)
           d5 == <<1, 2, 3, 1>>
           s1 == d0 \o d1
           s2 == s1 \o d2
           s3 == s2 \o d3
           s4 == s3 \o d4
           s5 == s4 \o d5
           e == Desc(TypeDevice, s5)
<1>1. u = e
  BY DEF vcom_device_descriptor
<1>2. /\ d0 \in Seq(Nat) /\ Len(d0) = 2 /\ d2 \in Seq(Nat) /\ Len(d2) = 2
      /\ d3 \in Seq(Nat) /\ Len(d3) = 2 /\ d4 \in Seq(Nat) /\ Len(d4) = 2
  BY WordBytes
<1>3. /\ d1 \in Seq(Nat) /\ Len(d1) = 4
      /\ d5 \in Seq(Nat) /\ Len(d5) = 4 /\ d5[1] = 1 /\ d5[2] = 2 /\ d5[3] = 3
      /\ TypeDevice \in Nat
  BY DEF TypeDevice
<1> HIDE DEF d0, d1, d2, d3, d4, d5
<1>4. s1 \in Seq(Nat) /\ Len(s1) = 6
  <2>1. s1 \in Seq(Nat) /\ Len(s1) = Len(d0) + Len(d1)
    BY <1>2, <1>3, Joined
  <2> QED BY <1>2, <1>3, <2>1
<1> HIDE DEF s1
<1>5. s2 \in Seq(Nat) /\ Len(s2) = 8
  <2>1. s2 \in Seq(Nat) /\ Len(s2) = Len(s1) + Len(d2)
    BY <1>4, <1>2, Joined
  <2> QED BY <1>4, <1>2, <2>1
<1> HIDE DEF s2
<1>6. s3 \in Seq(Nat) /\ Len(s3) = 10
  <2>1. s3 \in Seq(Nat) /\ Len(s3) = Len(s2) + Len(d3)
    BY <1>5, <1>2, Joined
  <2> QED BY <1>5, <1>2, <2>1
<1> HIDE DEF s3
<1>7. s4 \in Seq(Nat) /\ Len(s4) = 12
  <2>1. s4 \in Seq(Nat) /\ Len(s4) = Len(s3) + Len(d4)
    BY <1>6, <1>2, Joined
  <2> QED BY <1>6, <1>2, <2>1
<1> HIDE DEF s4
<1>8. s5 \in Seq(Nat) /\ Len(s5) = 16 /\ At(s5, 13, d5)
  <2>1. /\ s5 \in Seq(Nat) /\ Len(s5) = Len(s4) + Len(d5)
        /\ At(s5, Len(s4) + 1, d5)
    BY <1>7, <1>3, Joined
  <2>2. Len(s4) + Len(d5) = 16 /\ Len(s4) + 1 = 13
    BY <1>7, <1>3
  <2> QED BY <2>1, <2>2
<1> HIDE DEF s5
<1>9. Len(e) = Len(s5) + 2 /\ e[1] = Len(s5) + 2 /\ At(e, 3, s5)
  BY <1>3, <1>8, DescBytes
<1> HIDE DEF e
<1>10. e[15] = s5[13] /\ e[16] = s5[14] /\ e[17] = s5[15]
  BY <1>8, <1>9 DEF At
<1>11. s5[13] = 1 /\ s5[14] = 2 /\ s5[15] = 3
  BY <1>3, <1>8 DEF At
<1> QED BY <1>1, <1>8, <1>9, <1>10, <1>11

\* A string descriptor of the length it claims.
LEMMA StringBytes ==
  ASSUME NEW text \in Seq(Nat), NEW n \in Nat, n = Len(text) + 2
  PROVE  /\ << n, TypeString >> \o text # NULL
         /\ (<< n, TypeString >> \o text)[1] = Len(<< n, TypeString >> \o text)
<1> DEFINE head == << n, TypeString >>
           s == head \o text
<1>1. head \in Seq(Nat) /\ Len(head) = 2 /\ head[1] = n
  BY DEF TypeString
<1>2. s = << n, TypeString >> \o text
  OBVIOUS
<1> HIDE DEF head
<1>3. s \in Seq(Nat) /\ Len(s) = Len(head) + Len(text) /\ At(s, 1, head)
  BY <1>1, Joined
<1> HIDE DEF s
<1>4. s[1] = n /\ Len(s) = n /\ Len(text) \in Nat
  BY <1>1, <1>3 DEF At
<1>5. s # NULL
  BY <1>3, <1>4 DEF NULL
<1> QED BY <1>2, <1>4, <1>5

\* The strings.
LEMMA Strings ==
  ASSUME NEW i \in {0, 1, 2, 3}
  PROVE  LET string == get_descriptor(TypeString, i)
         IN string # NULL /\ string[1] = Len(string)
<1> DEFINE string == get_descriptor(TypeString, i)
<1> SUFFICES string # NULL /\ string[1] = Len(string)
  OBVIOUS
<1>1. string = vcom_strings[i + 1]
  BY DEF get_descriptor, TypeConfiguration, TypeDevice, TypeString
<1> HIDE DEF string
<1>2. ASSUME NEW n \in Nat PROVE Characters(n) \in Seq(Nat) /\ Len(Characters(n)) = 2 * n
  <2>1. 2 * n \in Nat
    OBVIOUS
  <2> QED BY <2>1 DEF Characters
<1>3. CASE i = 0
  <2> DEFINE text == Word(1033)
  <2>1. text \in Seq(Nat) /\ Len(text) = 2
    BY WordBytes
  <2>2. string = <<4, TypeString>> \o text
    BY <1>1, <1>3 DEF vcom_strings
  <2> HIDE DEF text
  <2>3. 4 \in Nat /\ 4 = Len(text) + 2
    BY <2>1
  <2> QED BY <2>1, <2>2, <2>3, StringBytes
<1>4. CASE i = 1
  <2> DEFINE text == Characters(18)
  <2>1. text \in Seq(Nat) /\ Len(text) = 2 * 18
    BY <1>2
  <2>2. string = <<38, TypeString>> \o text
    BY <1>1, <1>4 DEF vcom_strings
  <2> HIDE DEF text
  <2>3. 38 \in Nat /\ 38 = Len(text) + 2
    BY <2>1
  <2> QED BY <2>1, <2>2, <2>3, StringBytes
<1>5. CASE i = 2
  <2> DEFINE text == Characters(27)
  <2>1. text \in Seq(Nat) /\ Len(text) = 2 * 27
    BY <1>2
  <2>2. string = <<56, TypeString>> \o text
    BY <1>1, <1>5 DEF vcom_strings
  <2> HIDE DEF text
  <2>3. 56 \in Nat /\ 56 = Len(text) + 2
    BY <2>1
  <2> QED BY <2>1, <2>2, <2>3, StringBytes
<1>6. CASE i = 3
  <2> DEFINE text == Characters(3)
  <2>1. text \in Seq(Nat) /\ Len(text) = 2 * 3
    BY <1>2
  <2>2. string = <<8, TypeString>> \o text
    BY <1>1, <1>6 DEF vcom_strings
  <2> HIDE DEF text
  <2>3. 8 \in Nat /\ 8 = Len(text) + 2
    BY <2>1
  <2> QED BY <2>1, <2>2, <2>3, StringBytes
<1> QED BY <1>3, <1>4, <1>5, <1>6

\* The descriptors are whole.
LEMMA DescriptionIsWhole == DescriptionWhole
<1> DEFINE bytes  == ConfigurationRead
           device == get_descriptor(TypeDevice, 0)
           found  == DescriptorsIn(bytes, TypeInterface, 0, Len(bytes))
<1>1. bytes = vcom_configuration_descriptor
  BY ConfigurationWhole
<1>2. get_descriptor(TypeConfiguration, 0) = vcom_configuration_descriptor
  BY DEF get_descriptor, TypeConfiguration, TypeDevice, TypeString
<1>3. device = vcom_device_descriptor
  BY DEF get_descriptor, TypeConfiguration, TypeDevice, TypeString
<1>4. device[1] = Len(device) /\ {0, device[15], device[16], device[17]} = {0, 1, 2, 3}
  <2> HIDE DEF device
  <2>1. Len(device) = 18 /\ device[1] = 18 /\ device[15] = 1 /\ device[16] = 2 /\ device[17] = 3
    BY <1>3, DeviceBytes
  <2> QED BY <2>1
<1> HIDE DEF bytes, device
<1>5. Len(bytes) = 67 /\ bytes[5] = 2 /\ bytes[12] = 0 /\ bytes[14] = 1 /\ bytes[47] = 1
      /\ bytes[49] = 2
  BY <1>1, ConfigurationBytes
<1>6. Len(bytes) + 1 \in StartsIn(bytes)
  BY <1>1, <1>5, ConfigurationWalk DEF Starts
<1>7. found = {10, 45}
  BY <1>1, <1>5, ConfigurationParts
<1> HIDE DEF found
<1>8. {bytes[p + 2] : p \in found} = 0..(bytes[5] - 1)
  BY <1>5, <1>7
<1>9. InterfaceEnd(bytes, 10) = 45 /\ InterfaceEnd(bytes, 45) = 68
  <2>1. /\ DescriptorsIn(bytes, TypeInterface, 10, Len(bytes)) = {45}
        /\ DescriptorsIn(bytes, TypeInterface, 45, Len(bytes)) = {}
    BY <1>1, <1>5, ConfigurationParts
  <2>2. (CHOOSE q \in {45} : \A r \in {45} : q <= r) = 45
    OBVIOUS
  <2>3. InterfaceEnd(bytes, 10) = 45
    BY <2>1, <2>2 DEF InterfaceEnd
  <2>4. InterfaceEnd(bytes, 45) = 68
    BY <1>5, <2>1 DEF InterfaceEnd
  <2> QED BY <2>3, <2>4
<1>10. /\ Cardinality(DescriptorsIn(bytes, TypeEndpoint, 10, 45)) = 1
       /\ Cardinality(DescriptorsIn(bytes, TypeEndpoint, 45, 68)) = 2
  <2>1. /\ DescriptorsIn(bytes, TypeEndpoint, 10, 45) = {38}
        /\ DescriptorsIn(bytes, TypeEndpoint, 45, 68) = {54, 61}
    BY <1>1, ConfigurationParts
  <2>2. Cardinality({38}) = 1
    BY FS_Singleton
  <2>3. Cardinality({54, 61}) = 2
    <3>1. IsFiniteSet({54}) /\ Cardinality({54}) = 1
      BY FS_Singleton
    <3>2. 61 \notin {54} /\ {54} \cup {61} = {54, 61}
      OBVIOUS
    <3> QED BY <3>1, <3>2, FS_AddElement
  <2> QED BY <2>1, <2>2, <2>3
<1>11. \A p \in found :
         Cardinality(DescriptorsIn(bytes, TypeEndpoint, p, InterfaceEnd(bytes, p))) = bytes[p + 4]
  BY <1>5, <1>7, <1>9, <1>10
<1>12. \A i \in {0, device[15], device[16], device[17]} :
         LET string == get_descriptor(TypeString, i)
         IN string # NULL /\ string[1] = Len(string)
  BY <1>4, Strings
<1>13. Len(bytes) = Len(get_descriptor(TypeConfiguration, 0))
  BY <1>1, <1>2
<1> QED BY <1>4, <1>6, <1>8, <1>11, <1>12, <1>13 DEF DescriptionWhole, bytes, device, found

\* The endpoints the descriptors promise.
LEMMA ConfigurationEndpoints ==
  Endpoints(ConfigurationRead) =
    {[number |-> USBD1_INTERRUPT_REQUEST_EP, in |-> TRUE,  type |-> 3, size |-> 8],
     [number |-> USBD1_DATA_AVAILABLE_EP,    in |-> FALSE, type |-> 2, size |-> 64],
     [number |-> USBD1_DATA_REQUEST_EP,      in |-> TRUE,  type |-> 2, size |-> 64]}
<1> DEFINE bytes == ConfigurationRead
<1>1. bytes = vcom_configuration_descriptor
  BY ConfigurationWhole
<1> HIDE DEF bytes
<1>2. /\ Len(bytes) = 67
      /\ bytes[40] = 130 /\ bytes[41] = 3 /\ bytes[42] + 256 * bytes[43] = 8
      /\ bytes[56] = 1 /\ bytes[57] = 2 /\ bytes[58] + 256 * bytes[59] = 64
      /\ bytes[63] = 129 /\ bytes[64] = 2 /\ bytes[65] + 256 * bytes[66] = 64
  BY <1>1, ConfigurationBytes DEF USBD1_INTERRUPT_REQUEST_EP, In, USBD1_DATA_AVAILABLE_EP,
     USBD1_DATA_REQUEST_EP
<1>4. EndpointAt(bytes, 38) = [number |-> 2, in |-> TRUE, type |-> 3, size |-> 8]
  <2>1. /\ bytes[38 + 2] % In = 2 /\ (bytes[38 + 2] >= In) = TRUE
        /\ bytes[38 + 3] = 3 /\ bytes[38 + 4] + 256 * bytes[38 + 5] = 8
    BY <1>2 DEF In
  <2> QED BY <2>1, Zenon DEF EndpointAt
<1>5. EndpointAt(bytes, 54) = [number |-> 1, in |-> FALSE, type |-> 2, size |-> 64]
  <2>1. /\ bytes[54 + 2] % In = 1 /\ (bytes[54 + 2] >= In) = FALSE
        /\ bytes[54 + 3] = 2 /\ bytes[54 + 4] + 256 * bytes[54 + 5] = 64
    BY <1>2 DEF In
  <2> QED BY <2>1, Zenon DEF EndpointAt
<1>6. EndpointAt(bytes, 61) = [number |-> 1, in |-> TRUE, type |-> 2, size |-> 64]
  <2>1. /\ bytes[61 + 2] % In = 1 /\ (bytes[61 + 2] >= In) = TRUE
        /\ bytes[61 + 3] = 2 /\ bytes[61 + 4] + 256 * bytes[61 + 5] = 64
    BY <1>2 DEF In
  <2> QED BY <2>1, Zenon DEF EndpointAt
<1>7. DescriptorsIn(bytes, TypeEndpoint, 0, Len(bytes)) = {38, 54, 61}
  BY <1>1, <1>2, ConfigurationParts
<1>8. Endpoints(bytes) = {EndpointAt(bytes, 38), EndpointAt(bytes, 54), EndpointAt(bytes, 61)}
  BY <1>7 DEF Endpoints
<1> QED BY <1>4, <1>5, <1>6, <1>8 DEF bytes, USBD1_INTERRUPT_REQUEST_EP,
     USBD1_DATA_AVAILABLE_EP, USBD1_DATA_REQUEST_EP

\* They are opened with room for their packets.
LEMMA EndpointsAreServed == EndpointsServed
<1> SUFFICES ASSUME NEW e \in Endpoints(ConfigurationRead)
             PROVE  /\ e.number \in DOMAIN Opened
                    /\ e.type = Opened[e.number].type
                    /\ e.size <= IF e.in THEN Opened[e.number].in ELSE Opened[e.number].out
  BY DEF EndpointsServed
<1>1. /\ DOMAIN Opened = {1, 2}
      /\ Opened[1] = [type |-> 2, in |-> 64, out |-> 64]
      /\ Opened[2] = [type |-> 3, in |-> 16, out |-> 0]
  BY DEF Opened, ep1config, ep2config, Bulk, Intr, USBD1_DATA_REQUEST_EP, USBD1_INTERRUPT_REQUEST_EP
<1>2. /\ e.number \in {1, 2}
      /\ e.number = 1 => e.type = 2 /\ e.size = 64
      /\ e.number = 2 => e.type = 3 /\ e.size = 8 /\ e.in
  BY ConfigurationEndpoints DEF USBD1_INTERRUPT_REQUEST_EP, USBD1_DATA_AVAILABLE_EP,
     USBD1_DATA_REQUEST_EP
<1> QED BY <1>1, <1>2

\* The serial driver's endpoints are described.
LEMMA SerialIsDescribed == SerialDescribed
<1> DEFINE E == Endpoints(ConfigurationRead)
<1>1. /\ [number |-> 2, in |-> TRUE,  type |-> 3, size |-> 8] \in E
      /\ [number |-> 1, in |-> FALSE, type |-> 2, size |-> 64] \in E
      /\ [number |-> 1, in |-> TRUE,  type |-> 2, size |-> 64] \in E
  BY ConfigurationEndpoints DEF USBD1_INTERRUPT_REQUEST_EP, USBD1_DATA_AVAILABLE_EP,
     USBD1_DATA_REQUEST_EP
<1> HIDE DEF E
<1>2. \E e \in E : <<1, TRUE, 2>> = <<e.number, e.in, e.type>>
  BY <1>1
<1>3. \E e \in E : <<1, FALSE, 2>> = <<e.number, e.in, e.type>>
  BY <1>1
<1>4. \E e \in E : <<2, TRUE, 3>> = <<e.number, e.in, e.type>>
  BY <1>1
<1>5. /\ serusbcfg.bulk_in = 1 /\ serusbcfg.bulk_out = 1 /\ serusbcfg.int_in = 2
      /\ Bulk = 2 /\ Intr = 3
  BY DEF serusbcfg, Bulk, Intr, USBD1_INTERRUPT_REQUEST_EP, USBD1_DATA_AVAILABLE_EP,
     USBD1_DATA_REQUEST_EP
<1> SUFFICES ASSUME NEW use \in {<<serusbcfg.bulk_in, TRUE, Bulk>>,
                                 <<serusbcfg.bulk_out, FALSE, Bulk>>,
                                 <<serusbcfg.int_in, TRUE, Intr>>}
             PROVE  \E e \in E : use = <<e.number, e.in, e.type>>
  BY Zenon DEF SerialDescribed, E
<1>6. CASE use = <<1, TRUE, 2>>
  BY <1>2, <1>6, Zenon
<1>7. CASE use = <<1, FALSE, 2>>
  BY <1>3, <1>7, Zenon
<1>8. CASE use = <<2, TRUE, 3>>
  BY <1>4, <1>8, Zenon
<1> QED BY <1>5, <1>6, <1>7, <1>8

-----------------------------------------------------------------------------
(* The theorems. *)

\* The inductive invariant holds of every execution.
THEOREM ConsoleInvariance == Spec => []ConsoleInv
<1>1. ConsoleInv /\ UNCHANGED vars => ConsoleInv'
  <2> SUFFICES ASSUME ConsoleInv, UNCHANGED vars PROVE ConsoleInv'
    OBVIOUS
  <2>1. /\ UNCHANGED <<session, last_call, was_command, cmd_address, cmd_command, cmd_repeat>>
        /\ UNCHANGED <<main, todo, args, part, sdu, bus, asleep, woken, fate, heard>>
    BY DEF vars, channel, mailbox, loop, host, history
  <2>2. Typed'
    BY <2>1 DEF ConsoleInv, Typed
  <2> QED BY <2>1, <2>2, OthersKept DEF ConsoleInv
<1>2. ConsoleInv /\ [Next]_vars => ConsoleInv'
  BY <1>1, CallStep, SessionEndsStep, TestStep, LoadStep, PrintStep, BlockStep, ClearStep,
     HostStep DEF Next, Main
<1> QED BY <1>2, ConsoleInitInv, PTL DEF Spec

\* Variables and buffers keep their types and bounds, however the callback, the
\* loop, the driver and the host interleave: no buffer grows beyond its size, no
\* queue beyond its number of buffers, and the host never hears more than a line.
THEOREM ConsoleTypeCorrect == Spec => []TypeOK
<1> QED BY ConsoleTypes, ConsoleInvariance, PTL

\* A call that no print was in the way of is printed as it was made, out of
\* fields that main loads one by one and clears, for every set of commands.
THEOREM PrintsLastCallSafe == Spec => []PrintsLastCall
<1> QED BY PrintsCurrent, ConsoleInvariance, PTL

\* What is printed of a call that nothing was in the way of reaches the host as
\* the last line it hears, whole and in order, for every size and number of
\* buffers and every way a line may be cut into them: what main has written is
\* never lost, doubled or mixed with an earlier line on its way.
THEOREM LineOnItsWaySafe == Spec => []LineOnItsWay
<1>1. ConsoleInv => LineOnItsWay
  BY DEF ConsoleInv, Progress, LineOnItsWay
<1> QED BY <1>1, ConsoleInvariance, PTL

\* The serial driver's idea of the connection is the bus's, in every order of
\* the host's actions, but for a bus that was woken and never configured.
THEOREM SerialFollowsBusSafe == Spec => []SerialFollowsBus
<1>1. ConsoleInv => SerialFollowsBus
  BY DEF ConsoleInv
<1> QED BY <1>1, ConsoleInvariance, PTL

\* The descriptors a host reads can be walked from end to end and hold what they
\* announce; every endpoint they promise is opened with room for its packets, and
\* the serial driver's three are among them.  The bytes, the endpoint
\* configurations and serusbcfg are three separate tables in usbcfg.c.
THEOREM DescriptionServedSafe == Spec => []DescriptionServed
<1>1. DescriptionServed
  BY DescriptionIsWhole, EndpointsAreServed, SerialIsDescribed DEF DescriptionServed
<1> QED BY <1>1, PTL
=============================================================================
