-------------------------- MODULE ScanDecodeProofs ---------------------------
(***************************************************************************)
(* What is proved of ScanDecode for every set of distances, every DMAX,    *)
(* any number of steps and echoes and every way of cutting the text of a   *)
(* scan into lines: what is stored is the scan, with its break points, one *)
(* of distances fits the arrays of the driver, and a scan read to its end  *)
(* was counted step by step.                                               *)
(***************************************************************************)
EXTENDS ScanDecode, SequenceTheorems, FiniteSetTheorems, TLAPS

-----------------------------------------------------------------------------
(***************************************************************************)
(* Induction over the numbers, as a fact about sets: it follows from the   *)
(* library's theorem that a set of numbers has a least one.                *)
(***************************************************************************)
Less == {p \in Nat \X Nat : p[1] < p[2]}
LEMMA LessWF == IsWellFoundedOn(Less, Nat)
<1>1. OpToRel(<, Nat) = Less
  BY DEF OpToRel, Less
<1> QED BY <1>1, NatLessThanWellFounded

\* A set that holds 0, and with each number the next one, holds them all.
LEMMA Induction ==
  ASSUME NEW S, 0 \in S, \A k \in Nat : k \in S => k + 1 \in S
  PROVE  \A k \in Nat : k \in S
<1> SUFFICES ASSUME Nat \ S # {}
             PROVE  FALSE
  OBVIOUS
<1>1. PICK least \in Nat \ S : \A k \in Nat \ S : <<k, least>> \notin Less
  BY LessWF, WFMin
<1>2. least # 0 /\ least - 1 \in Nat /\ <<least - 1, least>> \in Less
  BY <1>1 DEF Less
<1> QED BY <1>1, <1>2

-----------------------------------------------------------------------------
(***************************************************************************)
(* FlattenSeq, of which the text of a scan is built: it is the first       *)
(* sequence and then the rest, flattened.                                  *)
(***************************************************************************)

\* f is the function that FlattenSeq defines, for the first k of seqs
Flattens(f, seqs, k, S) ==
  /\ f \in [1 .. k -> Seq(S)]
  /\ \A i \in 1 .. k : f[i] = IF i = 1 THEN seqs[i] ELSE f[i - 1] \o seqs[i]

LEMMA FlattensExists ==
  ASSUME NEW S, NEW seqs \in Seq(Seq(S))
  PROVE  \A k \in Nat : k <= Len(seqs) => \E f : Flattens(f, seqs, k, S)
<1> DEFINE Good == {k \in Nat : k <= Len(seqs) => \E f : Flattens(f, seqs, k, S)}
<1>1. 0 \in Good
  <2>1. Flattens([i \in 1 .. 0 |-> <<>>], seqs, 0, S)
    BY DEF Flattens
  <2> QED BY <2>1
<1>2. ASSUME NEW k \in Nat, k \in Good
      PROVE  k + 1 \in Good
  <2> SUFFICES ASSUME k + 1 <= Len(seqs)
               PROVE  \E f : Flattens(f, seqs, k + 1, S)
    OBVIOUS
  <2>1. PICK f : Flattens(f, seqs, k, S)
    BY <1>2
  <2> DEFINE next == IF k + 1 = 1 THEN seqs[k + 1] ELSE f[k] \o seqs[k + 1]
             g == [i \in 1 .. k + 1 |-> IF i = k + 1 THEN next ELSE f[i]]
  <2>2. next \in Seq(S)
    <3>1. seqs[k + 1] \in Seq(S)
      BY ElementOfSeq
    <3>2. k >= 1 => f[k] \in Seq(S)
      BY <2>1 DEF Flattens
    <3> QED BY <3>1, <3>2, ConcatProperties
  <2> HIDE DEF next
  <2>3. g \in [1 .. k + 1 -> Seq(S)]
    BY <2>1, <2>2 DEF Flattens
  <2>4. ASSUME NEW i \in 1 .. k + 1
        PROVE  g[i] = IF i = 1 THEN seqs[i] ELSE g[i - 1] \o seqs[i]
    <3>1. CASE i = k + 1
      BY <3>1 DEF next
    <3>2. CASE i # k + 1
      <4>1. i \in 1 .. k /\ (i # 1 => i - 1 \in 1 .. k) /\ i - 1 # k + 1
        BY <3>2
      <4>2. f[i] = IF i = 1 THEN seqs[i] ELSE f[i - 1] \o seqs[i]
        BY <2>1, <4>1 DEF Flattens
      <4>3. g[i] = f[i] /\ (i # 1 => g[i - 1] = f[i - 1])
        BY <3>2, <4>1
      <4> QED BY <4>2, <4>3
    <3> QED BY <3>1, <3>2
  <2>5. Flattens(g, seqs, k + 1, S)
    BY <2>3, <2>4 DEF Flattens
  <2> QED BY <2>5
<1> HIDE DEF Good
<1>3. \A k \in Nat : k \in Good
  BY <1>1, <1>2, Induction
<1> QED BY <1>3 DEF Good

LEMMA FlattenSeqIs ==
  ASSUME NEW S, NEW seqs \in Seq(Seq(S)), seqs # <<>>
  PROVE  \E f : Flattens(f, seqs, Len(seqs), S) /\ FlattenSeq(seqs) = f[Len(seqs)]
<1> DEFINE L == Len(seqs)
           Eq(f) == f = [i \in 1 .. L |-> IF i = 1 THEN seqs[i] ELSE f[i - 1] \o seqs[i]]
           flatten == CHOOSE f : Eq(f)
<1>1. L \in Nat /\ L # 0 /\ DOMAIN seqs = 1 .. L
  BY EmptySeq, LenProperties
<1>2. FlattenSeq(seqs) = flatten[L]
  BY <1>1 DEF FlattenSeq
<1>3. PICK f : Flattens(f, seqs, L, S)
  BY <1>1, FlattensExists
<1>4. Eq(f)
  BY <1>3 DEF Flattens
<1>5. Eq(flatten)
  BY <1>4
<1> HIDE DEF flatten
<1>6. flatten[L] = f[L]
  <2> DEFINE Good == {k \in Nat : k \in 1 .. L => flatten[k] = f[k]}
  <2>1. 0 \in Good
    OBVIOUS
  <2>2. ASSUME NEW k \in Nat, k \in Good
        PROVE  k + 1 \in Good
    <3> SUFFICES ASSUME k + 1 \in 1 .. L
                 PROVE  flatten[k + 1] = f[k + 1]
      OBVIOUS
    <3> DEFINE i == k + 1
    <3>1. i \in 1 .. L /\ i - 1 = k /\ (i # 1 => k \in 1 .. L)
      BY <1>1
    <3>2. i # 1 => flatten[i - 1] = f[i - 1]
      BY <2>2, <3>1
    <3> HIDE DEF i
    <3>3. flatten[i] = IF i = 1 THEN seqs[i] ELSE flatten[i - 1] \o seqs[i]
      BY <1>5, <3>1
    <3>4. f[i] = IF i = 1 THEN seqs[i] ELSE f[i - 1] \o seqs[i]
      BY <1>4, <3>1
    <3>5. flatten[i] = f[i]
      BY <3>2, <3>3, <3>4
    <3> QED BY <3>5 DEF i
  <2> HIDE DEF Good
  <2>3. \A k \in Nat : k \in Good
    BY <2>1, <2>2, Induction
  <2> QED BY <1>1, <2>3 DEF Good
<1>7. FlattenSeq(seqs) = f[L]
  BY <1>2, <1>6
<1> QED BY <1>3, <1>7

LEMMA Appends ==
  ASSUME NEW S, NEW a \in Seq(S), NEW b \in Seq(S), NEW c \in Seq(S),
         NEW ab, ab = a \o b, NEW bc, bc = b \o c
  PROVE  ab \o c = a \o bc
  BY ConcatAssociative

\* FlattenSeq from the left
LEMMA FlattenCons ==
  ASSUME NEW S, NEW seqs \in Seq(Seq(S)), seqs # <<>>
  PROVE  /\ FlattenSeq(seqs) \in Seq(S)
         /\ FlattenSeq(seqs) = Head(seqs) \o FlattenSeq(Tail(seqs))
<1> DEFINE L == Len(seqs)
           T == Tail(seqs)
<1>1. L \in Nat /\ L # 0 /\ DOMAIN seqs = 1 .. L
  BY EmptySeq, LenProperties
<1>2. PICK f : Flattens(f, seqs, L, S) /\ FlattenSeq(seqs) = f[L]
  BY FlattenSeqIs
<1>3. FlattenSeq(seqs) \in Seq(S)
  BY <1>1, <1>2 DEF Flattens
<1>4. T \in Seq(Seq(S)) /\ Len(T) = L - 1 /\ Head(seqs) = seqs[1] /\ Head(seqs) \in Seq(S)
      /\ \A i \in 1 .. L - 1 : T[i] = seqs[i + 1]
  BY <1>1, HeadTailProperties
<1>5. f[1] = Head(seqs)
  BY <1>1, <1>2, <1>4 DEF Flattens
<1>6. CASE T = <<>>
  <2>1. Len(T) = 0 /\ L = 1
    <3>1. Len(T) = L - 1 /\ T = <<>> /\ L \in Nat
      BY <1>1, <1>4, <1>6
    <3> HIDE DEF T, L
    <3> QED BY <3>1
  <2>2. FlattenSeq(T) = <<>>
    BY <1>6, <2>1 DEF FlattenSeq
  <2> QED BY <1>2, <1>3, <1>4, <1>5, <2>1, <2>2, ConcatEmptySeq
<1>7. CASE T # <<>>
  <2>1. PICK g : Flattens(g, T, L - 1, S) /\ FlattenSeq(T) = g[L - 1]
    BY <1>4, <1>7, FlattenSeqIs
  <2>2. L - 1 \in Nat /\ L - 1 # 0
    BY <1>4, <1>7, EmptySeq, LenProperties
  <2> DEFINE Good == {k \in Nat : k \in 1 .. L - 1 => f[k + 1] = Head(seqs) \o g[k]}
  <2>3. 0 \in Good
    OBVIOUS
  <2>4. ASSUME NEW k \in Nat, k \in Good
        PROVE  k + 1 \in Good
    <3> DEFINE i == k + 1
    <3>0. i \in Nat
      OBVIOUS
    <3> HIDE DEF i
    <3> SUFFICES ASSUME i \in 1 .. L - 1
                 PROVE  f[i + 1] = Head(seqs) \o g[i]
      BY <3>0 DEF i
    <3> USE DEF i
    <3>1. /\ i \in 1 .. L - 1 /\ i - 1 = k /\ (i # 1 => k \in 1 .. L - 1)
          /\ i + 1 \in 1 .. L /\ i + 1 # 1 /\ (i + 1) - 1 = i
      BY <1>1
    <3>2. i # 1 => f[i] = Head(seqs) \o g[i - 1]
      BY <2>4, <3>1
    <3> HIDE DEF i, L, T
    <3>3. T[i] = seqs[i + 1] /\ T[i] \in Seq(S)
      <4>1. seqs[i + 1] \in Seq(S)
        BY <3>1, ElementOfSeq DEF L
      <4> QED BY <1>4, <3>1, <4>1
    <3>4. f[i + 1] = f[i] \o T[i]
      BY <1>2, <3>1, <3>3 DEF Flattens
    <3>5. CASE i = 1
      <4>1. g[i] = T[i]
        BY <2>1, <3>1, <3>5 DEF Flattens
      <4>2. f[i + 1] = Head(seqs) \o g[i]
        BY <1>5, <3>4, <3>5, <4>1
      <4> QED BY <4>2
    <3>6. CASE i # 1
      <4>1. i - 1 \in 1 .. L - 1
        BY <3>1, <3>6
      <4>2. g[i] = g[i - 1] \o T[i] /\ g[i - 1] \in Seq(S)
        BY <2>1, <3>1, <3>6, <4>1 DEF Flattens
      <4>3. f[i] = Head(seqs) \o g[i - 1]
        BY <3>2, <3>6
      <4>4. f[i] \o T[i] = Head(seqs) \o g[i]
        <5> DEFINE a == Head(seqs)
                   b == g[i - 1]
                   c == T[i]
                   ab == f[i]
                   bc == g[i]
        <5>1. a \in Seq(S) /\ b \in Seq(S) /\ c \in Seq(S) /\ ab = a \o b /\ bc = b \o c
          BY <1>4, <3>3, <4>2, <4>3
        <5> HIDE DEF a, b, c, ab, bc
        <5>2. ab \o c = a \o bc
          BY ONLY <5>1, Appends
        <5> QED BY <5>2 DEF a, b, c, ab, bc
      <4>5. f[i + 1] = Head(seqs) \o g[i]
        BY <3>4, <4>4
      <4> QED BY <4>5
    <3> QED BY <3>5, <3>6
  <2> HIDE DEF Good
  <2>5. \A k \in Nat : k \in Good
    BY <2>3, <2>4, Induction
  <2>6. f[L] = Head(seqs) \o g[L - 1]
    BY <1>1, <2>2, <2>5 DEF Good
  <2> QED BY <1>2, <1>3, <1>4, <2>1, <2>6
<1> QED BY <1>6, <1>7
\* What FlattenSeq makes of the sequences behind the first j.
FlatFrom(seqs, j) == FlattenSeq(SubSeq(seqs, j + 1, Len(seqs)))

LEMMA FlattenFrom ==
  ASSUME NEW S, NEW seqs \in Seq(Seq(S)), NEW j \in 0 .. Len(seqs)
  PROVE  /\ FlatFrom(seqs, j) \in Seq(S)
         /\ j = Len(seqs) => FlatFrom(seqs, j) = <<>>
         /\ j < Len(seqs) => FlatFrom(seqs, j) = seqs[j + 1] \o FlatFrom(seqs, j + 1)
<1> DEFINE L == Len(seqs)
           T == SubSeq(seqs, j + 1, L)
<1>1. L \in Nat /\ j \in Nat /\ j <= L
  BY LenProperties
<1>2. CASE j = L
  <2>1. T = <<>>
    BY <1>1, <1>2, SubSeqEmpty
  <2>2. FlattenSeq(<<>>) = <<>>
    BY DEF FlattenSeq
  <2>3. FlatFrom(seqs, j) = FlattenSeq(T)
    BY DEF FlatFrom
  <2>4. FlatFrom(seqs, j) = <<>>
    BY ONLY <2>1, <2>2, <2>3
  <2>5. ~(j < L)
    <3> HIDE DEF L
    <3> QED BY ONLY <1>1, <1>2
  <2> QED BY <2>4, <2>5, EmptySeq
<1>3. CASE j < L
  <2> DEFINE R == SubSeq(seqs, (j + 1) + 1, L)
             from == FlatFrom(seqs, j)
             first == seqs[j + 1]
             rest == FlatFrom(seqs, j + 1)
  <2>1. T \in Seq(Seq(S)) /\ Len(T) = L - j
    BY <1>1, <1>3, SubSeqProperties
  <2>2. Head(T) = first /\ Tail(T) = R
    BY <1>1, <1>3, HeadTailOfSubSeq
  <2>3. from = FlattenSeq(T) /\ rest = FlattenSeq(R)
    BY DEF FlatFrom
  <2>4. T # <<>>
    <3> HIDE DEF T
    <3> QED BY <1>1, <1>3, <2>1
  <2>5. FlattenSeq(T) \in Seq(S) /\ FlattenSeq(T) = Head(T) \o FlattenSeq(Tail(T))
    <3> HIDE DEF T, R
    <3> QED BY <2>1, <2>4, FlattenCons
  <2>6. from \in Seq(S) /\ from = first \o rest
    <3> HIDE DEF T, R, from, first, rest
    <3> QED BY ONLY <2>2, <2>3, <2>5
  <2>7. j # L
    BY ONLY <1>1, <1>3
  <2> QED BY ONLY <2>6, <2>7
<1>4. j = L \/ j < L
  <2> HIDE DEF L
  <2> QED BY ONLY <1>1
<1> QED BY ONLY <1>2, <1>3, <1>4, Zenon

-----------------------------------------------------------------------------
(***************************************************************************)
(* The text of a scan s, written with size characters for an echo.         *)
(***************************************************************************)
Char(size) == [of : Echo \cup {<<>>}, at : 0 .. size]

\* Every step has an echo.
Measured(s) == s \in Seq(Seq(Echo)) /\ \A k \in DOMAIN s : s[k] # <<>>

EchoText(step, j, size) ==
  IF j = 1 THEN Encoded(step[j], size) ELSE <<Ampersand>> \o Encoded(step[j], size)
EchoTexts(step, size) == [j \in DOMAIN step |-> EchoText(step, j, size)]
StepTexts(s, size) == [k \in DOMAIN s |-> StepText(s[k], size)]

\* What follows the first j echoes of step k.
TextFrom(s, size, k, j) == FlatFrom(EchoTexts(s[k], size), j) \o FlatFrom(StepTexts(s, size), k)

LEMMA EncodedText ==
  ASSUME NEW e \in Echo, NEW size \in {3, 6}
  PROVE  /\ Encoded(e, size) \in Seq(Char(size)) /\ Len(Encoded(e, size)) = size
         /\ \A i \in 1 .. size : Encoded(e, size)[i] = [of |-> e, at |-> i]
<1>1. \A i \in 1 .. size : [of |-> e, at |-> i] \in Char(size)
  BY DEF Char
<1>2. [i \in 1 .. size |-> [of |-> e, at |-> i]] \in [1 .. size -> Char(size)]
  BY <1>1
<1>3. Encoded(e, size) \in [1 .. size -> Char(size)]
  BY <1>2 DEF Encoded
<1>4. Encoded(e, size) \in Seq(Char(size)) /\ Len(Encoded(e, size)) = size
  BY <1>3, SeqDef
<1> QED BY <1>4 DEF Encoded

LEMMA EchoTextType ==
  ASSUME NEW size \in {3, 6}, NEW step \in Seq(Echo), NEW j \in DOMAIN step
  PROVE  EchoText(step, j, size) \in Seq(Char(size))
<1>1. step[j] \in Echo
  BY LenProperties, ElementOfSeq
<1>2. Encoded(step[j], size) \in Seq(Char(size))
  BY <1>1, EncodedText
<1>3. <<Ampersand>> \in Seq(Char(size))
  BY DEF Ampersand, Char
<1> QED BY <1>2, <1>3, ConcatProperties DEF EchoText

LEMMA EchoTextsType ==
  ASSUME NEW size \in {3, 6}, NEW step \in Seq(Echo)
  PROVE  EchoTexts(step, size) \in Seq(Seq(Char(size))) /\ Len(EchoTexts(step, size)) = Len(step)
<1>1. Len(step) \in Nat /\ DOMAIN step = 1 .. Len(step)
  BY LenProperties
<1>2. EchoTexts(step, size) \in [1 .. Len(step) -> Seq(Char(size))]
  BY <1>1, EchoTextType DEF EchoTexts
<1> QED BY <1>1, <1>2, SeqDef

\* The text of a step is that behind its first 0 echoes.
LEMMA StepTextIs ==
  ASSUME NEW size \in {3, 6}, NEW step \in Seq(Echo)
  PROVE  /\ StepText(step, size) \in Seq(Char(size))
         /\ StepText(step, size) = FlatFrom(EchoTexts(step, size), 0)
<1> DEFINE texts == EchoTexts(step, size)
<1>1. StepText(step, size) = FlattenSeq(texts)
  BY DEF StepText, EchoTexts, EchoText
<1>2. texts \in Seq(Seq(Char(size)))
  BY EchoTextsType
<1> HIDE DEF texts
<1>3. SubSeq(texts, 0 + 1, Len(texts)) = texts
  BY <1>2, SubSeqFull
<1>4. 0 \in 0 .. Len(texts)
  BY <1>2, LenProperties
<1> QED BY <1>1, <1>2, <1>3, <1>4, FlattenFrom DEF FlatFrom, texts

LEMMA StepTextsType ==
  ASSUME NEW size \in {3, 6}, NEW s, Measured(s)
  PROVE  StepTexts(s, size) \in Seq(Seq(Char(size))) /\ Len(StepTexts(s, size)) = Len(s)
<1>1. Len(s) \in Nat /\ DOMAIN s = 1 .. Len(s) /\ \A k \in DOMAIN s : s[k] \in Seq(Echo)
  BY LenProperties, ElementOfSeq DEF Measured
<1>2. StepTexts(s, size) \in [1 .. Len(s) -> Seq(Char(size))]
  BY <1>1, StepTextIs DEF StepTexts
<1> QED BY <1>1, <1>2, SeqDef
-----------------------------------------------------------------------------
(***************************************************************************)
(* Where in the scan the host is: text is what follows its first k steps,  *)
(* or some, but at least one, of the echoes of step k.                     *)
(***************************************************************************)
Pos(s, size, k, text) ==
  \/ k = 0 /\ text = FlatFrom(StepTexts(s, size), 0)
  \/ k \in 1 .. Len(s) /\ \E j \in 1 .. Len(s[k]) : text = TextFrom(s, size, k, j)

\* The text behind some echoes: of the next echo, of the next step, or none.
LEMMA NextEcho ==
  ASSUME NEW size \in {3, 6}, NEW s, Measured(s), NEW k \in DOMAIN s, NEW j \in 0 .. Len(s[k])
  PROVE  /\ TextFrom(s, size, k, j) \in Seq(Char(size))
         /\ j < Len(s[k]) =>
              TextFrom(s, size, k, j) = EchoText(s[k], j + 1, size) \o TextFrom(s, size, k, j + 1)
         /\ j = Len(s[k]) => TextFrom(s, size, k, j) = FlatFrom(StepTexts(s, size), k)
<1> DEFINE L == Len(s[k])
           C == Char(size)
           texts == EchoTexts(s[k], size)
           steps == FlatFrom(StepTexts(s, size), k)
           from == FlatFrom(texts, j)
           text == TextFrom(s, size, k, j)
<1>1. s[k] \in Seq(Echo) /\ k \in 0 .. Len(s)
  BY LenProperties, ElementOfSeq DEF Measured
<1>2. L \in Nat /\ texts \in Seq(Seq(C)) /\ Len(texts) = L
  BY <1>1, EchoTextsType, LenProperties
<1>3. steps \in Seq(C)
  BY <1>1, StepTextsType, FlattenFrom
<1>4. /\ from \in Seq(C)
      /\ j = L => from = <<>>
      /\ j < L => from = texts[j + 1] \o FlatFrom(texts, j + 1)
  <2> HIDE DEF texts, C, L
  <2>1. j \in 0 .. Len(texts)
    BY <1>2 DEF L
  <2> QED BY <1>2, <2>1, FlattenFrom
<1>5. text = from \o steps
  BY DEF TextFrom
<1>6. text \in Seq(C)
  <2> HIDE DEF text, from, steps, C
  <2> QED BY <1>3, <1>4, <1>5, ConcatProperties
<1>7. ASSUME j = L
      PROVE  text = steps
  <2> HIDE DEF text, from, steps, C, L
  <2> QED BY <1>3, <1>4, <1>5, <1>7, ConcatEmptySeq
<1>8. ASSUME j < L
      PROVE  text = EchoText(s[k], j + 1, size) \o TextFrom(s, size, k, j + 1)
  <2> DEFINE first == EchoText(s[k], j + 1, size)
             rest == FlatFrom(texts, j + 1)
             next == TextFrom(s, size, k, j + 1)
  <2>1. j + 1 \in DOMAIN s[k]
    <3>1. DOMAIN s[k] = 1 .. L
      BY <1>1, LenProperties
    <3> HIDE DEF L
    <3> QED BY <1>2, <1>8, <3>1 DEF L
  <2>2. texts[j + 1] = first /\ first \in Seq(C)
    BY <1>1, <2>1, EchoTextType DEF EchoTexts
  <2>3. rest \in Seq(C)
    <3>1. j + 1 \in 0 .. Len(texts)
      <4> HIDE DEF L, texts
      <4> QED BY <1>2, <1>8 DEF L
    <3> HIDE DEF texts, C
    <3> QED BY <1>2, <3>1, FlattenFrom
  <2>4. next = rest \o steps
    BY DEF TextFrom
  <2>5. from = first \o rest
    <3> DEFINE x == texts[j + 1]
    <3>1. from = x \o rest /\ x = first
      BY <1>4, <1>8, <2>2, Zenon
    <3> HIDE DEF x, texts, L, from, first, rest
    <3> QED BY ONLY <3>1
  <2> HIDE DEF texts, L, C, from, first, rest, next, steps, text
  <2>6. text = first \o next
    BY ONLY <1>3, <1>5, <2>2, <2>3, <2>4, <2>5, Appends
  <2> QED BY <2>6 DEF text, first, next
<1> QED BY <1>6, <1>7, <1>8

LEMMA NextStep ==
  ASSUME NEW size \in {3, 6}, NEW s, Measured(s), NEW k \in 0 .. Len(s)
  PROVE  /\ FlatFrom(StepTexts(s, size), k) \in Seq(Char(size))
         /\ k = Len(s) => FlatFrom(StepTexts(s, size), k) = <<>>
         /\ k < Len(s) => FlatFrom(StepTexts(s, size), k) = TextFrom(s, size, k + 1, 0)
<1> DEFINE L == Len(s)
           C == Char(size)
           texts == StepTexts(s, size)
           from == FlatFrom(texts, k)
<1>1. L \in Nat /\ DOMAIN s = 1 .. L /\ texts \in Seq(Seq(C)) /\ Len(texts) = L
  BY StepTextsType, LenProperties DEF Measured
<1>2. /\ from \in Seq(C)
      /\ k = L => from = <<>>
      /\ k < L => from = texts[k + 1] \o FlatFrom(texts, k + 1)
  <2> HIDE DEF texts, C
  <2> QED BY <1>1, FlattenFrom
<1>3. ASSUME k < L
      PROVE  from = TextFrom(s, size, k + 1, 0)
  <2>1. k + 1 \in DOMAIN s
    <3> HIDE DEF L
    <3> QED BY <1>1, <1>3 DEF L
  <2>2. s[k + 1] \in Seq(Echo)
    BY <1>1, <2>1, ElementOfSeq DEF Measured
  <2>3. texts[k + 1] = FlatFrom(EchoTexts(s[k + 1], size), 0)
    BY <2>1, <2>2, StepTextIs DEF StepTexts
  <2> QED BY <1>2, <1>3, <2>3 DEF TextFrom
<1> QED BY <1>2, <1>3

LEMMA ScanTextIs ==
  ASSUME NEW size \in {3, 6}, NEW s, Measured(s)
  PROVE  ScanText(s, size) \in Seq(Char(size)) /\ Pos(s, size, 0, ScanText(s, size))
<1> DEFINE texts == StepTexts(s, size)
           C == Char(size)
<1>1. ScanText(s, size) = FlattenSeq(texts)
  BY DEF ScanText, StepTexts
<1>2. texts \in Seq(Seq(C))
  BY StepTextsType
<1>3. SubSeq(texts, 0 + 1, Len(texts)) = texts
  <2> HIDE DEF texts, C
  <2> QED BY <1>2, SubSeqFull
<1>4. FlattenSeq(texts) = FlatFrom(texts, 0)
  BY <1>3 DEF FlatFrom
<1>5. 0 \in 0 .. Len(s)
  BY LenProperties DEF Measured
<1> QED BY <1>1, <1>4, <1>5, NextStep DEF Pos

\* What follows behind a step: nothing, or the first echo of the next one.
Opens(s, size, k, text) ==
  /\ k < Len(s)
  /\ \E rest \in Seq(Char(size)) :
       text = Encoded(s[k + 1][1], size) \o rest /\ Pos(s, size, k + 1, rest)

LEMMA BehindStep ==
  ASSUME NEW size \in {3, 6}, NEW s, Measured(s), NEW k \in 0 .. Len(s),
         NEW text, text = FlatFrom(StepTexts(s, size), k)
  PROVE  (k = Len(s) /\ text = <<>>) \/ Opens(s, size, k, text)
<1>1. CASE k = Len(s)
  BY <1>1, NextStep
<1>2. CASE k < Len(s)
  <2> DEFINE m == k + 1
             rest == TextFrom(s, size, m, 1)
  <2>1. m \in 1 .. Len(s) /\ m \in DOMAIN s
    BY <1>2, LenProperties DEF Measured
  <2>2. s[m] \in Seq(Echo) /\ s[m] # <<>>
    BY <2>1, ElementOfSeq DEF Measured
  <2>3. 0 \in 0 .. Len(s[m]) /\ 1 \in 1 .. Len(s[m]) /\ 0 < Len(s[m]) /\ 1 \in 0 .. Len(s[m])
    BY <2>2, EmptySeq, LenProperties
  <2>4. text = TextFrom(s, size, m, 0)
    BY <1>2, NextStep
  <2> HIDE DEF m
  <2>5. TextFrom(s, size, m, 0) = EchoText(s[m], 0 + 1, size) \o TextFrom(s, size, m, 0 + 1)
    BY ONLY size \in {3, 6}, Measured(s), <2>1, <2>3, NextEcho
  <2>6. rest \in Seq(Char(size))
    BY <2>1, <2>3, NextEcho
  <2>7. EchoText(s[m], 0 + 1, size) = Encoded(s[m][1], size)
    BY DEF EchoText
  <2>8. text = Encoded(s[m][1], size) \o rest
    BY <2>4, <2>5, <2>7
  <2>9. Pos(s, size, m, rest)
    BY <2>1, <2>3 DEF Pos
  <2> QED BY <1>2, <2>6, <2>8, <2>9 DEF Opens, m
<1>3. k = Len(s) \/ k < Len(s)
  BY LenProperties DEF Measured
<1> QED BY <1>1, <1>2, <1>3

\* What follows at any place: or another echo of the step.
Continues(s, size, k, text) ==
  /\ k \in 1 .. Len(s) /\ Len(s[k]) > 1
  /\ \E e \in Echo, rest \in Seq(Char(size)) :
       text = (<<Ampersand>> \o Encoded(e, size)) \o rest /\ Pos(s, size, k, rest)

LEMMA Follows ==
  ASSUME NEW size \in {3, 6}, NEW s, Measured(s), NEW k, NEW text, Pos(s, size, k, text)
  PROVE  \/ k = Len(s) /\ text = <<>>
         \/ Opens(s, size, k, text)
         \/ Continues(s, size, k, text)
<1>1. CASE k = 0 /\ text = FlatFrom(StepTexts(s, size), 0)
  <2>1. k \in 0 .. Len(s) /\ text = FlatFrom(StepTexts(s, size), k)
    BY <1>1, LenProperties DEF Measured
  <2> QED BY <2>1, BehindStep
<1>2. CASE k \in 1 .. Len(s) /\ \E j \in 1 .. Len(s[k]) : text = TextFrom(s, size, k, j)
  <2>1. k \in DOMAIN s /\ k \in 0 .. Len(s) /\ Len(s) \in Nat
    BY <1>2, LenProperties DEF Measured
  <2>2. s[k] \in Seq(Echo) /\ Len(s[k]) \in Nat /\ DOMAIN s[k] = 1 .. Len(s[k])
    BY <1>2, ElementOfSeq, LenProperties DEF Measured
  <2>3. PICK j \in 1 .. Len(s[k]) : text = TextFrom(s, size, k, j)
    BY <1>2
  <2>4. j \in 0 .. Len(s[k])
    BY <2>2
  <2>5. CASE j = Len(s[k])
    BY <2>1, <2>3, <2>4, <2>5, NextEcho, BehindStep
  <2>6. CASE j < Len(s[k])
    <3> DEFINE i == j + 1
               rest == TextFrom(s, size, k, i)
               e == s[k][i]
    <3>1. i # 1 /\ i \in 1 .. Len(s[k]) /\ i \in 0 .. Len(s[k]) /\ Len(s[k]) > 1
      BY <2>2, <2>6
    <3>2. text = EchoText(s[k], i, size) \o rest
      BY <2>1, <2>3, <2>4, <2>6, NextEcho
    <3> HIDE DEF i
    <3>3. EchoText(s[k], i, size) = <<Ampersand>> \o Encoded(e, size)
      BY <3>1 DEF EchoText
    <3>4. e \in Echo
      BY <2>2, <3>1, ElementOfSeq
    <3>5. rest \in Seq(Char(size))
      BY <2>1, <3>1, NextEcho
    <3>6. Pos(s, size, k, rest)
      BY <1>2, <3>1 DEF Pos
    <3> QED BY <1>2, <3>1, <3>2, <3>3, <3>4, <3>5, <3>6 DEF Continues
  <2>7. j = Len(s[k]) \/ j < Len(s[k])
    BY <2>2
  <2> QED BY <2>5, <2>6, <2>7
<1> QED BY <1>1, <1>2 DEF Pos

\* A sequence cut in two.
LEMMA CutInTwo ==
  ASSUME NEW S, NEW a \in Seq(S), NEW m \in 0 .. Len(a)
  PROVE  /\ SubSeq(a, 1, m) \in Seq(S) /\ SubSeq(a, m + 1, Len(a)) \in Seq(S)
         /\ Len(SubSeq(a, 1, m)) = m /\ \A i \in 1 .. m : SubSeq(a, 1, m)[i] = a[i]
         /\ a = SubSeq(a, 1, m) \o SubSeq(a, m + 1, Len(a))
<1> DEFINE A == Len(a)
<1>1. A \in Nat /\ m \in Int /\ \A i \in 1 .. A : a[i] \in S
  BY LenProperties, ElementOfSeq
<1>2. SubSeq(a, 1, m) \in Seq(S) /\ Len(SubSeq(a, 1, m)) = m
      /\ \A i \in 1 .. m : SubSeq(a, 1, m)[i] = a[i]
  BY <1>1, SubSeqProperties
<1>3. SubSeq(a, m + 1, A) \in Seq(S)
  BY <1>1, SubSeqProperties
<1>4. 1 \in 1 .. A + 1 /\ m \in (1 - 1) .. A /\ A \in m .. A
  BY <1>1
<1>5. SubSeq(a, 1, m) \o SubSeq(a, m + 1, A) = SubSeq(a, 1, A)
  BY <1>4, ConcatAdjacentSubSeq
<1>6. SubSeq(a, 1, A) = a
  BY SubSeqFull
<1> QED BY <1>2, <1>3, <1>5, <1>6

IsCut(text, a, b, S) == a \in Seq(S) /\ b \in Seq(S) /\ text = a \o b

\* Two ways to cut the same text, whose first parts have the same length.
LEMMA SameCut ==
  ASSUME NEW S, NEW text, NEW a, NEW b, NEW c, NEW d,
         IsCut(text, a, b, S), IsCut(text, c, d, S), Len(a) = Len(c)
  PROVE  a = c /\ b = d
<1> USE DEF IsCut
<1>1. Len(a) \in Nat /\ Len(b) \in Nat /\ Len(c) \in Nat /\ Len(d) \in Nat
  BY LenProperties
<1>2. ASSUME NEW i \in 1 .. Len(a)
      PROVE  a[i] = c[i]
  <2>1. (a \o b)[i] = a[i] /\ (c \o d)[i] = c[i]
    <3>1. /\ i \in 1 .. Len(a) + Len(b) /\ i <= Len(a)
          /\ i \in 1 .. Len(c) + Len(d) /\ i <= Len(c)
      BY <1>1
    <3> QED BY <3>1, ConcatProperties
  <2> QED BY <2>1
<1>3. a = c
  BY <1>2, SeqEqual
<1>4. \A u, v, w \in Seq(S) : u \o v = u \o w => v = w
  BY ONLY ConcatSimplifications
<1> QED BY <1>3, <1>4

\* A text whose first part is cut again, behind as much as c has.
LEMMA Splits ==
  ASSUME NEW S, NEW text, NEW front, NEW left, NEW a, NEW b, NEW c, NEW d,
         IsCut(a, front, left, S), IsCut(text, a, b, S), IsCut(text, c, d, S),
         Len(front) = Len(c)
  PROVE  front = c /\ left \o b = d
<1> DEFINE rest == left \o b
<1>1. rest \in Seq(S)
  BY ConcatProperties DEF IsCut
<1>2. text = front \o rest
  <2>1. front \in Seq(S) /\ left \in Seq(S) /\ b \in Seq(S)
    BY DEF IsCut
  <2>2. (front \o left) \o b = front \o (left \o b)
    BY ONLY <2>1, ConcatAssociative, SMT
  <2> QED BY <2>2 DEF IsCut
<1> HIDE DEF rest
<1>3. IsCut(text, front, rest, S)
  BY <1>1, <1>2 DEF IsCut
<1>4. front = c /\ rest = d
  BY <1>3, SameCut
<1> QED BY <1>4 DEF rest

\* All characters of e, at the front of a text.
Shows(text, e, size) == \A i \in 1 .. size : text[i] = [of |-> e, at |-> i]

\* Behind the characters read, a, come those to be read, b.  An '&' stands in
\* front of another echo of the step, anything else is the first of the next.
LEMMA Reads ==
  ASSUME NEW size \in {3, 6}, NEW s, Measured(s), NEW k,
         NEW a \in Seq(Char(size)), NEW b \in Seq(Char(size)), Pos(s, size, k, a \o b),
         Len(a) >= size
  PROVE  \/ /\ a[1] = Ampersand /\ k \in 1 .. Len(s) /\ Len(s[k]) > 1
            /\ Tail(a) \in Seq(Char(size)) /\ Len(Tail(a)) = Len(a) - 1
            /\ Len(Tail(a)) >= size =>
                 /\ \E e \in Echo : Shows(Tail(a), e, size)
                 /\ Pos(s, size, k, SubSeq(Tail(a), size + 1, Len(Tail(a))) \o b)
         \/ /\ a[1] # Ampersand /\ k \in 0 .. Len(s) /\ k < Len(s)
            /\ Shows(a, s[k + 1][1], size) /\ s[k + 1][1] \in Echo
            /\ Pos(s, size, k + 1, SubSeq(a, size + 1, Len(a)) \o b)
<1> DEFINE text == a \o b
           A == Len(a)
           C == Char(size)
<1>1. A \in Nat /\ Len(b) \in Nat /\ size \in Nat /\ size >= 3 /\ a # <<>>
  BY EmptySeq, LenProperties
<1>2. text # <<>>
  <2>1. Len(text) = Len(a) + Len(b)
    BY ConcatProperties
  <2>2. Len(text) # 0
    BY <1>1, <2>1
  <2> HIDE DEF text
  <2> QED BY <2>2
<1>3. CASE Opens(s, size, k, text)
  <2>1. k < Len(s) /\ k \in 0 .. Len(s)
    BY <1>3, LenProperties DEF Opens, Pos, Measured
  <2> DEFINE e == s[k + 1][1]
             enc == Encoded(e, size)
  <2>2. PICK rest \in Seq(C) : text = enc \o rest /\ Pos(s, size, k + 1, rest)
    BY <1>3 DEF Opens
  <2>3. e \in Echo
    <3>1. k + 1 \in DOMAIN s /\ k + 1 \in 1 .. Len(s)
      BY <2>1, LenProperties DEF Measured
    <3>2. s[k + 1] \in Seq(Echo) /\ s[k + 1] # <<>>
      BY <3>1, ElementOfSeq DEF Measured
    <3>3. 1 \in 1 .. Len(s[k + 1])
      BY <3>2, EmptySeq, LenProperties
    <3> QED BY <3>2, <3>3, ElementOfSeq
  <2>4. enc \in Seq(C) /\ Len(enc) = size /\ Shows(enc, e, size)
    BY <2>3, EncodedText DEF Shows
  <2>5. /\ \A i \in 1 .. size : a[i] = enc[i]
        /\ SubSeq(a, size + 1, Len(a)) \o b = rest
    <3> DEFINE front == SubSeq(a, 1, size)
               left == SubSeq(a, size + 1, A)
    <3>1. size \in 0 .. Len(a)
      BY <1>1
    <3>2. front \in Seq(C) /\ left \in Seq(C) /\ Len(front) = size
          /\ (\A i \in 1 .. size : front[i] = a[i]) /\ a = front \o left
      BY <3>1, CutInTwo
    <3>3. IsCut(text, enc, rest, C) /\ IsCut(text, a, b, C) /\ Len(front) = Len(enc)
      BY <2>2, <2>4, <3>2 DEF IsCut
    <3>4. IsCut(a, front, left, C)
      BY <3>2 DEF IsCut
    <3> HIDE DEF text, enc, C, A, front, left
    <3>5. front = enc /\ left \o b = rest
      BY ONLY <3>3, <3>4, Splits
    <3> QED BY <3>2, <3>5 DEF left, A
  <2> HIDE DEF e, enc, C, A
  <2>6. Shows(a, e, size)
    BY <2>4, <2>5 DEF Shows
  <2>7. a[1] # Ampersand
    <3>1. a[1] = [of |-> e, at |-> 1]
      BY <2>6 DEF Shows
    <3>2. a[1].at = 1 /\ Ampersand.at = 0
      BY ONLY <3>1 DEF Ampersand
    <3> QED BY <3>2
  <2> QED BY <2>1, <2>2, <2>3, <2>5, <2>6, <2>7 DEF e
<1>4. CASE Continues(s, size, k, text)
  <2> DEFINE T == Tail(a)
  <2>1. PICK e \in Echo, rest \in Seq(C) :
          text = (<<Ampersand>> \o Encoded(e, size)) \o rest /\ Pos(s, size, k, rest)
    BY <1>4 DEF Continues
  <2> DEFINE enc == Encoded(e, size)
             amp == <<Ampersand>>
             c == amp \o enc
  <2>2. enc \in Seq(C) /\ Len(enc) = size /\ Shows(enc, e, size)
    BY EncodedText DEF Shows
  <2>3. amp \in Seq(C) /\ Len(amp) = 1 /\ amp[1] = Ampersand
    BY DEF Ampersand, Char
  <2>4. T \in Seq(C) /\ Len(T) = A - 1 /\ (\A i \in 1 .. A - 1 : T[i] = a[i + 1])
        /\ T = SubSeq(a, 2, A)
    BY <1>1, HeadTailProperties, TailIsSubSeq
  <2>5. a[1] = Ampersand
    <3> DEFINE er == enc \o rest
    <3> HIDE DEF enc, amp, C
    <3>1. er \in Seq(C)
      BY <2>2, ConcatProperties
    <3>2. c \o rest = amp \o er
      <4> HIDE DEF er
      <4>1. (amp \o enc) \o rest = amp \o (enc \o rest)
        BY ONLY <2>2, <2>3, rest \in Seq(C), ConcatAssociative, SMT
      <4> QED BY ONLY <4>1 DEF er, c
    <3>3. text = amp \o er
      BY <2>1, <3>2 DEF amp, enc
    <3> HIDE DEF er
    <3> DEFINE front == SubSeq(a, 1, 1)
               left == SubSeq(a, 1 + 1, Len(a))
    <3>4. 1 \in 0 .. Len(a) /\ a \in Seq(C)
      BY <1>1 DEF C
    <3>5. front \in Seq(C) /\ left \in Seq(C) /\ Len(front) = 1
          /\ (\A i \in 1 .. 1 : front[i] = a[i]) /\ a = front \o left
      BY <3>4, CutInTwo
    <3>6. IsCut(text, amp, er, C) /\ IsCut(text, a, b, C) /\ Len(front) = Len(amp)
      BY <2>3, <3>1, <3>3, <3>5 DEF IsCut, C
    <3>7. IsCut(a, front, left, C)
      BY <3>5 DEF IsCut
    <3> HIDE DEF text, front, left
    <3>8. front = amp
      BY ONLY <3>6, <3>7, Splits
    <3> QED BY <2>3, <3>5, <3>8
  <2>6. ASSUME Len(T) >= size
        PROVE  Shows(T, e, size) /\ SubSeq(T, size + 1, Len(T)) \o b = rest
    <3> HIDE DEF enc, amp, C, A, T
    <3>1. c \in Seq(C) /\ Len(c) = size + 1 /\ \A i \in 1 .. size : c[i + 1] = enc[i]
      <4>1. c \in Seq(C) /\ Len(c) = 1 + size
        <5>1. c \in Seq(C) /\ Len(c) = Len(amp) + Len(enc)
          BY ONLY <2>2, <2>3, ConcatProperties DEF c
        <5> QED BY <2>2, <2>3, <5>1
      <4>2. ASSUME NEW i \in 1 .. size
            PROVE  c[i + 1] = enc[i]
        <5>1. i + 1 \in 1 .. Len(amp) + Len(enc) /\ ~(i + 1 <= Len(amp)) /\ (i + 1) - Len(amp) = i
          BY <1>1, <2>2, <2>3
        <5>2. c[i + 1] = IF i + 1 <= Len(amp) THEN amp[i + 1] ELSE enc[(i + 1) - Len(amp)]
          BY ONLY <2>2, <2>3, <5>1, ConcatProperties DEF c
        <5> QED BY <5>1, <5>2
      <4> QED BY <1>1, <4>1, <4>2
    <3>2. size + 1 <= A
      BY <1>1, <2>4, <2>6
    <3>3. text = c \o rest
      BY <2>1 DEF enc, amp
    <3> HIDE DEF c
    <3>4. /\ \A i \in 1 .. size + 1 : a[i] = c[i]
          /\ SubSeq(a, (size + 1) + 1, A) \o b = rest
      <4> DEFINE m == size + 1
                 front == SubSeq(a, 1, m)
                 left == SubSeq(a, m + 1, Len(a))
      <4>1. a \in Seq(C) /\ m \in 0 .. Len(a)
        BY <1>1, <3>2 DEF C, A
      <4> HIDE DEF m
      <4>2. front \in Seq(C) /\ left \in Seq(C) /\ Len(front) = m
            /\ (\A i \in 1 .. m : front[i] = a[i]) /\ a = front \o left
        BY <4>1, CutInTwo
      <4>3. IsCut(text, c, rest, C) /\ IsCut(text, a, b, C) /\ Len(front) = Len(c)
        BY <3>1, <3>3, <4>2 DEF C, m, IsCut
      <4>4. IsCut(a, front, left, C)
        BY <4>2 DEF IsCut
      <4> HIDE DEF text, front, left
      <4>5. front = c /\ left \o b = rest
        BY ONLY <4>3, <4>4, Splits
      <4> QED BY <4>2, <4>5 DEF A, m, left
    <3>5. Shows(T, e, size)
      <4>1. ASSUME NEW i \in 1 .. size
            PROVE  T[i] = enc[i]
        <5>1. i \in 1 .. A - 1 /\ i + 1 \in 1 .. size + 1
          BY <1>1, <3>2
        <5> QED BY <2>4, <3>1, <3>4, <5>1
      <4> QED BY <2>2, <4>1 DEF Shows
    <3>6. SubSeq(T, size + 1, Len(T)) = SubSeq(a, (size + 1) + 1, A)
      <4>1. CASE size + 1 = A
        <5>1. Len(T) < size + 1 /\ A < (size + 1) + 1
          BY <1>1, <2>4, <4>1
        <5>2. SubSeq(T, size + 1, Len(T)) = <<>> /\ SubSeq(a, (size + 1) + 1, A) = <<>>
          BY <1>1, <2>4, <5>1, SubSeqEmpty
        <5> QED BY <5>2
      <4>2. CASE size + 1 < A
        <5>1. /\ 2 \in 1 .. Len(a) /\ A \in 1 .. Len(a)
              /\ size + 1 \in 1 .. A - 2 + 1 /\ A - 1 \in 1 .. A - 2 + 1
          BY <1>1, <4>2 DEF A
        <5>2. SubSeq(SubSeq(a, 2, A), size + 1, A - 1)
                = SubSeq(a, 2 + (size + 1) - 1, 2 + (A - 1) - 1)
          BY <5>1, SubSeqOfSubSeq
        <5>3. 2 + (size + 1) - 1 = (size + 1) + 1 /\ 2 + (A - 1) - 1 = A
          BY <1>1
        <5> QED BY <2>4, <5>2, <5>3
      <4> QED BY <1>1, <3>2, <4>1, <4>2
    <3> QED BY <3>4, <3>5, <3>6
  <2>7. k \in 1 .. Len(s) /\ Len(s[k]) > 1
    BY <1>4 DEF Continues
  <2> HIDE DEF T, enc, amp, A
  <2> QED BY <2>1, <2>4, <2>5, <2>6, <2>7 DEF T, A
<1> HIDE DEF text
<1> QED BY <1>2, <1>3, <1>4, Follows DEF text

-----------------------------------------------------------------------------
\* What is read and what is still to come make up the text of the scan.
Reading ==
  /\ scan \in Seq(Seq(Echo)) /\ Measured(scan)
  /\ ~is_multiecho => \A k \in DOMAIN scan : Len(scan[k]) = 1
  /\ sent \in Seq(Char(data_size)) /\ buffer \in Seq(Char(data_size))
  /\ step_filled <= Len(scan)
  /\ pc # "done" => Pos(scan, data_size, step_filled, buffer \o sent)
  /\ pc = "data" /\ n = 0 => sent = <<>>
  /\ pc = "done" => n # 0 \/ ~(ret >= 0) \/ (step_filled = Len(scan) /\ buffer = <<>>)

\* Jump, Jumps and Place, for any scan s.
JumpOf(s, k) == k > 1 /\ s[k][1].rho - s[k - 1][1].rho >= DMAX
JumpsOf(s, k) == Cardinality({j \in 1 .. k : JumpOf(s, j)})
PlaceOf(s, k) == k - 1 + JumpsOf(s, k - 1)

\* The arrays hold the first k steps of s.
Holds(s, k, withIntensity, len, angle, int) ==
  /\ DOMAIN len = 0 .. k + JumpsOf(s, k) - 1
  /\ DOMAIN angle = DOMAIN len
  /\ DOMAIN int = IF withIntensity THEN {PlaceOf(s, i) : i \in 1 .. k} ELSE {}
  /\ \A i \in 1 .. k :
       /\ len[PlaceOf(s, i)] = s[i][1].rho /\ angle[PlaceOf(s, i)] = i - 1
       /\ withIntensity => int[PlaceOf(s, i)] = s[i][1].label
       /\ JumpOf(s, i) => len[PlaceOf(s, i) + 1] = 0 /\ angle[PlaceOf(s, i) + 1] = NoAngle

\* What is stored is the scan, as far as it was read.
Stored ==
  /\ Returned => ret = step_filled + break_point
  /\ ~wanted => length = <<>> /\ theta = <<>> /\ intensity = <<>>
  /\ wanted /\ ~is_multiecho =>
       /\ break_point = JumpsOf(scan, step_filled)
       /\ last_rho = IF step_filled = 0 THEN -1 ELSE scan[step_filled][1].rho
       /\ Holds(scan, step_filled, is_intensity, length, theta, intensity)

DecodeInv == TypeOK /\ Reading /\ Stored

LEMMA SizeIs == data_size \in {3, 6}
  BY DEF data_size

-----------------------------------------------------------------------------
(***************************************************************************)
(* The break points and the entries of the steps.                          *)
(***************************************************************************)
One(p) == IF p THEN 1 ELSE 0

LEMMA JumpsNext ==
  ASSUME NEW s, NEW k \in Nat
  PROVE  /\ JumpsOf(s, k) \in Nat /\ JumpsOf(s, k) <= k
         /\ JumpsOf(s, k + 1) = JumpsOf(s, k) + One(JumpOf(s, k + 1))
         /\ k = 0 => JumpsOf(s, k) = 0
<1> DEFINE J(m) == {j \in 1 .. m : JumpOf(s, j)}
<1>1. ASSUME NEW m \in Nat
      PROVE  IsFiniteSet(J(m)) /\ Cardinality(J(m)) \in Nat /\ Cardinality(J(m)) <= m
  <2>1. IsFiniteSet(1 .. m) /\ Cardinality(1 .. m) = m
    BY FS_Interval
  <2>2. J(m) \subseteq 1 .. m
    OBVIOUS
  <2> HIDE DEF J
  <2> QED BY <2>1, <2>2, FS_Subset, FS_CardinalityType
<1>2. J(k + 1) = IF JumpOf(s, k + 1) THEN J(k) \cup {k + 1} ELSE J(k)
  <2>1. CASE JumpOf(s, k + 1)
    <3>1. ASSUME NEW j
          PROVE  j \in 1 .. k + 1 <=> (j \in 1 .. k \/ j = k + 1)
      OBVIOUS
    <3> QED BY <2>1, <3>1
  <2>2. CASE ~JumpOf(s, k + 1)
    <3>1. ASSUME NEW j
          PROVE  j \in 1 .. k + 1 <=> (j \in 1 .. k \/ j = k + 1)
      OBVIOUS
    <3> QED BY <2>2, <3>1
  <2> QED BY <2>1, <2>2
<1>3. k + 1 \notin J(k)
  OBVIOUS
<1>4. \A m : JumpsOf(s, m) = Cardinality(J(m))
  BY DEF JumpsOf
<1> HIDE DEF J
<1>5. Cardinality(J(k + 1)) = Cardinality(J(k)) + One(JumpOf(s, k + 1))
  <2>1. CASE JumpOf(s, k + 1)
    <3>1. Cardinality(J(k) \cup {k + 1}) = Cardinality(J(k)) + 1
      BY <1>1, <1>3, FS_AddElement
    <3> QED BY <1>2, <2>1, <3>1 DEF One
  <2>2. CASE ~JumpOf(s, k + 1)
    BY <1>1, <1>2, <2>2 DEF One
  <2> QED BY <2>1, <2>2
<1> QED BY <1>1, <1>4, <1>5

LEMMA JumpsGrow ==
  ASSUME NEW s, NEW i \in Nat, NEW k \in Nat, i <= k
  PROVE  JumpsOf(s, i) <= JumpsOf(s, k)
<1> DEFINE A == {j \in 1 .. i : JumpOf(s, j)}
           B == {j \in 1 .. k : JumpOf(s, j)}
<1>1. IsFiniteSet(1 .. k)
  BY FS_Interval
<1>2. A \subseteq B /\ B \subseteq 1 .. k
  OBVIOUS
<1>3. JumpsOf(s, i) = Cardinality(A) /\ JumpsOf(s, k) = Cardinality(B)
  BY DEF JumpsOf
<1> HIDE DEF A, B
<1> QED BY <1>1, <1>2, <1>3, FS_Subset

\* Every step has an entry behind those of the steps before.
LEMMA PlacesGrow ==
  ASSUME NEW s, NEW k \in Nat, NEW i \in 1 .. k
  PROVE  /\ PlaceOf(s, i) \in Nat /\ PlaceOf(s, k + 1) = k + JumpsOf(s, k)
         /\ PlaceOf(s, i) + One(JumpOf(s, i)) < PlaceOf(s, k + 1)
<1>1. i - 1 \in Nat /\ (i - 1) + 1 = i /\ i \in Nat /\ i <= k /\ (k + 1) - 1 = k
  OBVIOUS
<1>2. /\ JumpsOf(s, i) = JumpsOf(s, i - 1) + One(JumpOf(s, i))
      /\ JumpsOf(s, i - 1) \in Nat /\ JumpsOf(s, i) \in Nat
  BY <1>1, JumpsNext
<1>3. JumpsOf(s, i) <= JumpsOf(s, k) /\ JumpsOf(s, k) \in Nat
  BY <1>1, JumpsNext, JumpsGrow
<1>4. One(JumpOf(s, i)) \in Nat
  BY DEF One
<1>5. PlaceOf(s, i) = (i - 1) + JumpsOf(s, i - 1) /\ PlaceOf(s, k + 1) = k + JumpsOf(s, k)
  BY <1>1 DEF PlaceOf
<1> QED BY <1>1, <1>2, <1>3, <1>4, <1>5

-----------------------------------------------------------------------------
LEMMA InitMeasured ==
  ASSUME Init
  PROVE  Measured(scan) /\ (~is_multiecho => \A k \in DOMAIN scan : Len(scan[k]) = 1)
<1> DEFINE M == IF is_multiecho THEN MaxEchoes ELSE 1
           Rhos == UNION {[1 .. j -> Rho] : j \in 1 .. M}
<1>0. PICK steps \in 0 .. MaxSteps :
        scan \in {[k \in 1 .. steps |-> StepOf(k, rhos[k])] : rhos \in [1 .. steps -> Rhos]}
  BY DEF Init
<1>1. PICK rhos \in [1 .. steps -> Rhos] : scan = [k \in 1 .. steps |-> StepOf(k, rhos[k])]
  BY <1>0
<1>2. steps \in Nat /\ M \in Nat /\ M <= MaxEchoes /\ (~is_multiecho => M = 1)
  BY DecodeAssumption DEF DecodeAssumption
<1>3. ASSUME NEW k \in 1 .. steps
      PROVE  /\ scan[k] \in Seq(Echo) /\ scan[k] # <<>>
             /\ ~is_multiecho => Len(scan[k]) = 1
  <2>1. PICK j \in 1 .. M : rhos[k] \in [1 .. j -> Rho]
    <3>1. rhos[k] \in Rhos
      <4> HIDE DEF Rhos
      <4> QED BY <1>1
    <3> HIDE DEF M
    <3> QED BY <3>1
  <2>2. scan[k] = StepOf(k, rhos[k])
    BY <1>1
  <2>3. StepOf(k, rhos[k]) \in [1 .. j -> Echo]
    <3>1. \A i \in 1 .. j : [rho |-> rhos[k][i], label |-> <<k, i>>] \in Echo
      <4>1. \A i \in 1 .. j : k \in 1 .. MaxSteps /\ i \in 1 .. MaxEchoes
        BY <1>2, DecodeAssumption DEF DecodeAssumption
      <4> QED BY <2>1, <4>1 DEF Echo
    <3> QED BY <2>1, <3>1 DEF StepOf
  <2>4. scan[k] \in Seq(Echo) /\ Len(scan[k]) = j
    <3>1. j \in Nat
      BY <1>2
    <3>2. scan[k] \in [1 .. j -> Echo]
      BY <2>2, <2>3
    <3> QED BY <3>1, <3>2, SeqDef
  <2>5. Len(scan[k]) # 0
    BY <1>2, <2>4
  <2>6. scan[k] # <<>>
    BY <2>4, <2>5, EmptySeq
  <2> QED BY <1>2, <2>4, <2>6
<1>4. scan \in Seq(Seq(Echo)) /\ DOMAIN scan = 1 .. steps
  <2>1. DOMAIN scan = 1 .. steps
    BY <1>1
  <2>2. scan \in [1 .. steps -> Seq(Echo)]
    BY <1>1, <1>3
  <2> QED BY <1>2, <2>1, <2>2, SeqDef
<1> QED BY <1>3, <1>4 DEF Measured

LEMMA CharsType ==
  ASSUME NEW size, NEW text \in Seq(Char(size))
  PROVE  \A i \in DOMAIN text : text[i] \in Char(size) /\ text[i].at \in 0 .. size
<1>1. \A i \in DOMAIN text : text[i] \in Char(size)
  BY LenProperties, ElementOfSeq
<1> QED BY <1>1 DEF Char

LEMMA Initially == Init => DecodeInv
<1> SUFFICES ASSUME Init
             PROVE  DecodeInv
  OBVIOUS
<1> USE DEF Init
<1>1. Measured(scan) /\ (~is_multiecho => \A k \in DOMAIN scan : Len(scan[k]) = 1)
  BY InitMeasured
<1>2. sent \in Seq(Char(data_size)) /\ Pos(scan, data_size, 0, sent)
  BY <1>1, SizeIs, ScanTextIs
<1>3. buffer \in Seq(Char(data_size)) /\ buffer \o sent = sent
  BY <1>2, ConcatEmptySeq
<1>4. TypeOK
  <2>1. \A i \in DOMAIN sent : sent[i].at \in 0 .. data_size
    BY <1>2, CharsType
  <2>2. \A i \in DOMAIN buffer : buffer[i].at \in 0 .. data_size
    OBVIOUS
  <2>3. type \in AllTypes /\ 0 \in 0 .. Window
    BY DecodeAssumption DEF DecodeAssumption
  <2> QED BY <1>1, <2>1, <2>2, <2>3 DEF TypeOK, Measured
<1>5. Reading
  <2>1. 0 <= Len(scan)
    BY <1>1, LenProperties DEF Measured
  <2> QED BY <1>1, <1>2, <1>3, <2>1 DEF Reading, Measured
<1>6. Stored
  <2>1. JumpsOf(scan, 0) = 0
    BY JumpsNext
  <2>2. Holds(scan, 0, is_intensity, <<>>, <<>>, <<>>)
    BY <2>1 DEF Holds
  <2> QED BY <2>1, <2>2 DEF Stored, Returned
<1> QED BY <1>4, <1>5, <1>6 DEF DecodeInv

-----------------------------------------------------------------------------
\* The characters of an echo decode to it.
LEMMA DecodesEcho ==
  ASSUME NEW size \in {3, 6}, NEW e, NEW text, Len(text) \in Nat, Len(text) >= size,
         Shows(text, e, size)
  PROVE  urg_scip_decode(text, 0) = e /\ (size = 6 => urg_scip_decode(text, 3) = e)
<1>1. ASSUME NEW o \in {0, 3}, o + 3 <= size
      PROVE  urg_scip_decode(text, o) = e
  <2>1. ASSUME NEW i \in 1 .. 3
        PROVE  text[o + i] = [of |-> e, at |-> o + i]
    <3>1. o + i \in 1 .. size
      BY <1>1
    <3> QED BY <3>1 DEF Shows
  <2>2. text[o + 1].of = e
    BY <2>1
  <2>3. Len(text) >= o + 3
    BY <1>1
  <2> QED BY <2>1, <2>2, <2>3 DEF urg_scip_decode
<1> QED BY <1>1

\* What Decode and Refused find in front of them.
LEMMA DecodeReads ==
  ASSUME TypeOK, Reading, pc = "data", Decodable
  PROVE  /\ Step \in Nat /\ Step + 1 <= Len(scan) /\ Step <= step_filled
         /\ NextData \in Seq(Char(data_size)) /\ Len(NextData) >= data_size
         /\ \E e \in Echo :
              /\ Shows(NextData, e, data_size)
              /\ ~is_multiecho => ~MoreEchoes /\ e = scan[step_filled + 1][1]
         /\ Pos(scan, data_size, Step + 1,
                SubSeq(NextData, data_size + 1, Len(NextData)) \o sent)
<1> DEFINE k == step_filled
           size == data_size
           rest == SubSeq(NextData, size + 1, Len(NextData))
<1>1. size \in {3, 6} /\ Measured(scan) /\ Pos(scan, size, k, buffer \o sent)
      /\ Len(buffer) >= size /\ sent \in Seq(Char(size)) /\ buffer \in Seq(Char(size))
  BY SizeIs DEF Reading, Decodable
<1>2. k \in Nat /\ k <= Len(scan) /\ Len(scan) \in Nat
  BY <1>1, LenProperties DEF TypeOK, Reading, Measured
<1>3. CASE MoreEchoes
  <2>1. NextData = Tail(buffer) /\ Step = k - 1 /\ Len(Tail(buffer)) >= size
    <3>1. Len(Tail(buffer)) \in Nat
      BY <1>1, EmptySeq, HeadTailProperties, LenProperties
    <3> QED BY <1>1, <1>3, <3>1 DEF NextData, Step, Decodable, Incomplete
  <2> HIDE DEF size, k
  <2>2. /\ k \in 1 .. Len(scan) /\ Len(scan[k]) > 1
        /\ Tail(buffer) \in Seq(Char(size))
        /\ \E e \in Echo : Shows(Tail(buffer), e, size)
        /\ Pos(scan, size, k, SubSeq(Tail(buffer), size + 1, Len(Tail(buffer))) \o sent)
    BY <1>1, <1>3, <2>1, Reads DEF MoreEchoes
  <2>3. is_multiecho
    <3>1. k \in DOMAIN scan
      BY <1>1, <2>2, LenProperties DEF Measured
    <3>2. ~is_multiecho => \A i \in DOMAIN scan : Len(scan[i]) = 1
      BY DEF Reading
    <3>3. ASSUME ~is_multiecho
          PROVE  FALSE
      <4>1. Len(scan[k]) = 1
        BY <3>1, <3>2, <3>3
      <4>2. Len(scan[k]) > 1
        BY <2>2
      <4> QED BY ONLY <4>1, <4>2
    <3> QED BY <3>3
  <2>4. Step \in Nat /\ Step + 1 = k
    BY <1>2, <2>1, <2>2
  <2> QED BY <1>2, <2>1, <2>2, <2>3, <2>4 DEF size, k
<1>4. CASE ~MoreEchoes
  <2>1. NextData = buffer /\ Step = k
    BY <1>4 DEF NextData, Step
  <2> HIDE DEF size, k
  <2>2. /\ k < Len(scan) /\ Shows(buffer, scan[k + 1][1], size) /\ scan[k + 1][1] \in Echo
        /\ Pos(scan, size, k + 1, SubSeq(buffer, size + 1, Len(buffer)) \o sent)
    BY <1>1, <1>4, Reads DEF MoreEchoes
  <2> QED BY <1>1, <1>2, <1>4, <2>1, <2>2 DEF size, k
<1> QED BY <1>3, <1>4

\* Behind the last line everything is decoded.
LEMMA DecodesAll ==
  ASSUME Reading, pc = "data", n = 0, ~Decodable
  PROVE  step_filled = Len(scan) /\ buffer = <<>>
<1> DEFINE k == step_filled
           size == data_size
           C == Char(size)
<1>1. size \in {3, 6} /\ Measured(scan) /\ buffer \in Seq(C) /\ sent = <<>>
      /\ Pos(scan, size, k, buffer \o sent)
  BY SizeIs DEF Reading
<1>2. Pos(scan, size, k, buffer)
  BY <1>1, ConcatEmptySeq
<1>3. ~Opens(scan, size, k, buffer)
  <2> SUFFICES ASSUME Opens(scan, size, k, buffer)
               PROVE  Decodable
    BY DEF Decodable
  <2> DEFINE enc == Encoded(scan[k + 1][1], size)
  <2>1. PICK rest \in Seq(C) : buffer = enc \o rest
    BY DEF Opens
  <2>2. enc \in [1 .. size -> {[of |-> scan[k + 1][1], at |-> i] : i \in 1 .. size}]
    BY DEF Encoded
  <2>3. enc \in Seq({[of |-> scan[k + 1][1], at |-> i] : i \in 1 .. size}) /\ Len(enc) = size
    <3> DEFINE G == {[of |-> scan[k + 1][1], at |-> i] : i \in 1 .. size}
    <3>1. enc \in [1 .. size -> G] /\ size \in Nat
      BY <1>1, <2>2
    <3> HIDE DEF enc, G, size
    <3>2. enc \in Seq(G) /\ Len(enc) = size
      BY <3>1, SeqDef
    <3> QED BY <3>2 DEF G
  <2>4. enc[1] = [of |-> scan[k + 1][1], at |-> 1]
    BY <1>1 DEF Encoded
  <2> DEFINE D == C \cup {[of |-> scan[k + 1][1], at |-> i] : i \in 1 .. size}
  <2>5. enc \in Seq(D) /\ rest \in Seq(D)
    BY <2>1, <2>3, SeqDef
  <2> HIDE DEF enc, C, D, size
  <2>6. Len(buffer) = size + Len(rest) /\ buffer[1] = enc[1] /\ Len(rest) \in Nat
    BY <1>1, <2>1, <2>3, <2>5, ConcatProperties, LenProperties
  <2>7. ~MoreEchoes
    <3>1. buffer[1].at = 1
      BY <2>4, <2>6
    <3> QED BY <3>1 DEF MoreEchoes, Ampersand
  <2> QED BY <1>1, <2>6, <2>7 DEF Decodable, Incomplete, size
<1>4. ~Continues(scan, size, k, buffer)
  <2> SUFFICES ASSUME Continues(scan, size, k, buffer)
               PROVE  Decodable
    BY DEF Decodable
  <2>1. PICK e \in Echo, rest \in Seq(C) : buffer = (<<Ampersand>> \o Encoded(e, size)) \o rest
    BY DEF Continues
  <2> DEFINE c == <<Ampersand>> \o Encoded(e, size)
  <2>2. c \in Seq(C) /\ Len(c) = size + 1
    <3>1. Encoded(e, size) \in Seq(C) /\ Len(Encoded(e, size)) = size
      BY <1>1, EncodedText
    <3>2. <<Ampersand>> \in Seq(C) /\ Len(<<Ampersand>>) = 1
      <4>1. Ampersand \in C
        BY <1>1 DEF Ampersand, Char
      <4> HIDE DEF C
      <4> QED BY <4>1
    <3> HIDE DEF C
    <3>3. c \in Seq(C) /\ Len(c) = Len(<<Ampersand>>) + Len(Encoded(e, size))
      BY ONLY <3>1, <3>2, ConcatProperties DEF c
    <3> QED BY <1>1, <3>1, <3>2, <3>3
  <2> HIDE DEF c, C, size
  <2>3. Len(buffer) = size + 1 + Len(rest) /\ Len(rest) \in Nat
    BY <1>1, <2>1, <2>2, ConcatProperties, LenProperties DEF c
  <2>4. Len(Tail(buffer)) >= size
    <3>1. buffer # <<>>
      BY <1>1, <2>3, EmptySeq
    <3>2. Len(Tail(buffer)) = Len(buffer) - 1
      BY <1>1, <3>1, HeadTailProperties
    <3> QED BY <1>1, <2>3, <3>2
  <2>5. Len(buffer) >= size /\ ~(Len(Tail(buffer)) < size)
    <3>1. Len(Tail(buffer)) \in Nat
      BY <1>1, <2>3, EmptySeq, HeadTailProperties, LenProperties
    <3> QED BY <1>1, <2>3, <2>4, <3>1
  <2> QED BY <2>5 DEF Decodable, Incomplete, NextData, size
<1> HIDE DEF size, k
<1> QED BY <1>1, <1>2, <1>3, <1>4, Follows DEF k

-----------------------------------------------------------------------------
LEMMA ReadingStep ==
  ASSUME TypeOK, Reading, [Next]_vars
  PROVE  Reading'
<1> DEFINE size == data_size
           C == Char(size)
<1>1. /\ size \in {3, 6} /\ sent \in Seq(C) /\ buffer \in Seq(C)
      /\ Measured(scan) /\ step_filled <= Len(scan)
  BY SizeIs DEF Reading
<1>2. type' = type /\ scan' = scan
  BY DEF Next, vars, ReadLine, ReadEnd, Refused, Decode, LineDecoded
<1>3. data_size' = size /\ is_multiecho' = is_multiecho
  BY <1>2 DEF data_size, is_intensity, is_multiecho
<1>4. ~is_multiecho' => \A k \in DOMAIN scan' : Len(scan'[k]) = 1
  BY <1>2, <1>3 DEF Reading
<1> HIDE DEF C, size
<1> SUFFICES /\ sent' \in Seq(C) /\ buffer' \in Seq(C)
             /\ step_filled' <= Len(scan)
             /\ pc' # "done" => Pos(scan, size, step_filled', buffer' \o sent')
             /\ pc' = "data" /\ n' = 0 => sent' = <<>>
             /\ pc' = "done" => n' # 0 \/ ~(ret' >= 0)
                                \/ (step_filled' = Len(scan) /\ buffer' = <<>>)
  BY <1>1, <1>2, <1>3, <1>4 DEF Reading, Measured, C
<1>5. CASE ReadLine
  <2>1. PICK m \in 1 .. MaxLine, intact \in BOOLEAN :
          /\ m <= Len(sent)
          /\ n' = 1
          /\ sent' = SubSeq(sent, m + 1, Len(sent))
          /\ IF intact
             THEN buffer' = buffer \o SubSeq(sent, 1, m) /\ pc' = "data" /\ UNCHANGED ret
             ELSE Returns(CHECKSUM_ERROR) /\ UNCHANGED buffer
    BY <1>5 DEF ReadLine
  <2>2. m \in 1 .. Len(sent)
    BY <1>1, <2>1, LenProperties, DecodeAssumption DEF DecodeAssumption
  <2> DEFINE x == SubSeq(sent, 1, m)
             y == SubSeq(sent, m + 1, Len(sent))
  <2>3. buffer \o x \in Seq(C) /\ y \in Seq(C) /\ (buffer \o x) \o y = buffer \o sent
    <3>1. m \in 0 .. Len(sent)
      BY <2>2
    <3>2. IsCut(sent, x, y, C)
      BY <1>1, <3>1, CutInTwo DEF IsCut
    <3>3. buffer \in Seq(C)
      BY <1>1
    <3> HIDE DEF x, y
    <3>4. x \in Seq(C) /\ y \in Seq(C) /\ sent = x \o y
      BY ONLY <3>2 DEF IsCut
    <3>5. buffer \o x \in Seq(C)
      BY ONLY <3>3, <3>4, ConcatProperties
    <3>6. (buffer \o x) \o y = buffer \o (x \o y)
      BY ONLY <3>3, <3>4, ConcatAssociative, SMT
    <3> QED BY ONLY <3>4, <3>5, <3>6
  <2>4. step_filled' = step_filled /\ Pos(scan, size, step_filled, buffer \o sent)
    BY <1>5 DEF ReadLine, countVars, Reading, size
  <2>5. CASE intact
    <3>1. buffer' = buffer \o x /\ sent' = y /\ pc' = "data" /\ n' = 1
      BY <2>1, <2>5
    <3> HIDE DEF x, y
    <3>2. buffer' \in Seq(C) /\ sent' \in Seq(C) /\ buffer' \o sent' = buffer \o sent
      BY <2>3, <3>1
    <3>3. Pos(scan, size, step_filled', buffer' \o sent')
      BY <2>4, <3>2
    <3> QED BY <1>1, <2>4, <3>1, <3>2, <3>3
  <2>6. CASE ~intact
    BY <1>1, <2>1, <2>3, <2>4, <2>6 DEF Returns, CHECKSUM_ERROR
  <2> QED BY <2>5, <2>6
<1>6. CASE ReadEnd
  BY <1>1, <1>6 DEF ReadEnd, countVars, Reading, size
<1>7. CASE Refused
  BY <1>1, <1>7 DEF Refused, Returns, RECEIVE_ERROR, countVars
<1>8. CASE Decode
  <2> DEFINE rest == SubSeq(NextData, size + 1, Len(NextData))
  <2>1. pc = "data" /\ Decodable
    BY <1>8 DEF Decode
  <2>2. /\ Step \in Nat /\ Step + 1 <= Len(scan)
        /\ NextData \in Seq(C) /\ Pos(scan, size, Step + 1, rest \o sent)
    BY <2>1, DecodeReads DEF C, size
  <2>3. rest \in Seq(C)
    <3>1. Len(NextData) \in Nat /\ \A i \in 1 .. Len(NextData) : NextData[i] \in C
      BY <2>2, LenProperties, ElementOfSeq
    <3>2. \A i \in size + 1 .. Len(NextData) : NextData[i] \in C
      BY <1>1, <3>1
    <3> QED BY <1>1, <3>1, <3>2, SubSeqProperties
  <2>4. /\ step_filled' = Step + 1 /\ buffer' = rest /\ sent' = sent /\ pc' = pc /\ n' = n
    BY <1>8 DEF Decode, size
  <2> HIDE DEF rest
  <2> QED BY <1>1, <2>1, <2>2, <2>3, <2>4 DEF Reading
<1>9. CASE LineDecoded
  <2>1. /\ pc = "data" /\ ~Decodable /\ buffer' = buffer /\ sent' = sent /\ n' = n
        /\ step_filled' = step_filled
        /\ IF n > 0 THEN pc' = "line" /\ UNCHANGED ret ELSE Returns(step_filled + break_point)
    BY <1>9 DEF LineDecoded, Kept, countVars
  <2>2. n = 0 => step_filled = Len(scan) /\ buffer = <<>>
    BY <2>1, DecodesAll
  <2>3. Pos(scan, size, step_filled, buffer \o sent)
    BY <2>1 DEF Reading, size
  <2>4. CASE n > 0
    BY <1>1, <2>1, <2>3, <2>4
  <2>5. CASE ~(n > 0)
    BY <1>1, <2>1, <2>2, <2>5 DEF Returns
  <2> QED BY <2>4, <2>5
<1>10. CASE UNCHANGED vars
  BY <1>1, <1>10 DEF vars, countVars, Reading, size
<1> QED BY <1>5, <1>6, <1>7, <1>8, <1>9, <1>10 DEF Next

LEMMA TypeStep ==
  ASSUME TypeOK, Reading, [Next]_vars
  PROVE  TypeOK'
<1>1. type' = type /\ wanted' = wanted /\ scan' = scan /\ data_size' = data_size
  BY DEF Next, vars, ReadLine, ReadEnd, Refused, Decode, LineDecoded, data_size, is_intensity
<1>2. Reading'
  BY ReadingStep
<1>3. \A text \in {sent', buffer'} : \A i \in DOMAIN text : text[i].at \in 0 .. data_size
  <2>1. sent' \in Seq(Char(data_size)) /\ buffer' \in Seq(Char(data_size))
    BY <1>1, <1>2 DEF Reading
  <2> QED BY <2>1, CharsType
<1>4. /\ n' \in -1 .. 1
      /\ pc' \in {"line", "data", "done"}
  BY DEF Next, vars, ReadLine, ReadEnd, Refused, Decode, LineDecoded, Returns, TypeOK
<1>5. /\ step_filled' \in 0 .. Window /\ break_point' \in Nat
      /\ last_rho' \in Rho \cup {-1}
      /\ \A i \in DOMAIN length' : i \in Nat /\ length'[i] \in Rho \cup {0}
      /\ DOMAIN theta' \subseteq DOMAIN length' /\ DOMAIN intensity' \subseteq DOMAIN length'
  <2>1. CASE Decode
    <3>1. pc = "data" /\ Decodable
      BY <2>1 DEF Decode
    <3>2. PICK e \in Echo : Shows(NextData, e, data_size)
      BY <3>1, DecodeReads
    <3>3. Step \in Nat /\ Step <= step_filled /\ Len(NextData) \in Nat /\ Len(NextData) >= data_size
      BY <3>1, DecodeReads, LenProperties
    <3>4. step_filled' \in 0 .. Window
      BY <2>1, <3>3, DecodeAssumption DEF Decode, TooManySteps, DecodeAssumption
    <3>5. CASE ~wanted
      BY <2>1, <3>4, <3>5 DEF Decode, storedVars, TypeOK
    <3>6. CASE wanted
      <4> DEFINE stored == Store(Prepared(length), index, urg_scip_decode(NextData, 0).rho)
      <4>1. urg_scip_decode(NextData, 0).rho \in Rho
        <5>1. urg_scip_decode(NextData, 0) = e
          BY <3>2, <3>3, SizeIs, DecodesEcho
        <5> QED BY <5>1 DEF Echo
      <4>2. StoreLength /\ StoreIntensity
        BY <2>1, <3>6 DEF Decode
      <4>3. index \in Nat
        BY <3>3 DEF index, TypeOK
      <4>4. /\ \A i \in DOMAIN Prepared(length) : i \in Nat /\ Prepared(length)[i] \in Rho \cup {0}
            /\ DOMAIN length \subseteq DOMAIN Prepared(length)
            /\ DOMAIN Prepared(intensity) \subseteq DOMAIN Prepared(length)
        <5>1. multiecho_max_size \in {1, 3}
          BY DEF multiecho_max_size, URG_MAX_ECHO
        <5> QED BY <4>3, <5>1 DEF TypeOK, Prepared, Cleared
      <4>5. /\ \A i \in DOMAIN stored : i \in Nat /\ stored[i] \in Rho \cup {0}
            /\ DOMAIN stored = DOMAIN Prepared(length) \cup {index}
        BY <4>1, <4>3, <4>4 DEF Store
      <4> HIDE DEF stored
      <4>6. /\ last_rho' \in Rho
            /\ break_point' \in Nat
            /\ \A i \in DOMAIN length' : i \in Nat /\ length'[i] \in Rho \cup {0}
            /\ DOMAIN theta' \subseteq DOMAIN length' /\ DOMAIN stored \subseteq DOMAIN length'
        <5>1. DOMAIN theta \subseteq DOMAIN stored
          BY <4>4, <4>5 DEF TypeOK
        <5>2. break_point \in Nat
          BY DEF TypeOK
        <5>3. CASE Break(urg_scip_decode(NextData, 0).rho)
          <6>1. /\ last_rho' = urg_scip_decode(NextData, 0).rho
                /\ break_point' = break_point + 1
                /\ length' = Store(stored, index + 1, 0)
                /\ theta' = Store(Store(theta, index, Step), index + 1, NoAngle)
            BY <4>2, <5>3 DEF StoreLength, stored
          <6> QED BY <4>1, <4>3, <4>5, <5>1, <5>2, <6>1 DEF Store
        <5>4. CASE ~Break(urg_scip_decode(NextData, 0).rho)
          <6>1. /\ last_rho' = urg_scip_decode(NextData, 0).rho
                /\ break_point' = break_point
                /\ length' = stored /\ theta' = Store(theta, index, Step)
            BY <4>2, <5>4 DEF StoreLength, stored
          <6> QED BY <4>1, <4>3, <4>5, <5>1, <5>2, <6>1 DEF Store
        <5> QED BY <5>3, <5>4
      <4>7. DOMAIN intensity' \subseteq DOMAIN stored
        BY <4>2, <4>4, <4>5 DEF StoreIntensity, Store, TypeOK
      <4> QED BY <3>4, <4>6, <4>7
    <3> QED BY <3>5, <3>6
  <2>2. CASE ReadLine \/ ReadEnd \/ Refused \/ LineDecoded \/ UNCHANGED vars
    <3>1. UNCHANGED <<countVars, storedVars>>
      BY <2>2 DEF ReadLine, ReadEnd, Refused, LineDecoded, vars
    <3> QED BY <3>1 DEF countVars, storedVars, TypeOK
  <2> QED BY <2>1, <2>2 DEF Next
<1> QED BY <1>1, <1>3, <1>4, <1>5 DEF TypeOK

-----------------------------------------------------------------------------
\* A step more: its entry, and one behind it if it jumps.
LEMMA HoldsNext ==
  ASSUME NEW s, NEW k \in Nat, NEW w \in BOOLEAN,
         NEW len, NEW angle, NEW int, Holds(s, k, w, len, angle, int),
         NEW P, P = k + JumpsOf(s, k),
         NEW len2, NEW angle2, NEW int2,
         IF JumpOf(s, k + 1)
         THEN /\ len2 = Store(Store(len, P, s[k + 1][1].rho), P + 1, 0)
              /\ angle2 = Store(Store(angle, P, k), P + 1, NoAngle)
         ELSE /\ len2 = Store(len, P, s[k + 1][1].rho)
              /\ angle2 = Store(angle, P, k),
         int2 = IF w THEN Store(int, P, s[k + 1][1].label) ELSE int
  PROVE  Holds(s, k + 1, w, len2, angle2, int2)
<1> DEFINE J == JumpsOf(s, k)
           J2 == JumpsOf(s, k + 1)
           jumps == JumpOf(s, k + 1)
<1>1. J \in Nat /\ J2 = J + One(jumps) /\ P \in Nat
  BY JumpsNext
<1>2. PlaceOf(s, k + 1) = P
  BY DEF PlaceOf
<1>3. \A i \in 1 .. k : PlaceOf(s, i) \in Nat /\ PlaceOf(s, i) + One(JumpOf(s, i)) < P
  BY <1>2, PlacesGrow
<1> HIDE DEF J, J2, jumps
<1>4. \A i \in 1 .. k + 1 : i \in 1 .. k \/ i = k + 1
  OBVIOUS
<1>5. DOMAIN len = 0 .. P - 1 /\ DOMAIN angle = 0 .. P - 1
  <2>1. DOMAIN len = 0 .. k + J - 1 /\ DOMAIN angle = DOMAIN len
    BY DEF Holds, J
  <2>2. P = k + J
    BY DEF J
  <2> QED BY <1>1, <2>1, <2>2
<1>6. DOMAIN len2 = 0 .. (k + 1) + J2 - 1 /\ DOMAIN angle2 = DOMAIN len2
  <2>1. CASE jumps
    <3>1. /\ DOMAIN len2 = DOMAIN len \cup {P} \cup {P + 1}
          /\ DOMAIN angle2 = DOMAIN angle \cup {P} \cup {P + 1}
      BY <2>1 DEF Store, jumps
    <3>2. (k + 1) + J2 - 1 = P + 1
      BY <1>1, <2>1 DEF One, J
    <3>3. 0 .. P + 1 = (0 .. P - 1) \cup {P} \cup {P + 1}
      BY <1>1
    <3> QED BY <1>5, <3>1, <3>2, <3>3
  <2>2. CASE ~jumps
    <3>1. DOMAIN len2 = DOMAIN len \cup {P} /\ DOMAIN angle2 = DOMAIN angle \cup {P}
      BY <2>2 DEF Store, jumps
    <3>2. (k + 1) + J2 - 1 = P
      BY <1>1, <2>2 DEF One, J
    <3>3. 0 .. P = (0 .. P - 1) \cup {P}
      BY <1>1
    <3> QED BY <1>5, <3>1, <3>2, <3>3
  <2> QED BY <2>1, <2>2
<1>7. DOMAIN int2 = IF w THEN {PlaceOf(s, i) : i \in 1 .. k + 1} ELSE {}
  <2>1. CASE w
    <3>1. DOMAIN int2 = {PlaceOf(s, i) : i \in 1 .. k} \cup {P}
      BY <2>1 DEF Store, Holds
    <3> QED BY <1>2, <1>4, <2>1, <3>1
  <2>2. CASE ~w
    BY <2>2 DEF Holds
  <2> QED BY <2>1, <2>2
\* What is stored for the steps before is not touched.
<1>8. ASSUME NEW x \in 0 .. P - 1
      PROVE  len2[x] = len[x] /\ angle2[x] = angle[x]
  <2>1. x # P /\ x # P + 1 /\ x \in DOMAIN len /\ x \in DOMAIN angle
    BY <1>1, <1>5
  <2>2. CASE jumps
    BY <2>1, <2>2 DEF Store, jumps
  <2>3. CASE ~jumps
    BY <2>1, <2>3 DEF Store, jumps
  <2> QED BY <2>2, <2>3
<1>9. /\ len2[P] = s[k + 1][1].rho /\ angle2[P] = k
      /\ jumps => len2[P + 1] = 0 /\ angle2[P + 1] = NoAngle
      /\ w => int2[P] = s[k + 1][1].label
  <2>1. P # P + 1
    BY <1>1
  <2>2. CASE jumps
    BY <2>1, <2>2 DEF Store, jumps
  <2>3. CASE ~jumps
    BY <2>3 DEF Store, jumps
  <2> QED BY <2>2, <2>3
<1>10. ASSUME NEW i \in 1 .. k
       PROVE  /\ len2[PlaceOf(s, i)] = s[i][1].rho /\ angle2[PlaceOf(s, i)] = i - 1
              /\ w => int2[PlaceOf(s, i)] = s[i][1].label
              /\ JumpOf(s, i) => len2[PlaceOf(s, i) + 1] = 0 /\ angle2[PlaceOf(s, i) + 1] = NoAngle
  <2> DEFINE Q == PlaceOf(s, i)
  <2>1. Q \in Nat /\ Q < P /\ (JumpOf(s, i) => Q + 1 < P)
    <3>1. One(JumpOf(s, i)) \in Nat /\ (JumpOf(s, i) => One(JumpOf(s, i)) = 1)
      BY DEF One
    <3> HIDE DEF Q
    <3>2. Q \in Nat /\ Q + One(JumpOf(s, i)) < P
      BY <1>3 DEF Q
    <3> QED BY <1>1, <3>1, <3>2
  <2>2. /\ len[Q] = s[i][1].rho /\ angle[Q] = i - 1
        /\ w => int[Q] = s[i][1].label /\ Q \in DOMAIN int
        /\ JumpOf(s, i) => len[Q + 1] = 0 /\ angle[Q + 1] = NoAngle
    BY DEF Holds
  <2> HIDE DEF Q
  <2>3. Q \in 0 .. P - 1 /\ (JumpOf(s, i) => Q + 1 \in 0 .. P - 1) /\ Q # P
    BY <1>1, <2>1
  <2>4. w => int2[Q] = int[Q]
    BY <2>2, <2>3 DEF Store
  <2>5. len2[Q] = s[i][1].rho /\ angle2[Q] = i - 1
    BY <1>8, <2>2, <2>3
  <2>6. JumpOf(s, i) => len2[Q + 1] = 0 /\ angle2[Q + 1] = NoAngle
    <3> DEFINE q == Q + 1
    <3>1. JumpOf(s, i) => q \in 0 .. P - 1 /\ len[q] = 0 /\ angle[q] = NoAngle
      BY <2>2, <2>3
    <3> HIDE DEF q
    <3>2. JumpOf(s, i) => len2[q] = 0 /\ angle2[q] = NoAngle
      BY <1>8, <3>1
    <3> QED BY <3>2 DEF q
  <2> QED BY <2>2, <2>4, <2>5, <2>6 DEF Q
<1>11. (k + 1) - 1 = k
  OBVIOUS
<1>12. ASSUME NEW i \in 1 .. k + 1
       PROVE  /\ len2[PlaceOf(s, i)] = s[i][1].rho /\ angle2[PlaceOf(s, i)] = i - 1
              /\ w => int2[PlaceOf(s, i)] = s[i][1].label
              /\ JumpOf(s, i) => len2[PlaceOf(s, i) + 1] = 0 /\ angle2[PlaceOf(s, i) + 1] = NoAngle
  <2>1. CASE i \in 1 .. k
    BY <1>10, <2>1
  <2>2. CASE i = k + 1
    BY <1>2, <1>9, <1>11, <2>2 DEF jumps
  <2> QED BY <1>4, <2>1, <2>2
<1> QED BY <1>6, <1>7, <1>12 DEF Holds, J2

LEMMA StoredStep ==
  ASSUME TypeOK, Reading, Stored, [Next]_vars
  PROVE  Stored'
<1>1. /\ type' = type /\ wanted' = wanted /\ scan' = scan
      /\ is_multiecho' = is_multiecho /\ is_intensity' = is_intensity
  BY DEF Next, vars, ReadLine, ReadEnd, Refused, Decode, LineDecoded, is_multiecho, is_intensity
<1>2. CASE Decode
  <2>1. pc = "data" /\ Decodable /\ pc' = pc /\ step_filled' = Step + 1
    BY <1>2 DEF Decode
  <2>2. CASE ~wanted
    <3>1. length' = length /\ theta' = theta /\ intensity' = intensity
      BY <1>2, <2>2 DEF Decode, storedVars
    <3> QED BY <1>1, <2>1, <2>2, <3>1 DEF Stored, Returned
  <2>3. CASE is_multiecho /\ wanted
    BY <1>1, <2>1, <2>3 DEF Stored, Returned
  <2>4. CASE wanted /\ ~is_multiecho
    <3> DEFINE k == step_filled
               J == JumpsOf(scan, k)
               P == k + J
               w == is_intensity
               rho == scan[k + 1][1].rho
               label == scan[k + 1][1].label
    <3>1. /\ k \in Nat /\ k + 1 <= Len(scan) /\ Step = k /\ MoreEchoes = FALSE
          /\ urg_scip_decode(NextData, 0) = scan[k + 1][1]
          /\ w => urg_scip_decode(NextData, 3) = scan[k + 1][1]
      <4>1. PICK e \in Echo : /\ Shows(NextData, e, data_size)
                              /\ ~MoreEchoes /\ e = scan[step_filled + 1][1]
        BY <2>1, <2>4, DecodeReads
      <4>2. /\ Len(NextData) \in Nat /\ Len(NextData) >= data_size /\ Step + 1 <= Len(scan)
        BY <2>1, DecodeReads, LenProperties
      <4>3. urg_scip_decode(NextData, 0) = e /\ (data_size = 6 => urg_scip_decode(NextData, 3) = e)
        BY <4>1, <4>2, SizeIs, DecodesEcho
      <4> QED BY <4>1, <4>2, <4>3 DEF Step, data_size, TypeOK, MoreEchoes
    <3>2. J \in Nat /\ break_point = J /\ P \in Nat /\ index = P
          /\ (k = 0 => J = 0)
      <4>1. J \in Nat /\ (k = 0 => J = 0)
        BY <3>1, JumpsNext
      <4>2. break_point = J
        BY <2>4 DEF Stored
      <4> QED BY <3>1, <4>1, <4>2 DEF index
    <3>3. Holds(scan, k, w, length, theta, intensity)
          /\ last_rho = (IF k = 0 THEN -1 ELSE scan[k][1].rho)
      BY <2>4 DEF Stored
    <3>4. rho \in Int /\ (k > 0 => scan[k][1].rho \in Int)
      <4>1. ASSUME NEW i \in 1 .. Len(scan)
            PROVE  scan[i][1].rho \in Int
        <5>1. scan[i] \in Seq(Echo) /\ scan[i] # <<>>
          BY LenProperties, ElementOfSeq DEF Reading, Measured
        <5>2. 1 \in 1 .. Len(scan[i])
          BY <5>1, EmptySeq, LenProperties
        <5>3. scan[i][1] \in Echo
          BY <5>1, <5>2, ElementOfSeq
        <5>4. scan[i][1].rho \in Rho
          BY <5>3 DEF Echo
        <5>5. Rho \subseteq Int
          BY DecodeAssumption DEF DecodeAssumption
        <5> QED BY ONLY <5>4, <5>5
      <4>2. Len(scan) \in Nat
        BY LenProperties DEF Reading
      <4> QED BY <3>1, <4>1, <4>2
    <3>5. Break(rho) <=> JumpOf(scan, k + 1)
      <4>1. DMAX \in Int /\ (k + 1) - 1 = k
        BY <3>1, DecodeAssumption DEF DecodeAssumption
      <4>2. CASE k = 0
        BY <3>2, <4>2 DEF Break, JumpOf
      <4>3. CASE k # 0
        <5>1. index > 0 /\ k + 1 > 1 /\ last_rho = scan[k][1].rho
          BY <3>1, <3>2, <3>3, <4>3
        <5> HIDE DEF rho, k
        <5>2. JumpOf(scan, k + 1) <=> rho - scan[k][1].rho >= DMAX
          BY <4>1, <5>1 DEF JumpOf, rho
        <5>3. Break(rho) <=> ~(rho - scan[k][1].rho < DMAX)
          BY <5>1 DEF Break
        <5>4. rho \in Int /\ scan[k][1].rho \in Int
          BY <3>1, <3>4, <4>3
        <5> QED BY <4>1, <5>2, <5>3, <5>4
      <4> QED BY <4>2, <4>3
    <3>6. StoreLength /\ StoreIntensity
      BY <1>2, <2>4 DEF Decode
    <3>7. Prepared(length) = length /\ Prepared(intensity) = intensity
      BY <2>4 DEF Prepared
    <3>8. intensity' = IF w THEN Store(intensity, P, label) ELSE intensity
      BY <3>1, <3>2, <3>6, <3>7 DEF StoreIntensity
    <3>9. /\ last_rho' = rho
          /\ IF JumpOf(scan, k + 1)
             THEN /\ break_point' = J + 1
                  /\ length' = Store(Store(length, P, rho), P + 1, 0)
                  /\ theta' = Store(Store(theta, P, k), P + 1, NoAngle)
             ELSE /\ break_point' = J
                  /\ length' = Store(length, P, rho) /\ theta' = Store(theta, P, k)
      <4> HIDE DEF J, P
      <4> QED BY <3>1, <3>2, <3>5, <3>6, <3>7 DEF StoreLength
    <3>10. Holds(scan, k + 1, w, length', theta', intensity')
      <4>1. w \in BOOLEAN /\ P = k + JumpsOf(scan, k)
        BY DEF is_intensity
      <4> HIDE DEF k, J, P, w
      <4> QED BY <3>1, <3>3, <3>8, <3>9, <4>1, HoldsNext DEF rho, label
    <3>11. break_point' = JumpsOf(scan, k + 1)
      <4>1. JumpsOf(scan, k + 1) = J + One(JumpOf(scan, k + 1))
        BY <3>1, JumpsNext
      <4> HIDE DEF J, k
      <4> QED BY <3>2, <3>9, <4>1 DEF One
    <3>12. step_filled' = k + 1 /\ k + 1 # 0
      BY <2>1, <3>1
    <3>13. Stored'
      <4> HIDE DEF k, w, rho
      <4>1. ~Returned'
        BY <2>1 DEF Returned
      <4>2. break_point' = JumpsOf(scan', step_filled')
        BY <1>1, <3>11, <3>12
      <4>3. last_rho' = IF step_filled' = 0 THEN -1 ELSE scan'[step_filled'][1].rho
        BY <1>1, <3>9, <3>12 DEF rho
      <4>4. Holds(scan', step_filled', is_intensity', length', theta', intensity')
        BY <1>1, <3>10, <3>12 DEF w
      <4> QED BY <1>1, <2>4, <4>1, <4>2, <4>3, <4>4 DEF Stored
    <3> QED BY <3>13
  <2> QED BY <2>2, <2>3, <2>4 DEF TypeOK
<1>3. CASE ReadLine \/ ReadEnd \/ Refused \/ LineDecoded \/ UNCHANGED vars
  <2>1. /\ step_filled' = step_filled /\ break_point' = break_point /\ last_rho' = last_rho
        /\ length' = length /\ theta' = theta /\ intensity' = intensity
    BY <1>3 DEF ReadLine, ReadEnd, Refused, LineDecoded, vars, countVars, storedVars
  <2>2. Returned' => ret' = step_filled' + break_point'
    <3>1. CASE UNCHANGED vars
      BY <3>1 DEF vars, countVars, Returned, Stored
    <3>2. CASE ReadLine
      BY <3>2 DEF ReadLine, Returns, Returned, CHECKSUM_ERROR
    <3>3. CASE ReadEnd
      BY <3>3 DEF ReadEnd, Returned
    <3>4. CASE Refused
      BY <3>4 DEF Refused, Returns, Returned, RECEIVE_ERROR
    <3>5. CASE LineDecoded
      BY <2>1, <3>5 DEF LineDecoded, Returns, Returned
    <3> QED BY <1>3, <3>1, <3>2, <3>3, <3>4, <3>5
  <2> QED BY <1>1, <2>1, <2>2 DEF Stored
<1> QED BY <1>2, <1>3 DEF Next

-----------------------------------------------------------------------------
LEMMA Preserved == DecodeInv /\ [Next]_vars => DecodeInv'
<1> SUFFICES ASSUME TypeOK, Reading, Stored, [Next]_vars
             PROVE  DecodeInv'
  BY DEF DecodeInv
<1>1. TypeOK'
  BY TypeStep
<1>2. Reading'
  BY ReadingStep
<1>3. Stored'
  BY StoredStep
<1> QED BY <1>1, <1>2, <1>3 DEF DecodeInv

LEMMA Invariance == Spec => []DecodeInv
<1> QED BY Initially, Preserved, PTL DEF Spec

\* JumpsOf and PlaceOf, of the scan.
LEMMA JumpsAre ==
  /\ \A k : JumpOf(scan, k) <=> Jump(k)
  /\ \A k : JumpsOf(scan, k) = Jumps(k)
  /\ \A k : PlaceOf(scan, k) = Place(k)
<1>1. \A k : JumpOf(scan, k) <=> Jump(k)
  BY DEF JumpOf, Jump
<1>2. ASSUME NEW k
      PROVE  JumpsOf(scan, k) = Jumps(k)
  <2>1. {j \in 1 .. k : JumpOf(scan, j)} = {j \in 1 .. k : Jump(j)}
    BY <1>1
  <2> QED BY <2>1 DEF JumpsOf, Jumps
<1>3. \A k : PlaceOf(scan, k) = Place(k)
  BY <1>2 DEF PlaceOf, Place
<1> QED BY <1>1, <1>2, <1>3

\* Every variable of receive_length_data keeps its type, and no more steps are
\* stored than were asked for, however many the sensor sends.
THEOREM DecodeTypeCorrect == Spec => []TypeOK
<1>1. DecodeInv => TypeOK
  BY DEF DecodeInv
<1> QED BY <1>1, Invariance, PTL

\* Wherever the text of a scan is cut into lines, and also when the lines stop
\* coming, the arrays hold exactly the steps decoded so far, each with its own
\* angle and intensity, with an entry of its own behind each that jumps.
THEOREM ScanIsDecoded == Spec => []DecodesScan
<1>1. DecodeInv => DecodesScan
  <2> SUFFICES ASSUME DecodeInv, wanted, ~is_multiecho
               PROVE  /\ DOMAIN length = 0 .. step_filled + Jumps(step_filled) - 1
                      /\ DOMAIN theta = DOMAIN length
                      /\ DOMAIN intensity =
                           IF is_intensity THEN {Place(k) : k \in 1 .. step_filled} ELSE {}
                      /\ \A k \in 1 .. step_filled :
                           /\ length[Place(k)] = scan[k][1].rho /\ theta[Place(k)] = k - 1
                           /\ is_intensity => intensity[Place(k)] = scan[k][1].label
                           /\ Jump(k) => length[Place(k) + 1] = 0 /\ theta[Place(k) + 1] = NoAngle
                      /\ Returned => ret = step_filled + Jumps(step_filled)
    BY DEF DecodesScan
  <2>1. Holds(scan, step_filled, is_intensity, length, theta, intensity)
    BY DEF DecodeInv, Stored
  <2>2. Returned => ret = step_filled + JumpsOf(scan, step_filled)
    BY DEF DecodeInv, Stored
  <2>3. DOMAIN intensity = IF is_intensity THEN {Place(k) : k \in 1 .. step_filled} ELSE {}
    BY <2>1, JumpsAre DEF Holds
  <2>4. \A k \in 1 .. step_filled :
          /\ length[Place(k)] = scan[k][1].rho /\ theta[Place(k)] = k - 1
          /\ is_intensity => intensity[Place(k)] = scan[k][1].label
          /\ Jump(k) => length[Place(k) + 1] = 0 /\ theta[Place(k) + 1] = NoAngle
    BY <2>1, JumpsAre DEF Holds
  <2> QED BY <2>1, <2>2, <2>3, <2>4, JumpsAre DEF Holds
<1> QED BY <1>1, Invariance, PTL

\* The arrays of Urg_driver::get_distance, two entries for every step asked
\* for, hold any scan of distances with all of its break points.  (Of the other
\* types, whose arrays are smaller, this says nothing.)
THEOREM DriverArraysSuffice == Spec => []FitsDriver
<1>1. DecodeInv => FitsDriver
  <2> SUFFICES ASSUME DecodeInv, type = "distance", ~is_multiecho
               PROVE  DOMAIN length \subseteq 0 .. 2 * Window - 1
    BY DEF FitsDriver, is_multiecho
  <2>1. step_filled \in Nat /\ step_filled <= Window /\ Window \in Nat /\ wanted \in BOOLEAN
    BY DecodeAssumption DEF DecodeInv, TypeOK, DecodeAssumption
  <2>2. CASE ~wanted
    BY <2>2 DEF DecodeInv, Stored
  <2>3. CASE wanted
    <3>1. DOMAIN length = 0 .. step_filled + JumpsOf(scan, step_filled) - 1
      BY <2>3 DEF DecodeInv, Stored, Holds
    <3>2. JumpsOf(scan, step_filled) \in Nat /\ JumpsOf(scan, step_filled) <= step_filled
      BY <2>1, JumpsNext
    <3> QED BY <2>1, <3>1, <3>2
  <2> QED BY <2>1, <2>2, <2>3
<1> QED BY <1>1, Invariance, PTL

\* A scan that was read to its end was counted step by step, however many
\* echoes its steps have and wherever the lines were cut.
THEOREM StepsAreCounted == Spec => []CountsSteps
<1>1. DecodeInv => CountsSteps
  BY DEF DecodeInv, Reading, CountsSteps, Complete, Returned, TypeOK
<1> QED BY <1>1, Invariance, PTL
=============================================================================
