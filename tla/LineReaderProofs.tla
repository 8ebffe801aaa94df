-------------------------- MODULE LineReaderProofs ---------------------------
(***************************************************************************)
(* Proofs about readline, for every alphabet, every size of the caller's   *)
(* buffer and of the ring, and every way in which characters arrive: a     *)
(* line stays inside the buffer, and readline implements LineStream.       *)
(***************************************************************************)
EXTENDS LineReader, SequenceTheorems, TLAPS

USE ReaderAssumption

Received == Char \cup {LF}

\* Between readlines there is no line.  A character put back is the first of
\* its line.  The loop waits for the operating system with all else read.
Positions ==
  /\ pc = "idle" => data = <<>>
  /\ data # <<>> => pushed_back = <<>>
  /\ pc = "wait" => pushed_back = <<>> /\ ring = <<>>

ReaderInv == TypeOK /\ Positions

-----------------------------------------------------------------------------
\* Sequences.

LEMMA CharsReceived ==
  ASSUME NEW s \in Seq(Char)
  PROVE  s \in Seq(Received)
BY SeqMonotonic DEF Received

LEMMA One ==
  ASSUME NEW S, NEW e \in S
  PROVE  <<e>> \in Seq(S) /\ Len(<<e>>) = 1 /\ <<e>>[1] = e /\ <<e>> # <<>>
OBVIOUS

LEMMA HeadFirst ==
  ASSUME NEW S, NEW s \in Seq(S), s # <<>>
  PROVE  /\ Head(s) \in S /\ Tail(s) \in Seq(S)
         /\ s = <<Head(s)>> \o Tail(s)
         /\ Len(Tail(s)) = Len(s) - 1
<1>1. Len(s) \in Nat \ {0}
  BY EmptySeq
<1>2. Head(s) \in S /\ Tail(s) \in Seq(S) /\ Len(Tail(s)) = Len(s) - 1
  BY HeadTailProperties
<1>3. s = SubSeq(s, 1, Len(s))
  BY SubSeqFull
<1>4. SubSeq(s, 1, Len(s)) = <<s[1]>> \o SubSeq(s, 2, Len(s))
  BY <1>1, SubSeqRecursiveFirst
<1>5. Tail(s) = SubSeq(s, 2, Len(s)) /\ Head(s) = s[1]
  BY TailIsSubSeq
<1> QED BY <1>2, <1>3, <1>4, <1>5

\* A sequence is its first n elements and the rest.
LEMMA Split ==
  ASSUME NEW S, NEW s \in Seq(S), NEW n \in 0 .. Len(s)
  PROVE  /\ First(s, n) \in Seq(S) /\ Len(First(s, n)) = n
         /\ Rest(s, n) \in Seq(S)
         /\ s = First(s, n) \o Rest(s, n)
<1>1. Len(s) \in Nat /\ \A i \in 1 .. Len(s) : s[i] \in S
  BY LenProperties, ElementOfSeq
<1>2. \A i \in 1 .. n : s[i] \in S
  BY <1>1
<1>3. \A i \in n + 1 .. Len(s) : s[i] \in S
  BY <1>1
<1>4. First(s, n) \in Seq(S) /\ Len(First(s, n)) = n
  BY <1>2, SubSeqProperties DEF First
<1>5. Rest(s, n) \in Seq(S)
  BY <1>1, <1>3, SubSeqProperties DEF Rest
<1>6. s = First(s, n) \o Rest(s, n)
  <2>1. 1 \in 1 .. Len(s) + 1 /\ n \in 1 - 1 .. Len(s) /\ Len(s) \in n .. Len(s)
    BY <1>1
  <2>2. SubSeq(s, 1, n) \o SubSeq(s, n + 1, Len(s)) = SubSeq(s, 1, Len(s))
    BY <2>1, ConcatAdjacentSubSeq
  <2> QED BY <2>2, SubSeqFull DEF First, Rest
<1> QED BY <1>4, <1>5, <1>6

\* What a concatenation is made of.
LEMMA Parts ==
  ASSUME NEW S, NEW s \in Seq(S), NEW t \in Seq(S)
  PROVE  /\ SubSeq(s \o t, 1, Len(s)) = s
         /\ SubSeq(s \o t, Len(s) + 1, Len(s \o t)) = t
<1> DEFINE u == s \o t
<1>1. /\ u \in Seq(S) /\ Len(u) = Len(s) + Len(t)
      /\ Len(s) \in Nat /\ Len(t) \in Nat
      /\ \A i \in 1 .. Len(s) + Len(t) : u[i] = IF i <= Len(s) THEN s[i] ELSE t[i - Len(s)]
  BY ConcatProperties, LenProperties
<1>2. \A i \in 1 .. Len(u) : u[i] \in S
  BY <1>1, ElementOfSeq
<1> HIDE DEF u
<1>3. SubSeq(u, 1, Len(s)) = s
  <2>1. /\ SubSeq(u, 1, Len(s)) \in Seq(S)
        /\ Len(SubSeq(u, 1, Len(s))) = Len(s)
        /\ \A i \in 1 .. Len(s) : SubSeq(u, 1, Len(s))[i] = u[i]
    <3>1. \A i \in 1 .. Len(s) : u[i] \in S
      BY <1>1, <1>2
    <3> QED BY <1>1, <3>1, SubSeqProperties, SMTT(20)
  <2>2. \A i \in 1 .. Len(s) : SubSeq(u, 1, Len(s))[i] = s[i]
    BY <1>1, <2>1
  <2> QED BY <2>1, <2>2, SeqEqual
<1>4. SubSeq(u, Len(s) + 1, Len(u)) = t
  <2>1. \A i \in Len(s) + 1 .. Len(u) : u[i] \in S
    BY <1>1, <1>2
  <2>2. /\ SubSeq(u, Len(s) + 1, Len(u)) \in Seq(S)
        /\ Len(SubSeq(u, Len(s) + 1, Len(u))) = Len(t)
        /\ \A i \in 1 .. Len(t) : SubSeq(u, Len(s) + 1, Len(u))[i] = u[Len(s) + i]
    BY <1>1, <2>1, SubSeqProperties, SMTT(20)
  <2>3. ASSUME NEW i \in 1 .. Len(t)
        PROVE  SubSeq(u, Len(s) + 1, Len(u))[i] = t[i]
    <3>1. /\ Len(s) + i \in 1 .. Len(s) + Len(t) /\ ~(Len(s) + i <= Len(s))
          /\ Len(s) + i - Len(s) = i
      BY <1>1
    <3>2. u[Len(s) + i] = t[i]
      BY <1>1, <3>1
    <3> QED BY <2>2, <3>2
  <2> QED BY <2>2, <2>3, SeqEqual
<1> QED BY <1>3, <1>4 DEF u

\* The first element of what follows is moved to the end of what precedes.
LEMMA MoveOne ==
  ASSUME NEW S, NEW s \in Seq(S), NEW c \in S, NEW r \in Seq(S)
  PROVE  (s \o <<c>>) \o r = s \o (<<c>> \o r)
<1> DEFINE one == <<c>>
<1>1. one \in Seq(S)
  BY One
<1> HIDE DEF one
<1>2. (s \o one) \o r = s \o (one \o r)
  BY <1>1, ConcatAssociative
<1> QED BY <1>2 DEF one

\* The first element of a concatenation.
LEMMA HeadOfConcat ==
  ASSUME NEW S, NEW s \in Seq(S), NEW t \in Seq(S), s # <<>>
  PROVE  /\ Head(s) \in S /\ Tail(s) \in Seq(S)
         /\ Tail(s) \o t \in Seq(S)
         /\ s \o t = <<Head(s)>> \o (Tail(s) \o t)
<1> DEFINE one == <<Head(s)>>
<1>1. /\ Head(s) \in S /\ Tail(s) \in Seq(S) /\ one \in Seq(S)
      /\ s = one \o Tail(s)
  BY HeadFirst, One
<1>2. Tail(s) \o t \in Seq(S)
  BY <1>1, ConcatProperties
<1> HIDE DEF one
<1>3. (one \o Tail(s)) \o t = one \o (Tail(s) \o t)
  BY <1>1, ConcatAssociative
<1> QED BY <1>1, <1>2, <1>3 DEF one

LEMMA ThreeParts ==
  ASSUME NEW S, NEW d \in Seq(S), NEW r \in Seq(S), NEW o \in Seq(S)
  PROVE  d \o <<>> \o r \o o = d \o (r \o o)
<1>1. d \o <<>> = d
  BY ConcatEmptySeq
<1>2. (d \o r) \o o = d \o (r \o o)
  BY ConcatAssociative
<1> QED BY <1>1, <1>2

-----------------------------------------------------------------------------
\* What is unread, cut in two anywhere.

LEMMA UnreadParts ==
  ASSUME TypeOK
  PROVE  /\ data \in Seq(Received) /\ pushed_back \in Seq(Received)
         /\ ring \in Seq(Received) /\ os \in Seq(Received)
         /\ ring \o os \in Seq(Received) /\ Unread \in Seq(Received)
         /\ Unread = data \o (pushed_back \o (ring \o os))
         /\ pushed_back = <<>> => Unread = data \o (ring \o os)
<1>1. /\ data \in Seq(Received) /\ pushed_back \in Seq(Received)
      /\ ring \in Seq(Received) /\ os \in Seq(Received)
  BY CharsReceived DEF TypeOK, Received
<1> DEFINE front == data \o pushed_back
           back == ring \o os
<1>2. front \in Seq(Received) /\ back \in Seq(Received)
  BY <1>1, ConcatProperties
<1>3. (data \o pushed_back) \o back = data \o (pushed_back \o back)
  <2> HIDE DEF back
  <2> QED BY <1>1, <1>2, ConcatAssociative
<1>4. /\ front \o ring \in Seq(Received)
      /\ (front \o ring) \o os = front \o (ring \o os)
  <2> HIDE DEF front
  <2>1. front \o ring \in Seq(Received)
    BY <1>1, <1>2, ConcatProperties
  <2>2. (front \o ring) \o os = front \o (ring \o os)
    BY <1>1, <1>2, ConcatAssociative
  <2> QED BY <2>1, <2>2
<1>5. Unread \in Seq(Received)
  BY <1>1, <1>4, ConcatProperties DEF Unread
<1>6. Unread = data \o (pushed_back \o back)
  BY <1>3, <1>4 DEF Unread
<1>7. <<>> \o back = back
  BY <1>2, ConcatEmptySeq
<1> QED BY <1>1, <1>2, <1>5, <1>6, <1>7

LEMMA UnreadNext ==
  ASSUME data' \in Seq(Received), ring' \in Seq(Received), os' \in Seq(Received),
         pushed_back' = <<>>
  PROVE  Unread' = data' \o (ring' \o os')
<1>1. data' \o <<>> \o ring' \o os' = data' \o (ring' \o os')
  BY ThreeParts
<1> QED BY <1>1 DEF Unread

\* A line of the reader is a line of the stream: its characters are not LF.
LEMMA PlainLine ==
  ASSUME NEW s \in Seq(Char)
  PROVE  Stream!Plain(s)
BY LenProperties, ElementOfSeq DEF Stream!Plain

-----------------------------------------------------------------------------
\* Taking one character, from wherever it is.

\* A line that ends is a whole line of the stream, one that does not end is no
\* step of the stream.
LEMMA AcceptStep ==
  ASSUME TypeOK, NEW c \in Received, NEW r \in Seq(Received),
         Unread = data \o (<<c>> \o r), Unread' = data' \o r, Accept(c)
  PROVE  Stream!WholeLine \/ UNCHANGED <<Unread, result>>
<1> USE UnreadParts
<1>1. CASE c = LF
  <2> DEFINE n == Len(data)
  <2>1. data' = <<>> /\ result' = [n |-> Len(data), text |-> data]
    BY <1>1 DEF Accept, Returns
  <2>2. Unread' = r
    BY <2>1, ConcatEmptySeq
  <2>3. <<c>> \in Seq(Received) /\ Len(<<c>>) = 1 /\ <<c>>[1] = c
    BY One
  <2>4. <<c>> \o r \in Seq(Received) /\ Len(<<c>> \o r) = 1 + Len(r)
    BY <2>3, ConcatProperties
  <2>5. /\ n \in Nat /\ Len(r) \in Nat
        /\ Len(Unread) = n + 1 + Len(r)
    BY <2>4, ConcatProperties, LenProperties
  <2>6. Stream!First(n) = data
    BY <2>4, Parts DEF Stream!First
  <2>7. Unread[n + 1] = LF
    <3>1. n + 1 \in 1 .. n + Len(<<c>> \o r) /\ ~(n + 1 <= n) /\ n + 1 - n = 1
      BY <2>4, <2>5
    <3>2. Unread[n + 1] = (<<c>> \o r)[1]
      BY <2>4, <3>1, ConcatProperties
    <3>3. (<<c>> \o r)[1] = c
      <4>1. 1 \in 1 .. Len(<<c>>) + Len(r) /\ 1 <= Len(<<c>>)
        BY <2>3, <2>5
      <4> QED BY <2>3, <4>1, ConcatProperties
    <3> QED BY <1>1, <3>2, <3>3
  <2>8. Stream!Rest(n + 1) = r
    <3>1. data \o <<c>> \in Seq(Received) /\ Len(data \o <<c>>) = n + 1
      BY <2>3, ConcatProperties
    <3>2. (data \o <<c>>) \o r = data \o (<<c>> \o r)
      BY MoveOne
    <3>3. Unread = (data \o <<c>>) \o r
      BY <3>2
    <3> QED BY <3>1, <3>3, Parts DEF Stream!Rest
  <2>9. Stream!Plain(Stream!First(n))
    BY <2>6, PlainLine DEF TypeOK
  <2>10. n \in 0 .. Len(Unread) - 1
    BY <2>5
  <2>11. Stream!WholeLine
    BY <2>1, <2>2, <2>6, <2>7, <2>8, <2>9, <2>10 DEF Stream!WholeLine, Stream!Line
  <2> QED BY <2>11
<1>2. CASE c # LF
  <2>1. data' = Append(data, c) /\ UNCHANGED result
    BY <1>2 DEF Accept
  <2>2. Append(data, c) = data \o <<c>>
    BY AppendIsConcat
  <2>3. (data \o <<c>>) \o r = data \o (<<c>> \o r)
    BY MoveOne
  <2> QED BY <2>1, <2>2, <2>3
<1> QED BY <1>1, <1>2

\* A character fits: a line that is not full stays inside the buffer, and one
\* that ends leaves nothing behind.
LEMMA AcceptType ==
  ASSUME TypeOK, NEW c \in Received, ~Full, Accept(c), max_size' = max_size
  PROVE  /\ data' \in Seq(Char) /\ Len(data') <= max_size'
         /\ pc' \in {"idle", "next"}
         /\ result' \in [n : Nat \cup {-1}, text : Seq(Char)]
         /\ pc' = "idle" => data' = <<>> /\ Len(data') < max_size'
<1>1. max_size \in Nat /\ max_size > 1 /\ Len(data) \in Nat /\ Len(data) < max_size
  BY LenProperties DEF TypeOK, Full
<1>2. CASE c = LF
  <2>1. /\ data' = <<>> /\ pc' = "idle"
        /\ result' = [n |-> Len(data), text |-> data]
    BY <1>2 DEF Accept, Returns
  <2> QED BY <1>1, <2>1, EmptySeq DEF TypeOK
<1>3. CASE c # LF
  <2>1. data' = Append(data, c) /\ pc' = "next" /\ result' = result /\ c \in Char
    BY <1>3 DEF Accept, Received
  <2>2. data' \in Seq(Char) /\ Len(data') = Len(data) + 1
    BY <2>1, AppendProperties DEF TypeOK
  <2> QED BY <1>1, <2>1, <2>2 DEF TypeOK
<1> QED BY <1>2, <1>3

\* What FillRing asks the operating system for fits in the empty ring: nothing
\* of it is dropped.
LEMMA FillFits ==
  ASSUME TypeOK, ring = <<>>, NEW n \in Nat, n = Smaller(Len(os), ReadAhead), n # 0
  PROVE  LET block == First(os, n)
         IN  /\ Stored(block) = block /\ block # <<>>
             /\ block \in Seq(Received) /\ Len(block) <= ring_capacity
             /\ Rest(os, n) \in Seq(Received)
             /\ os = block \o Rest(os, n)
<1> DEFINE block == First(os, n)
<1>1. os \in Seq(Received) /\ Len(os) \in Nat /\ Len(ring) = 0
  BY LenProperties, UnreadParts, EmptySeq
<1>0. n \in 0 .. Len(os)
  BY <1>1 DEF Smaller, ReadAhead
<1>2. n <= ring_capacity /\ n > 0
  BY <1>1 DEF Smaller, ReadAhead
<1>3. /\ block \in Seq(Received) /\ Len(block) = n
      /\ Rest(os, n) \in Seq(Received)
      /\ os = block \o Rest(os, n)
  <2>1. \A k \in 0 .. Len(os) :
          /\ First(os, k) \in Seq(Received) /\ Len(First(os, k)) = k
          /\ Rest(os, k) \in Seq(Received)
          /\ os = First(os, k) \o Rest(os, k)
    BY <1>1, Split
  <2> QED BY <1>0, <2>1
<1>4. block # <<>>
  BY <1>2, <1>3, EmptySeq
<1> HIDE DEF block
<1>5. Smaller(Len(block), ring_capacity - Len(ring)) = Len(block)
  BY <1>1, <1>2, <1>3 DEF Smaller
<1>6. Stored(block) = <<>> \o First(block, Len(block))
  BY <1>5 DEF Stored
<1>7. First(block, Len(block)) = block /\ <<>> \o block = block
  BY <1>3, SubSeqFull, ConcatEmptySeq DEF First
<1> QED BY <1>2, <1>3, <1>4, <1>6, <1>7 DEF block

-----------------------------------------------------------------------------
\* The invariant holds of every reachable state.
LEMMA ReaderInvariant == Spec => []ReaderInv
<1>1. Init => ReaderInv
  <2> SUFFICES ASSUME Init PROVE ReaderInv
    OBVIOUS
  <2>1. \A S : <<>> \in Seq(S) /\ Len(<<>>) = 0
    BY EmptySeq
  <2>2. max_size \in Nat /\ max_size > 1
    BY DEF Init
  <2>3. /\ result \in [n : Nat \cup {-1}, text : Seq(Char)]
        /\ type \in {"serial", "ethernet"} /\ Len(ring) <= ring_capacity
    BY <2>1 DEF Init
  <2>4. TypeOK
    BY <2>1, <2>2, <2>3 DEF Init, TypeOK
  <2>5. Positions
    BY DEF Init, Positions
  <2> QED BY <2>4, <2>5 DEF ReaderInv
<1>2. ReaderInv /\ [Next]_vars => ReaderInv'
  <2> SUFFICES ASSUME ReaderInv, [Next]_vars PROVE ReaderInv'
    OBVIOUS
  <2> USE DEF ReaderInv
  <2>0. /\ \A S : <<>> \in Seq(S) /\ Len(<<>>) = 0
        /\ \A m \in Sizes : m \in Nat /\ m > 1
        /\ Len(data) \in Nat /\ Len(ring) \in Nat /\ max_size \in Nat
    BY EmptySeq, LenProperties DEF TypeOK
  <2>1. CASE Receive
    <3>1. os' \in Seq(Received)
      BY <2>1, AppendProperties DEF Receive, TypeOK, Received
    <3> QED BY <2>1, <3>1 DEF Receive, TypeOK, Positions, Received
  <2>2. CASE Call
    <3>0. Len(pushed_back) \in Nat /\ data = <<>> /\ max_size' \in Sizes /\ max_size' > 1
      BY <2>0, <2>2, LenProperties DEF Call, TypeOK, Positions
    <3>1. CASE type = "ethernet"
      <4>1. data' = pushed_back /\ pushed_back' = <<>>
        BY <2>2, <3>1 DEF Call
      <4>2. Len(data') < max_size' /\ Len(pushed_back') <= 1
        BY <2>0, <3>0, <4>1 DEF TypeOK
      <4> QED BY <2>0, <2>2, <3>0, <4>1, <4>2 DEF Call, TypeOK, Positions
    <3>2. CASE type # "ethernet"
      <4>1. data' = <<>> /\ pushed_back' = pushed_back
        BY <2>2, <3>0, <3>2 DEF Call
      <4>2. Len(data') < max_size'
        BY <2>0, <3>0, <4>1
      <4> QED BY <2>0, <2>2, <3>0, <4>1, <4>2 DEF Call, TypeOK, Positions
    <3> QED BY <3>1, <3>2
  <2>3. CASE LineTooLong
    <3> DEFINE m == Len(data)
    <3>1. m = max_size /\ m \in Nat /\ m > 1
      BY <2>0, <2>3 DEF LineTooLong, Full, TypeOK
    <3>2. data \in Seq(Char) /\ m - 1 \in 0 .. Len(data)
      BY <3>1 DEF TypeOK
    <3>3. First(data, m - 1) \in Seq(Char) /\ Len(First(data, m - 1)) = m - 1
      BY <3>2, Split
    <3>4. data[m] \in Char
      BY <3>1, ElementOfSeq DEF TypeOK
    <3>5. pushed_back' \in Seq(Char) /\ Len(pushed_back') <= 1
      BY <2>3, <3>4 DEF LineTooLong
    <3>6. result' \in [n : Nat \cup {-1}, text : Seq(Char)]
      BY <2>3, <3>1, <3>2, <3>3 DEF LineTooLong, Returns
    <3> QED BY <2>0, <2>3, <3>5, <3>6 DEF LineTooLong, Returns, TypeOK, Positions
  <2>4. CASE TakePushedBack
    <3>1. /\ Head(pushed_back) \in Received /\ ~Full /\ Accept(Head(pushed_back))
          /\ max_size' = max_size
      BY <2>4, UnreadParts, HeadFirst DEF TakePushedBack
    <3> HIDE DEF ReaderInv
    <3>2. /\ data' \in Seq(Char) /\ Len(data') <= max_size'
          /\ pc' \in {"idle", "next"}
          /\ result' \in [n : Nat \cup {-1}, text : Seq(Char)]
          /\ pc' = "idle" => data' = <<>> /\ Len(data') < max_size'
      BY <3>1, AcceptType DEF ReaderInv
    <3> QED BY <2>0, <2>4, <3>2 DEF ReaderInv, TakePushedBack, TypeOK, Positions
  <2>5. CASE TakeFromRing
    <3>1. /\ Head(ring) \in Received /\ ~Full /\ Accept(Head(ring))
          /\ max_size' = max_size
          /\ ring' \in Seq(Received) /\ Len(ring') <= ring_capacity
      BY <2>0, <2>5, UnreadParts, HeadFirst DEF TakeFromRing, TypeOK
    <3>2. /\ data' \in Seq(Char) /\ Len(data') <= max_size'
          /\ pc' \in {"idle", "next"}
          /\ result' \in [n : Nat \cup {-1}, text : Seq(Char)]
          /\ pc' = "idle" => data' = <<>> /\ Len(data') < max_size'
      BY <3>1, AcceptType
    <3> QED BY <2>5, <3>1, <3>2 DEF TakeFromRing, TypeOK, Positions, Received
  <2>6. CASE FillRing
    <3> DEFINE n == Smaller(Len(os), ReadAhead)
               block == First(os, n)
    <3>1. CASE n = 0
      <4>1. pc' = "wait" /\ UNCHANGED <<os, ring, data, result, type, pushed_back, max_size>>
        BY <2>6, <3>1 DEF FillRing
      <4>2. Len(data) < max_size
        BY <2>0, <2>6 DEF FillRing, Full, TypeOK
      <4> QED BY <2>6, <4>1, <4>2 DEF FillRing, TypeOK, Positions
    <3>2. CASE n # 0
      <4>1. ring = <<>> /\ pushed_back = <<>> /\ ~Full
        BY <2>6 DEF FillRing
      <4>0. n \in Nat
        BY <2>0, <4>1, LenProperties, EmptySeq DEF Smaller, ReadAhead, TypeOK
      <4>2. /\ Stored(block) = block /\ block # <<>>
            /\ block \in Seq(Received) /\ Len(block) <= ring_capacity
            /\ Rest(os, n) \in Seq(Received)
        BY <3>2, <4>0, <4>1, FillFits
      <4>3. /\ os' = Rest(os, n) /\ ring' = Tail(block) /\ Accept(Head(block))
            /\ UNCHANGED <<type, pushed_back, max_size>>
        BY <2>6, <3>2, <4>2 DEF FillRing
      <4> HIDE DEF block, n
      <4>4. /\ Head(block) \in Received /\ ring' \in Seq(Received)
            /\ Len(ring') <= ring_capacity
        BY <4>2, <4>3, HeadFirst, LenProperties
      <4>5. /\ data' \in Seq(Char) /\ Len(data') <= max_size'
            /\ pc' \in {"idle", "next"}
            /\ result' \in [n : Nat \cup {-1}, text : Seq(Char)]
            /\ pc' = "idle" => data' = <<>> /\ Len(data') < max_size'
        BY <4>1, <4>3, <4>4, AcceptType
      <4> QED BY <4>1, <4>2, <4>3, <4>4, <4>5 DEF TypeOK, Positions, Received
    <3> QED BY <3>1, <3>2
  <2>7. CASE TakeFromSystem
    <3>1. /\ Head(os) \in Received /\ Accept(Head(os)) /\ ~Full
          /\ max_size' = max_size /\ os' \in Seq(Received)
      BY <2>0, <2>7, UnreadParts, HeadFirst DEF TakeFromSystem, TypeOK, Full
    <3>2. /\ data' \in Seq(Char) /\ Len(data') <= max_size'
          /\ pc' \in {"idle", "next"}
          /\ result' \in [n : Nat \cup {-1}, text : Seq(Char)]
          /\ pc' = "idle" => data' = <<>> /\ Len(data') < max_size'
      BY <3>1, AcceptType
    <3> QED BY <2>7, <3>1, <3>2 DEF TakeFromSystem, TypeOK, Positions, Received
  <2>8. CASE TimeOut
    <3>1. result' \in [n : Nat \cup {-1}, text : Seq(Char)]
      BY <2>0, <2>8 DEF TimeOut, Returns, TypeOK
    <3> QED BY <2>0, <2>8, <3>1 DEF TimeOut, Returns, TypeOK, Positions
  <2>9. CASE serial_set_baudrate
    BY <2>0, <2>9 DEF serial_set_baudrate, TypeOK, Positions
  <2>10. CASE UNCHANGED vars
    BY <2>10 DEF vars, TypeOK, Positions
  <2> QED BY <2>1, <2>2, <2>3, <2>4, <2>5, <2>6, <2>7, <2>8, <2>9, <2>10 DEF Next
<1> QED BY <1>1, <1>2, PTL DEF Spec

\* Every variable of readline keeps its type; a line, with the NUL after it,
\* stays inside the caller's buffer, and the ring inside its capacity.
THEOREM ReaderTypes == Spec => []TypeOK
<1>1. ReaderInv => TypeOK
  BY DEF ReaderInv
<1> QED BY <1>1, ReaderInvariant, PTL

-----------------------------------------------------------------------------
\* The steps of readline are steps of the stream.

\* A step that takes a character at the head of s, wherever that is.
LEMMA TakeStep ==
  ASSUME ReaderInv, ReaderInv',
         NEW s \in Seq(Received), NEW t \in Seq(Received), s # <<>>,
         Unread = data \o (s \o t), Accept(Head(s)),
         pushed_back' = <<>>, ring' \o os' = Tail(s) \o t
  PROVE  Stream!WholeLine \/ UNCHANGED <<Unread, result>>
<1>1. /\ Head(s) \in Received /\ Tail(s) \o t \in Seq(Received)
      /\ s \o t = <<Head(s)>> \o (Tail(s) \o t)
  BY HeadOfConcat
<1>2. Unread = data \o (<<Head(s)>> \o (Tail(s) \o t))
  BY <1>1
<1>3. /\ data' \in Seq(Received) /\ pushed_back' \in Seq(Received)
      /\ ring' \in Seq(Received) /\ os' \in Seq(Received)
  BY CharsReceived DEF ReaderInv, TypeOK, Received
<1>4. Unread' = data' \o (ring' \o os')
  BY <1>3, UnreadNext
<1>5. Unread' = data' \o (Tail(s) \o t)
  BY <1>4
<1> QED BY <1>1, <1>2, <1>5, AcceptStep DEF ReaderInv

\* A full buffer: the last character of the line is unread again.
LEMMA FullStep ==
  ASSUME ReaderInv, LineTooLong
  PROVE  Stream!FullLine
<1> DEFINE m == Len(data)
           line == First(data, m - 1)
           last == data[m]
           r == ring \o os
<1>1. m = max_size /\ m \in Nat /\ m > 1 /\ data \in Seq(Char)
  BY LenProperties DEF LineTooLong, Full, ReaderInv, TypeOK
<1>2. data # <<>> /\ pushed_back = <<>>
  BY <1>1, EmptySeq DEF ReaderInv, Positions
<1>3. /\ data \in Seq(Received) /\ pushed_back \in Seq(Received)
      /\ ring \in Seq(Received) /\ os \in Seq(Received)
  BY UnreadParts DEF ReaderInv
<1>4. r \in Seq(Received) /\ Unread = data \o r
  BY <1>2, UnreadParts DEF ReaderInv
<1>5. line \in Seq(Char) /\ Len(line) = m - 1
  <2>1. m - 1 \in 0 .. Len(data)
    BY <1>1
  <2> QED BY <1>1, <2>1, Split, Zenon
<1>6. data = line \o <<last>> /\ last \in Char
  <2>1. 1 \in 1 .. Len(data) /\ m \in 1 .. Len(data) /\ Len(data) \in 1 .. Len(data)
    BY <1>1
  <2>2. SubSeq(data, 1, m) = SubSeq(data, 1, m - 1) \o <<data[m]>>
    BY <1>1, <2>1, SubSeqRecursiveSecond
  <2>3. SubSeq(data, 1, m) = data
    BY <1>1, SubSeqFull
  <2> QED BY <1>1, <2>1, <2>2, <2>3, ElementOfSeq DEF First
<1>7. /\ pushed_back' = <<last>> /\ data' = <<>> /\ ring' = ring /\ os' = os
      /\ result' = [n |-> Len(line), text |-> line]
  BY DEF LineTooLong, Returns
<1>8. Stream!First(m) = data /\ Len(Unread) >= m
  <2>1. SubSeq(data \o r, 1, Len(data)) = data
    BY <1>3, <1>4, Parts
  <2>2. Len(data \o r) = Len(data) + Len(r) /\ Len(r) \in Nat
    BY <1>3, <1>4, ConcatProperties, LenProperties
  <2> QED BY <1>1, <1>4, <2>1, <2>2 DEF Stream!First
<1>9. line \in Seq(Received) /\ <<last>> \in Seq(Received) /\ last \in Received
  BY <1>5, <1>6, CharsReceived, One DEF Received
<1> HIDE DEF m, line, last, r
<1>10. <<last>> \o r \in Seq(Received)
  BY <1>4, <1>9, ConcatProperties
<1>11. Unread = line \o (<<last>> \o r)
  <2>1. (line \o <<last>>) \o r = line \o (<<last>> \o r)
    BY <1>4, <1>9, MoveOne
  <2> QED BY <1>4, <1>6, <2>1
<1>12. Stream!First(m - 1) = line /\ Stream!Rest(m - 1) = <<last>> \o r
  <2>1. /\ SubSeq(Unread, 1, Len(line)) = line
        /\ SubSeq(Unread, Len(line) + 1, Len(Unread)) = <<last>> \o r
    BY <1>9, <1>10, <1>11, Parts
  <2> QED BY <1>5, <2>1 DEF Stream!First, Stream!Rest
<1>13. Unread' = <<last>> \o r
  <2>1. Unread' = <<>> \o <<last>> \o ring \o os
    BY <1>7 DEF Unread
  <2>2. <<>> \o <<last>> = <<last>>
    BY <1>9, ConcatEmptySeq
  <2>3. (<<last>> \o ring) \o os = <<last>> \o (ring \o os)
    BY <1>3, <1>9, ConcatAssociative
  <2> QED BY <2>1, <2>2, <2>3 DEF r
<1>14. Stream!Plain(data)
  BY <1>1, PlainLine
<1> QED BY <1>1, <1>7, <1>8, <1>12, <1>13, <1>14
        DEF Stream!FullLine, Stream!Line, ReaderInv, TypeOK

\* A timeout: all there is belongs to the line.
LEMMA TimeOutStep ==
  ASSUME ReaderInv, TimeOut
  PROVE  Stream!PartOfLine
<1>1. /\ pushed_back = <<>> /\ ring = <<>> /\ os = <<>>
      /\ data \in Seq(Char) /\ data \in Seq(Received)
  BY UnreadParts DEF ReaderInv, TypeOK, Positions, TimeOut
<1>2. data \o <<>> = data /\ <<>> \o <<>> = <<>>
  BY <1>1, ConcatEmptySeq, EmptySeq
<1>3. Unread = data
  BY <1>1, <1>2 DEF Unread
<1>4. /\ data' = <<>> /\ pushed_back' = <<>> /\ ring' = <<>> /\ os' = <<>>
      /\ result' = IF data = <<>> THEN [n |-> -1, text |-> <<>>]
                   ELSE [n |-> Len(data), text |-> data]
  BY <1>1 DEF TimeOut, Returns
<1>5. Unread' = <<>>
  BY <1>2, <1>4 DEF Unread
<1>6. Stream!Plain(data)
  BY <1>1, PlainLine
<1> QED BY <1>3, <1>4, <1>5, <1>6
        DEF Stream!PartOfLine, Stream!Line, Stream!Timeout

\* readline implements LineStream: the characters that were sent come out in
\* order and each once, cut into whole lines, full buffers, or all there is
\* when nothing came for a timeout.
THEOREM ReaderIsStream == Spec => ReadsStream
<1>1. Init => Stream!StreamInit
  <2>1. <<>> \o <<>> = <<>>
    BY EmptySeq, ConcatEmptySeq
  <2> QED BY <2>1 DEF Init, Stream!StreamInit, Stream!Timeout, Unread
<1>2. ReaderInv /\ ReaderInv' /\ [Next]_vars
      => [Stream!StreamNext]_(Stream!streamVars)
  <2> SUFFICES ASSUME ReaderInv, ReaderInv', [Next]_vars
               PROVE  Stream!StreamNext \/ UNCHANGED <<Unread, result>>
    BY DEF Stream!streamVars
  <2> USE DEF Stream!StreamNext
  <2>0. /\ data \in Seq(Received) /\ pushed_back \in Seq(Received)
        /\ ring \in Seq(Received) /\ os \in Seq(Received)
        /\ \A s \in Seq(Received) : <<>> \o s = s /\ s \o <<>> = s
    BY UnreadParts, ConcatEmptySeq DEF ReaderInv
  <2>1. CASE Receive
    <3>1. PICK c \in Received : os' = Append(os, c)
      BY <2>1 DEF Receive, Received
    <3>2. data \o pushed_back \in Seq(Received)
      BY <2>0, ConcatProperties
    <3> DEFINE before == data \o pushed_back \o ring
    <3>3. before \in Seq(Received)
      BY <2>0, <3>2, ConcatProperties
    <3> HIDE DEF before
    <3>4. before \o os \in Seq(Received) /\ <<c>> \in Seq(Received)
      BY <2>0, <3>3, ConcatProperties, One
    <3>5. (before \o os) \o <<c>> = before \o (os \o <<c>>)
      BY <2>0, <3>3, <3>4, ConcatAssociative
    <3>6. Append(before \o os, c) = before \o Append(os, c)
      BY <2>0, <3>4, <3>5, AppendIsConcat
    <3>7. Unread' = Append(Unread, c) /\ UNCHANGED result
      BY <2>1, <3>1, <3>6 DEF Receive, Unread, before
    <3> QED BY <3>7 DEF Stream!Arrival, Received
  <2>2. CASE Call
    BY <2>0, <2>2 DEF Call, ReaderInv, Positions, Unread
  <2>3. CASE LineTooLong
    BY <2>3, FullStep
  <2>4. CASE TakePushedBack
    <3> DEFINE t == ring \o os
    <3>1. /\ pushed_back # <<>> /\ Accept(Head(pushed_back))
          /\ pushed_back' = <<>> /\ ring' = ring /\ os' = os
      BY <2>4 DEF TakePushedBack
    <3>2. t \in Seq(Received) /\ Unread = data \o (pushed_back \o t)
      BY UnreadParts DEF ReaderInv
    <3>3. Tail(pushed_back) \in Seq(Received) /\ Len(Tail(pushed_back)) = Len(pushed_back) - 1
      BY <2>0, <3>1, HeadFirst
    <3>4. Tail(pushed_back) = <<>>
      BY <2>0, <3>1, <3>3, EmptySeq DEF ReaderInv, TypeOK
    <3>5. ring' \o os' = Tail(pushed_back) \o t
      BY <2>0, <3>1, <3>2, <3>4
    <3> HIDE DEF t
    <3> QED BY <2>0, <3>1, <3>2, <3>5, TakeStep
  <2>5. CASE TakeFromRing
    <3>1. /\ ring # <<>> /\ Accept(Head(ring))
          /\ pushed_back = <<>> /\ pushed_back' = <<>> /\ ring' = Tail(ring) /\ os' = os
      BY <2>5 DEF TakeFromRing
    <3>2. Unread = data \o (ring \o os)
      BY <3>1, UnreadParts DEF ReaderInv
    <3> QED BY <2>0, <3>1, <3>2, TakeStep
  <2>6. CASE FillRing
    <3> DEFINE n == Smaller(Len(os), ReadAhead)
               block == First(os, n)
               rest == Rest(os, n)
    <3>1. CASE n = 0
      BY <2>6, <3>1 DEF FillRing, Unread
    <3>2. CASE n # 0
      <4>1. ring = <<>> /\ pushed_back = <<>>
        BY <2>6 DEF FillRing
      <4>2. n \in Nat
        BY <2>0, <4>1, LenProperties, EmptySeq DEF Smaller, ReadAhead, ReaderInv, TypeOK
      <4>3. /\ Stored(block) = block /\ block # <<>>
            /\ block \in Seq(Received) /\ rest \in Seq(Received)
            /\ os = block \o rest
        BY <3>2, <4>1, <4>2, FillFits DEF ReaderInv
      <4>4. /\ os' = rest /\ ring' = Tail(block) /\ Accept(Head(block))
            /\ pushed_back' = <<>>
        BY <2>6, <3>2, <4>1, <4>3 DEF FillRing
      <4> HIDE DEF n, block, rest
      <4>5. Unread = data \o os
        BY <2>0, <4>1 DEF Unread
      <4>6. Unread = data \o (block \o rest)
        BY <4>3, <4>5
      <4>7. ring' \o os' = Tail(block) \o rest
        BY <4>4
      <4> QED BY <4>3, <4>4, <4>6, <4>7, TakeStep
    <3> QED BY <3>1, <3>2
  <2>7. CASE TakeFromSystem
    <3>1. /\ os # <<>> /\ Accept(Head(os)) /\ ring = <<>> /\ pushed_back = <<>>
          /\ pushed_back' = <<>> /\ ring' = <<>> /\ os' = Tail(os)
      BY <2>7 DEF TakeFromSystem, ReaderInv, Positions
    <3>2. Tail(os) \in Seq(Received) /\ <<>> \in Seq(Received)
      BY <2>0, <3>1, HeadFirst, EmptySeq
    <3>3. Unread = data \o (os \o <<>>)
      BY <2>0, <3>1 DEF Unread
    <3>4. ring' \o os' = Tail(os) \o <<>>
      BY <2>0, <3>1, <3>2
    <3> QED BY <2>0, <3>1, <3>2, <3>3, <3>4, TakeStep
  <2>8. CASE TimeOut
    BY <2>8, TimeOutStep
  <2>9. CASE serial_set_baudrate
    <3>1. data' = <<>> /\ os' = <<>> /\ ring' = <<>> /\ pushed_back' = <<>> /\ result' = result
      BY <2>9 DEF serial_set_baudrate, ReaderInv, Positions
    <3>2. <<>> \o <<>> = <<>>
      BY EmptySeq, ConcatEmptySeq
    <3>3. Unread' = <<>>
      BY <3>1, <3>2 DEF Unread
    <3> QED BY <3>1, <3>3 DEF Stream!Flush
  <2>10. CASE UNCHANGED vars
    BY <2>10 DEF vars, Unread
  <2> QED BY <2>1, <2>2, <2>3, <2>4, <2>5, <2>6, <2>7, <2>8, <2>9, <2>10, Zenon DEF Next
<1> QED BY <1>1, <1>2, ReaderInvariant, PTL DEF Spec, ReadsStream, Stream!StreamSpec
=============================================================================
