-------------------------- MODULE RingBufferProofs --------------------------
(***************************************************************************)
(* Proofs about the ring buffer, for every buffer size and every set of    *)
(* byte values: its indices stay inside the array, and it implements the   *)
(* bounded queue of RingFifo.                                              *)
(***************************************************************************)
EXTENDS RingBuffer, SequenceTheorems, TLAPS

USE SizeAssumption

\* The number of unread bytes is in range and the last slot is kept free.
LEMMA SizeRange ==
  ASSUME TypeOK
  PROVE  ring_size \in 0 .. ring_capacity
BY DEF TypeOK, Slot, ring_size, ring_capacity

\* Copying n bytes of a block into the array keeps it an array of bytes.
LEMMA MoveType ==
  ASSUME TypeOK, NEW len \in Nat, NEW block \in [1 .. len -> Byte],
         NEW dest \in Nat, NEW offset \in Nat, NEW n \in Nat,
         offset + n <= len
  PROVE  byte_move(dest, block, offset, n) \in [Slot -> Byte]
BY DEF TypeOK, Slot, byte_move

LEMMA BlockLen ==
  ASSUME NEW k \in Nat, NEW block \in [1 .. k -> Byte]
  PROVE  Len(block) = k /\ block \in Seq(Byte)
OBVIOUS

\* A write that fits keeps every variable in range (ring_write).
LEMMA WriteType ==
  ASSUME TypeOK, NEW block \in Blocks, ring_write(block)
  PROVE  TypeOK'
<1>1. PICK k \in 0 .. ring_capacity - ring_size : block \in [1 .. k -> Byte]
  BY DEF Blocks
<1>2. ring_size \in 0 .. ring_capacity
  BY SizeRange
<1>3. Len(block) = k /\ k \in Nat
  BY <1>1, <1>2, BlockLen DEF ring_capacity
<1>4. Smaller(Len(block), ring_capacity - ring_size) = k
  BY <1>1, <1>2, <1>3 DEF Smaller, ring_capacity
<1>5. popped' \in Seq(Byte) /\ Len(popped') <= ring_capacity
  BY DEF ring_write, ring_capacity
<1>6. first' \in Slot
  BY DEF ring_write, TypeOK
<1>7. CASE WriteUnwrapped(block)
  <2> DEFINE m == Smaller(k, buffer_size - last)
  <2>1. m \in 0 .. k /\ last + m <= buffer_size
    BY <1>3 DEF TypeOK, Slot, Smaller
  <2>2. byte_move(last, block, 0, m) \in [Slot -> Byte]
    BY <1>1, <1>3, <2>1, MoveType DEF TypeOK, Slot
  <2>3. pushed' = k /\ pushed' \in 0 .. ring_capacity
    BY <1>1, <1>2, <1>4, <1>7 DEF WriteUnwrapped, ring_capacity
  <2>4. CASE k - m > 0
    <3>1. last' = k - m /\ last' \in Slot
      BY <1>1, <1>2, <1>4, <1>7, <2>1, <2>4 DEF WriteUnwrapped, Slot, ring_capacity
    <3>2. buffer' = [s \in Slot |-> IF s < k - m THEN block[m + s + 1]
                                    ELSE byte_move(last, block, 0, m)[s]]
      BY <1>4, <1>7, <2>4 DEF WriteUnwrapped
    <3>3. buffer' \in [Slot -> Byte]
      BY <1>1, <1>3, <2>1, <2>2, <3>2 DEF Slot
    <3> QED BY <1>5, <1>6, <2>3, <3>1, <3>3 DEF TypeOK
  <2>5. CASE ~(k - m > 0)
    <3>1. last' \in Slot
      BY <1>4, <1>7, <2>1, <2>5 DEF WriteUnwrapped, Wrap, Slot, TypeOK
    <3>2. buffer' \in [Slot -> Byte]
      BY <1>4, <1>7, <2>2, <2>5 DEF WriteUnwrapped
    <3> QED BY <1>5, <1>6, <2>3, <3>1, <3>2 DEF TypeOK
  <2> QED BY <2>4, <2>5
<1>8. CASE WriteWrapped(block)
  <2>1. buffer' \in [Slot -> Byte]
    BY <1>1, <1>3, <1>8, MoveType DEF WriteWrapped, TypeOK, Slot
  <2>2. last' = last + k /\ pushed' = k
    BY <1>4, <1>8 DEF WriteWrapped
  <2>3. last' \in Slot /\ pushed' \in 0 .. ring_capacity
    BY <1>1, <1>2, <1>8, <2>2
    DEF WriteWrapped, TypeOK, Slot, ring_size, ring_capacity
  <2> QED BY <1>5, <1>6, <2>1, <2>3 DEF TypeOK
<1> QED BY <1>7, <1>8 DEF ring_write

\* A read keeps every variable in range (ring_read).
LEMMA ReadType ==
  ASSUME TypeOK, NEW n \in 0 .. buffer_size, ring_read(n)
  PROVE  TypeOK'
<1>1. ring_size \in 0 .. ring_capacity
  BY SizeRange
<1> DEFINE p == Smaller(n, ring_size)
<1>2. p \in 0 .. ring_size
  BY <1>1 DEF Smaller, ring_capacity
<1>3. buffer' \in [Slot -> Byte] /\ last' \in Slot /\ pushed' \in 0 .. ring_capacity
  BY DEF ring_read, TypeOK, ring_capacity
<1>4. CASE ReadUnwrapped(n)
  <2>1. first' \in Slot
    BY <1>1, <1>2, <1>4 DEF ReadUnwrapped, TypeOK, Slot, ring_size
  <2>2. popped' \in [1 .. p -> Byte]
    BY <1>1, <1>2, <1>4 DEF ReadUnwrapped, TypeOK, Slot, ring_size, bytes
  <2> QED BY <1>1, <1>2, <1>3, <2>1, <2>2, BlockLen DEF TypeOK, ring_capacity
<1>5. CASE ReadWrapped(n)
  <2> DEFINE m == Smaller(p, buffer_size - first)
  <2>1. m \in 0 .. p /\ first + m <= buffer_size
    BY <1>1, <1>2 DEF TypeOK, Slot, Smaller, ring_capacity
  <2>2. p - m <= last
    BY <1>1, <1>2, <1>5 DEF ReadWrapped, TypeOK, Slot, ring_size, ring_capacity, Smaller
  <2>3. first' \in Slot
    BY <1>1, <1>2, <1>5, <2>1, <2>2 DEF ReadWrapped, Wrap, TypeOK, Slot, ring_capacity
  <2>4. popped' = [i \in 1 .. p |-> IF i <= m THEN buffer[first + i - 1]
                                    ELSE buffer[i - m - 1]]
    BY <1>5 DEF ReadWrapped
  <2>5. popped' \in [1 .. p -> Byte]
    <3> HIDE DEF m, p
    <3>1. ASSUME NEW i \in 1 .. p
          PROVE  (IF i <= m THEN first + i - 1 ELSE i - m - 1) \in Slot
      BY <1>1, <1>2, <2>1, <2>2 DEF TypeOK, Slot, ring_capacity
    <3> QED BY <2>4, <3>1 DEF TypeOK
  <2> QED BY <1>1, <1>2, <1>3, <2>3, <2>5, BlockLen DEF TypeOK, ring_capacity
<1> QED BY <1>4, <1>5 DEF ring_read

\* The indices stay inside the array and the array holds bytes, whatever the
\* order of the calls (ring_write, ring_read, ring_clear).
THEOREM RingTypes == Spec => []TypeOK
<1>1. Init => TypeOK
  BY DEF Init, TypeOK, Slot, ring_capacity
<1>2. TypeOK /\ [Next]_vars => TypeOK'
  <2> SUFFICES ASSUME TypeOK, [Next]_vars PROVE TypeOK'
    OBVIOUS
  <2>1. ASSUME NEW block \in Blocks, ring_write(block) PROVE TypeOK'
    BY <2>1, WriteType
  <2>2. ASSUME NEW n \in 0 .. buffer_size, ring_read(n) PROVE TypeOK'
    BY <2>2, ReadType
  <2>3. CASE ring_clear
    BY <2>3 DEF ring_clear, TypeOK, Slot, ring_capacity
  <2>4. CASE UNCHANGED vars
    BY <2>4 DEF vars, TypeOK
  <2> QED BY <2>1, <2>2, <2>3, <2>4 DEF Next
<1> QED BY <1>1, <1>2, PTL DEF Spec

-----------------------------------------------------------------------------
UnreadShape ==
  /\ Unread \in Seq(Byte)
  /\ Len(Unread) = ring_size
  /\ \A i \in 1 .. ring_size : Unread[i] = buffer[SlotOf(i)]

\* The unread bytes form a sequence of ring_size bytes.
LEMMA UnreadSeq == TypeOK => UnreadShape
<1> SUFFICES ASSUME TypeOK PROVE UnreadShape
  OBVIOUS
<1>1. ring_size \in Nat
  BY SizeRange DEF ring_capacity
<1>2. ASSUME NEW i \in 1 .. ring_size PROVE SlotOf(i) \in Slot
  BY <1>1, <1>2 DEF SlotOf, TypeOK, Slot, ring_size
<1>3. Unread \in [1 .. ring_size -> Byte]
  BY <1>2 DEF Unread, TypeOK
<1> QED BY <1>1, <1>3, BlockLen DEF Unread, UnreadShape

\* A write that fits appends its block to the unread bytes: the number of
\* unread bytes grows by its length, the old ones keep their place, the new
\* ones follow (ring_write, both branches).
LEMMA WriteSlots ==
  ASSUME TypeOK, NEW k \in 0 .. ring_capacity - ring_size,
         NEW block \in [1 .. k -> Byte], ring_write(block)
  PROVE  /\ ring_size' = ring_size + k
         /\ \A i \in 1 .. ring_size + k :
               buffer'[SlotOf(i)'] = IF i <= ring_size THEN buffer[SlotOf(i)]
                                     ELSE block[i - ring_size]
         /\ pushed' = k
<1>1. ring_size \in 0 .. ring_capacity /\ k \in Nat
  BY SizeRange DEF ring_capacity
<1>2. Len(block) = k
  BY <1>1, BlockLen
<1>3. Smaller(k, ring_capacity - ring_size) = k
  BY <1>1 DEF Smaller, ring_capacity
<1>4. first' = first
  BY DEF ring_write
<1>5. CASE WriteUnwrapped(block)
  <2> DEFINE m == Smaller(k, buffer_size - last)
  <2>1. m \in 0 .. k /\ last + m <= buffer_size
    BY <1>1 DEF TypeOK, Slot, Smaller
  <2>2. first <= last /\ pushed' = k /\ ring_size = last - first
    BY <1>2, <1>3, <1>5 DEF WriteUnwrapped, ring_size, TypeOK, Slot
  <2>3. CASE k - m > 0
    <3>1. last' = k - m /\ last + m = buffer_size
      BY <1>1, <1>2, <1>3, <1>5, <2>3
      DEF WriteUnwrapped, Smaller, TypeOK, Slot
    <3>2. buffer' = [s \in Slot |-> IF s < k - m THEN block[m + s + 1]
                                    ELSE byte_move(last, block, 0, m)[s]]
      BY <1>2, <1>3, <1>5, <2>3 DEF WriteUnwrapped
    <3>3. \A s \in Slot : byte_move(last, block, 0, m)[s] =
             IF s >= last /\ s < last + m THEN block[s - last + 1] ELSE buffer[s]
      BY DEF byte_move, TypeOK, Slot
    <3>4. \A s \in Slot : buffer'[s] = IF s < k - m THEN block[m + s + 1]
             ELSE IF s >= last THEN block[s - last + 1] ELSE buffer[s]
      <4> HIDE DEF m
      <4> QED BY <2>1, <3>1, <3>2, <3>3 DEF TypeOK, Slot
    <3> HIDE DEF m
    <3>5. ring_size' = ring_size + k
      BY <1>1, <1>4, <2>1, <2>2, <2>3, <3>1 DEF ring_size, TypeOK, Slot, ring_capacity
    <3>6. ASSUME NEW i \in 1 .. ring_size + k
          PROVE  buffer'[SlotOf(i)'] = IF i <= ring_size THEN buffer[SlotOf(i)]
                                       ELSE block[i - ring_size]
      <4>1. CASE i <= ring_size
        <5>1. SlotOf(i)' = first + i - 1 /\ SlotOf(i) = first + i - 1
          BY <1>1, <1>4, <2>2, <4>1 DEF SlotOf, TypeOK, Slot
        <5>2. first + i - 1 \in Slot /\ first + i - 1 < last /\ first + i - 1 >= k - m
          BY <1>1, <2>1, <2>2, <3>1, <4>1 DEF TypeOK, Slot, ring_capacity
        <5>3. buffer'[first + i - 1] = buffer[first + i - 1]
          BY <1>1, <2>1, <3>1, <3>4, <5>2 DEF TypeOK, Slot, ring_capacity
        <5> QED BY <4>1, <5>1, <5>3
      <4>2. CASE i > ring_size /\ first + i - 1 < buffer_size
        <5>1. SlotOf(i)' = first + i - 1
          BY <1>4, <4>2 DEF SlotOf, TypeOK, Slot
        <5>2. /\ first + i - 1 \in Slot /\ first + i - 1 >= last
              /\ ~(first + i - 1 < k - m) /\ (first + i - 1) - last + 1 = i - ring_size
          BY <1>1, <2>1, <2>2, <3>1, <4>2 DEF TypeOK, Slot, ring_capacity
        <5>3. buffer'[first + i - 1] = block[(first + i - 1) - last + 1]
          BY <3>4, <5>2
        <5> QED BY <1>1, <4>2, <5>1, <5>2, <5>3
      <4>3. CASE ~(first + i - 1 < buffer_size)
        <5>1. SlotOf(i)' = first + i - 1 - buffer_size
          BY <1>4, <4>3 DEF SlotOf, TypeOK, Slot
        <5>2. /\ first + i - 1 - buffer_size \in Slot
              /\ first + i - 1 - buffer_size < k - m
              /\ m + (first + i - 1 - buffer_size) + 1 = i - ring_size
              /\ i > ring_size
          BY <1>1, <2>1, <2>2, <3>1, <4>3 DEF TypeOK, Slot, ring_capacity
        <5>3. buffer'[first + i - 1 - buffer_size]
                 = block[m + (first + i - 1 - buffer_size) + 1]
          BY <3>4, <5>2
        <5> QED BY <1>1, <5>1, <5>2, <5>3
      <4> QED BY <1>1, <4>1, <4>2, <4>3
    <3> QED BY <2>2, <3>5, <3>6
  <2>4. CASE ~(k - m > 0)
    <3>1. m = k
      BY <1>1, <2>1, <2>4
    <3>2. last' = Wrap(last + k) /\ buffer' = byte_move(last, block, 0, k)
      BY <1>2, <1>3, <1>5, <2>4, <3>1 DEF WriteUnwrapped
    <3>3. \A s \in Slot : buffer'[s] =
             IF s >= last /\ s < last + k THEN block[s - last + 1] ELSE buffer[s]
      BY <1>1, <3>2 DEF byte_move, TypeOK, Slot
    <3>4. last + k <= buffer_size
      BY <2>1, <3>1
    <3> HIDE DEF m
    <3>5. ring_size' = ring_size + k
      BY <1>1, <1>4, <2>2, <3>2, <3>4 DEF ring_size, Wrap, TypeOK, Slot, ring_capacity
    <3>6. ASSUME NEW i \in 1 .. ring_size + k
          PROVE  buffer'[SlotOf(i)'] = IF i <= ring_size THEN buffer[SlotOf(i)]
                                       ELSE block[i - ring_size]
      <4>1. /\ SlotOf(i)' = first + i - 1 /\ SlotOf(i) = first + i - 1
            /\ first + i - 1 \in Slot
        BY <1>1, <1>4, <2>2, <3>4 DEF SlotOf, TypeOK, Slot
      <4>2. /\ (i <= ring_size) => first + i - 1 < last
            /\ (i > ring_size) => /\ first + i - 1 >= last
                                  /\ first + i - 1 < last + k
                                  /\ (first + i - 1) - last + 1 = i - ring_size
        BY <1>1, <2>2, <3>4 DEF TypeOK, Slot
      <4>3. CASE i <= ring_size
        <5>1. buffer'[first + i - 1] = buffer[first + i - 1]
          BY <1>1, <3>3, <4>1, <4>2, <4>3 DEF TypeOK, Slot
        <5> QED BY <4>1, <4>3, <5>1
      <4>4. CASE i > ring_size
        <5>1. buffer'[first + i - 1] = block[(first + i - 1) - last + 1]
          BY <3>3, <4>1, <4>2, <4>4
        <5> QED BY <1>1, <4>1, <4>2, <4>4, <5>1
      <4> QED BY <1>1, <4>3, <4>4
    <3> QED BY <2>2, <3>5, <3>6
  <2> QED BY <2>3, <2>4
<1>6. CASE WriteWrapped(block)
  <2>1. /\ first > last /\ last' = last + k /\ pushed' = k
        /\ buffer' = byte_move(last, block, 0, k)
    BY <1>2, <1>3, <1>6 DEF WriteWrapped
  <2>2. ring_size = buffer_size - (first - last) /\ last + k < first
    BY <1>1, <2>1 DEF ring_size, ring_capacity, TypeOK, Slot
  <2>3. ring_size' = ring_size + k
    BY <1>1, <1>4, <2>1, <2>2 DEF ring_size, TypeOK, Slot
  <2>4. \A s \in Slot : buffer'[s] =
           IF s >= last /\ s < last + k THEN block[s - last + 1] ELSE buffer[s]
    BY <1>1, <2>1 DEF byte_move, TypeOK, Slot
  <2>5. ASSUME NEW i \in 1 .. ring_size + k
        PROVE  buffer'[SlotOf(i)'] = IF i <= ring_size THEN buffer[SlotOf(i)]
                                     ELSE block[i - ring_size]
    <3>1. SlotOf(i)' = SlotOf(i) /\ SlotOf(i) \in Slot
      BY <1>1, <1>4, <2>1, <2>2 DEF SlotOf, TypeOK, Slot
    <3>2. /\ (i <= ring_size) => ~(SlotOf(i) >= last /\ SlotOf(i) < last + k)
          /\ (i > ring_size) => /\ SlotOf(i) >= last /\ SlotOf(i) < last + k
                                /\ SlotOf(i) - last + 1 = i - ring_size
      BY <1>1, <2>1, <2>2 DEF SlotOf, TypeOK, Slot
    <3> QED BY <1>1, <2>4, <3>1, <3>2
  <2> QED BY <2>1, <2>3, <2>5
<1> QED BY <1>5, <1>6 DEF ring_write

\* A read takes the oldest bytes and moves the rest up: what it copies out is
\* the front of the unread bytes, what stays is the tail (ring_read).
LEMMA ReadSlots ==
  ASSUME TypeOK, NEW n \in 0 .. buffer_size, ring_read(n),
         NEW p, p = Smaller(n, ring_size)
  PROVE  /\ p \in 0 .. ring_size
         /\ ring_size' = ring_size - p
         /\ popped' = [i \in 1 .. p |-> buffer[SlotOf(i)]]
         /\ \A i \in 1 .. ring_size - p : SlotOf(i)' = SlotOf(i + p)
         /\ buffer' = buffer /\ pushed' = 0
<1>1. ring_size \in 0 .. ring_capacity
  BY SizeRange
<1>2. p \in 0 .. ring_size
  BY <1>1 DEF Smaller, ring_capacity
<1>3. buffer' = buffer /\ last' = last /\ pushed' = 0
  BY DEF ring_read
<1>4. CASE ReadUnwrapped(n)
  <2>1. /\ first <= last /\ ring_size = last - first
        /\ first' = first + p /\ popped' = bytes(first, p)
    BY <1>4 DEF ReadUnwrapped, ring_size, TypeOK, Slot
  <2>2. ring_size' = ring_size - p
    BY <1>1, <1>2, <1>3, <2>1 DEF ring_size, TypeOK, Slot
  <2>3. ASSUME NEW i \in 1 .. p PROVE SlotOf(i) = first + i - 1
    BY <1>1, <1>2, <2>1 DEF SlotOf, TypeOK, Slot
  <2>4. popped' = [i \in 1 .. p |-> buffer[SlotOf(i)]]
    BY <2>1, <2>3 DEF bytes
  <2>5. ASSUME NEW i \in 1 .. ring_size - p PROVE SlotOf(i)' = SlotOf(i + p)
    <3>1. i \in Int /\ p \in Int /\ first \in Int
      BY <1>1, <1>2 DEF TypeOK, Slot, ring_capacity
    <3> QED BY <2>1, <3>1 DEF SlotOf
  <2> QED BY <1>2, <1>3, <2>2, <2>4, <2>5
<1>5. CASE ReadWrapped(n)
  <2> DEFINE m == Smaller(p, buffer_size - first)
  <2>1. m \in 0 .. p /\ first + m <= buffer_size /\ (m < p => first + m = buffer_size)
    BY <1>1, <1>2 DEF TypeOK, Slot, Smaller, ring_capacity
  <2>2. /\ first > last /\ ring_size = buffer_size - (first - last)
        /\ first' = IF p - m > 0 THEN p - m ELSE Wrap(first + m)
        /\ popped' = [i \in 1 .. p |-> IF i <= m THEN buffer[first + i - 1]
                                       ELSE buffer[i - m - 1]]
    BY <1>5 DEF ReadWrapped, ring_size, TypeOK, Slot
  <2> HIDE DEF m
  <2>3. ring_size' = ring_size - p
    BY <1>1, <1>2, <1>3, <2>1, <2>2 DEF ring_size, Wrap, TypeOK, Slot, ring_capacity
  <2>4. ASSUME NEW i \in 1 .. p
        PROVE  SlotOf(i) = IF i <= m THEN first + i - 1 ELSE i - m - 1
    BY <1>1, <1>2, <2>1, <2>2 DEF SlotOf, TypeOK, Slot, ring_capacity
  <2>5. popped' = [i \in 1 .. p |-> buffer[SlotOf(i)]]
    BY <2>2, <2>4
  <2>6. ASSUME NEW i \in 1 .. ring_size - p PROVE SlotOf(i)' = SlotOf(i + p)
    <3>1. /\ i \in Int /\ p \in Int /\ first \in Int /\ last \in Int /\ m \in Int
          /\ i >= 1 /\ i + p <= ring_size /\ last < buffer_size /\ last >= 0
          /\ buffer_size \in Int
      BY <1>1, <1>2, <2>1 DEF TypeOK, Slot, ring_capacity
    <3>2. CASE first + p < buffer_size
      <4>1. first' = first + p
        <5>1. p = m
          BY <2>1, <3>1, <3>2
        <5> QED BY <2>2, <3>1, <3>2, <5>1 DEF Wrap
      <4> QED BY <3>1, <4>1 DEF SlotOf
    <3>3. CASE ~(first + p < buffer_size)
      <4>1. first' = first + p - buffer_size
        <5>1. m = buffer_size - first
          BY <2>1, <3>1, <3>3
        <5>2. CASE p - m > 0
          BY <2>2, <3>1, <5>1, <5>2
        <5>3. CASE ~(p - m > 0)
          <6>1. p = m /\ first + m = buffer_size
            BY <2>1, <3>1, <5>1, <5>3
          <6>2. first' = 0
            BY <2>2, <5>3, <6>1 DEF Wrap
          <6> QED BY <3>1, <6>1, <6>2
        <5> QED BY <5>2, <5>3
      <4>2. first + p - buffer_size + i - 1 < buffer_size
        BY <2>2, <3>1
      <4>3. SlotOf(i)' = first + p - buffer_size + i - 1
        BY <3>1, <4>1, <4>2 DEF SlotOf
      <4>4. SlotOf(i + p) = first + (i + p) - 1 - buffer_size
        BY <3>1, <3>3 DEF SlotOf
      <4> QED BY <3>1, <4>3, <4>4
    <3> QED BY <3>2, <3>3
  <2> QED BY <1>2, <1>3, <2>3, <2>5, <2>6
<1> QED BY <1>4, <1>5 DEF ring_read

-----------------------------------------------------------------------------
\* ring_write is a Put of the queue.
LEMMA WriteImplementsPut ==
  ASSUME TypeOK, TypeOK', NEW block \in Blocks, ring_write(block)
  PROVE  Fifo!FifoNext
<1>1. PICK k \in 0 .. ring_capacity - ring_size : block \in [1 .. k -> Byte]
  BY DEF Blocks
<1>2. ring_size \in 0 .. ring_capacity /\ k \in Nat
  BY <1>1, SizeRange DEF ring_capacity
<1>3. block \in Seq(Byte) /\ Len(block) = k
  BY <1>1, <1>2, BlockLen
<1>4. /\ Unread \in Seq(Byte) /\ Len(Unread) = ring_size
      /\ \A i \in 1 .. ring_size : Unread[i] = buffer[SlotOf(i)]
  BY UnreadSeq DEF UnreadShape
<1>5. /\ Unread' \in Seq(Byte) /\ Len(Unread') = ring_size'
      /\ \A i \in 1 .. ring_size' : Unread'[i] = buffer'[SlotOf(i)']
  <2>1. UnreadShape'
    BY UnreadSeq, PTL
  <2> QED BY <2>1 DEF UnreadShape
<1>6. /\ ring_size' = ring_size + k
      /\ \A i \in 1 .. ring_size + k :
            buffer'[SlotOf(i)'] = IF i <= ring_size THEN buffer[SlotOf(i)]
                                  ELSE block[i - ring_size]
      /\ pushed' = k
  BY <1>1, WriteSlots
<1>7. /\ Unread \o block \in Seq(Byte)
      /\ Len(Unread \o block) = ring_size + k
      /\ \A i \in 1 .. ring_size + k : (Unread \o block)[i] =
            IF i <= ring_size THEN Unread[i] ELSE block[i - ring_size]
  BY <1>3, <1>4, ConcatProperties
<1>8. ASSUME NEW i \in 1 .. ring_size + k
      PROVE  Unread'[i] = (Unread \o block)[i]
  <2>1. Unread'[i] = IF i <= ring_size THEN buffer[SlotOf(i)] ELSE block[i - ring_size]
    BY <1>5, <1>6
  <2>2. CASE i <= ring_size
    BY <1>2, <1>4, <1>7, <2>1, <2>2
  <2>3. CASE ~(i <= ring_size)
    BY <1>7, <2>1, <2>3
  <2> QED BY <2>2, <2>3
<1>9. Unread' = Unread \o block
  BY <1>2, <1>5, <1>6, <1>7, <1>8, SeqEqual
<1>10. Len(Unread) + Len(block) <= ring_capacity
  BY <1>1, <1>2, <1>3, <1>4 DEF ring_capacity
<1>11. popped' = <<>>
  BY DEF ring_write
<1>12. Fifo!Put(block)
  BY <1>3, <1>6, <1>9, <1>10, <1>11 DEF Fifo!Put
<1>13. block \in Fifo!Block
  BY <1>1, <1>4 DEF Fifo!Block
<1> QED BY <1>12, <1>13 DEF Fifo!FifoNext

\* ring_read is a Take of the queue.
LEMMA ReadImplementsTake ==
  ASSUME TypeOK, TypeOK', NEW n \in 0 .. buffer_size, ring_read(n)
  PROVE  Fifo!FifoNext
<1> DEFINE p == Smaller(n, ring_size)
<1>1. /\ p \in 0 .. ring_size
      /\ ring_size' = ring_size - p
      /\ popped' = [i \in 1 .. p |-> buffer[SlotOf(i)]]
      /\ \A i \in 1 .. ring_size - p : SlotOf(i)' = SlotOf(i + p)
      /\ buffer' = buffer /\ pushed' = 0
  BY ReadSlots
<1>2. ring_size \in 0 .. ring_capacity
  BY SizeRange
<1> HIDE DEF p
<1>3. /\ Unread \in Seq(Byte) /\ Len(Unread) = ring_size
      /\ \A i \in 1 .. ring_size : Unread[i] = buffer[SlotOf(i)]
  BY UnreadSeq DEF UnreadShape
<1>4. /\ Unread' \in Seq(Byte) /\ Len(Unread') = ring_size'
      /\ \A i \in 1 .. ring_size' : Unread'[i] = buffer'[SlotOf(i)']
  <2>1. UnreadShape'
    BY UnreadSeq, PTL
  <2> QED BY <2>1 DEF UnreadShape
<1>5. \A i \in 1 .. ring_size : Unread[i] \in Byte
  BY <1>3, ElementOfSeq
<1>6. popped' = SubSeq(Unread, 1, p)
  <2>1. /\ SubSeq(Unread, 1, p) \in Seq(Byte)
        /\ Len(SubSeq(Unread, 1, p)) = p
        /\ \A i \in 1 .. p : SubSeq(Unread, 1, p)[i] = Unread[i]
    <3>1. p \in Int /\ \A i \in 1 .. p : Unread[i] \in Byte
      BY <1>1, <1>2, <1>5 DEF ring_capacity
    <3>2. /\ SubSeq(Unread, 1, p) \in Seq(Byte)
          /\ Len(SubSeq(Unread, 1, p)) = IF 1 <= p THEN p - 1 + 1 ELSE 0
          /\ \A i \in 1 .. p - 1 + 1 : SubSeq(Unread, 1, p)[i] = Unread[1 + i - 1]
      BY <3>1, SubSeqProperties
    <3> QED BY <1>1, <1>2, <3>2 DEF ring_capacity
  <2>2. popped' \in [1 .. p -> Byte]
    BY <1>1, <1>2, <1>3, <1>5 DEF ring_capacity
  <2>3. popped' \in Seq(Byte) /\ Len(popped') = p
    BY <1>1, <1>2, <2>2, BlockLen DEF ring_capacity
  <2>4. ASSUME NEW i \in 1 .. p PROVE popped'[i] = SubSeq(Unread, 1, p)[i]
    BY <1>1, <1>2, <1>3, <2>1 DEF ring_capacity
  <2> QED BY <2>1, <2>3, <2>4, SeqEqual
<1>7. Unread' = SubSeq(Unread, p + 1, Len(Unread))
  <2>1. /\ SubSeq(Unread, p + 1, ring_size) \in Seq(Byte)
        /\ Len(SubSeq(Unread, p + 1, ring_size)) = ring_size - p
        /\ \A i \in 1 .. ring_size - p :
              SubSeq(Unread, p + 1, ring_size)[i] = Unread[i + p]
    <3>1. /\ p + 1 \in Int /\ ring_size \in Int
          /\ \A i \in p + 1 .. ring_size : Unread[i] \in Byte
      BY <1>1, <1>2, <1>5 DEF ring_capacity
    <3>2. /\ SubSeq(Unread, p + 1, ring_size) \in Seq(Byte)
          /\ Len(SubSeq(Unread, p + 1, ring_size))
               = IF p + 1 <= ring_size THEN ring_size - (p + 1) + 1 ELSE 0
          /\ \A i \in 1 .. ring_size - (p + 1) + 1 :
                SubSeq(Unread, p + 1, ring_size)[i] = Unread[(p + 1) + i - 1]
      BY <3>1, SubSeqProperties
    <3>3. \A i \in 1 .. ring_size - p : (p + 1) + i - 1 = i + p
      BY <1>1, <1>2 DEF ring_capacity
    <3> QED BY <1>1, <1>2, <3>2, <3>3 DEF ring_capacity
  <2>2. ASSUME NEW i \in 1 .. ring_size - p
        PROVE  Unread'[i] = SubSeq(Unread, p + 1, ring_size)[i]
    <3>1. i \in 1 .. ring_size' /\ i + p \in 1 .. ring_size
      BY <1>1, <1>2 DEF ring_capacity
    <3>2. Unread'[i] = buffer[SlotOf(i + p)]
      BY <1>1, <1>4, <3>1
    <3> QED BY <1>3, <2>1, <3>1, <3>2
  <2> QED BY <1>1, <1>3, <1>4, <2>1, <2>2, SeqEqual
<1>8. Fifo!Take(p)
  BY <1>1, <1>2, <1>3, <1>6, <1>7 DEF Fifo!Take, ring_capacity
<1>9. p \in 0 .. ring_capacity
  BY <1>1, <1>2 DEF ring_capacity
<1> QED BY <1>8, <1>9 DEF Fifo!FifoNext

\* ring_clear is Clear of the queue.
LEMMA ClearImplementsClear ==
  ASSUME TypeOK, TypeOK', ring_clear
  PROVE  Fifo!FifoNext
<1>1. ring_size' = 0
  BY DEF ring_clear, ring_size
<1>2. Unread' \in Seq(Byte) /\ Len(Unread') = ring_size'
  <2>1. UnreadShape'
    BY UnreadSeq, PTL
  <2> QED BY <2>1 DEF UnreadShape
<1>3. Unread' = <<>>
  BY <1>1, <1>2, EmptySeq
<1> QED BY <1>3 DEF ring_clear, Fifo!Clear, Fifo!FifoNext

\* The ring buffer implements the bounded queue: for every buffer size and
\* every position of the indices, ring_write appends exactly its block,
\* ring_read hands out the oldest bytes in order, and nothing else changes.
THEOREM RingIsFifo == Spec => RefinesFifo
<1>1. Init => Fifo!FifoInit
  <2> SUFFICES ASSUME Init PROVE Fifo!FifoInit
    OBVIOUS
  <2>1. TypeOK /\ ring_size = 0
    BY DEF Init, TypeOK, Slot, ring_capacity, ring_size
  <2>2. Unread = <<>>
    BY <2>1, UnreadSeq, EmptySeq DEF UnreadShape
  <2> QED BY <2>2 DEF Init, Fifo!FifoInit
<1>2. TypeOK /\ TypeOK' /\ [Next]_vars => [Fifo!FifoNext]_(Fifo!fifoVars)
  <2> SUFFICES ASSUME TypeOK, TypeOK', [Next]_vars
               PROVE  [Fifo!FifoNext]_(Fifo!fifoVars)
    OBVIOUS
  <2>1. ASSUME NEW block \in Blocks, ring_write(block) PROVE Fifo!FifoNext
    BY <2>1, WriteImplementsPut
  <2>2. ASSUME NEW n \in 0 .. buffer_size, ring_read(n) PROVE Fifo!FifoNext
    BY <2>2, ReadImplementsTake
  <2>3. CASE ring_clear
    BY <2>3, ClearImplementsClear
  <2>4. CASE UNCHANGED vars
    BY <2>4 DEF vars, Fifo!fifoVars, Unread, SlotOf, ring_size
  <2> QED BY <2>1, <2>2, <2>3, <2>4 DEF Next
<1> QED BY <1>1, <1>2, RingTypes, PTL DEF Spec, RefinesFifo, Fifo!FifoSpec
=============================================================================
