----------------------------- MODULE RingBuffer -----------------------------
(***************************************************************************)
(* urg_ring_buffer.c: the byte ring that urg_serial_linux.c and            *)
(* urg_tcpclient.c keep between the operating system and their line        *)
(* readers.  One slot stays empty so that first = last means "empty".      *)
(*                                                                         *)
(* buffer_size is a power of two in the code and the indices are masked    *)
(* with buffer_size - 1; an index is at most buffer_size when it is        *)
(* masked, so the mask is Wrap below and any size of at least 2 will do.   *)
(*                                                                         *)
(* ring_write clips the block to the free space, but its wrapped branch    *)
(* copies the whole block.  Both callers ask the operating system for at   *)
(* most the free space, so the environment here does the same (Blocks).    *)
(***************************************************************************)
EXTENDS Integers, Sequences

CONSTANTS
  Byte,          \* the values a byte can take
  buffer_size    \* ring->buffer_size

ASSUME SizeAssumption == buffer_size \in Nat /\ buffer_size >= 2
ASSUME ByteAssumption == Byte # {}

VARIABLES
  buffer,        \* ring->buffer
  first,         \* ring->first: index of the oldest unread byte
  last,          \* ring->last: index of the next free slot
  pushed,        \* what ring_write returned
  popped         \* the bytes ring_read copied out

vars == <<buffer, first, last, pushed, popped>>

Slot == 0 .. buffer_size - 1

Smaller(a, b) == IF a > b THEN b ELSE a

\* "x & (buffer_size - 1)" for an index that has advanced to the end at most
Wrap_Never(x) == x  \* mutant: the mask is forgotten

Wrap(x) == IF x = buffer_size THEN 0 ELSE x

ring_size == IF last >= first THEN last - first
             ELSE buffer_size - (first - last)

ring_capacity_AllSlots == buffer_size  \* mutant: no slot is kept empty

ring_capacity == buffer_size - 1

\* byte_move: n bytes of block, from offset on, to the slots from dest on
byte_move(dest, block, offset, n) ==
  [s \in Slot |-> IF s >= dest /\ s < dest + n
                  THEN block[s - dest + offset + 1] ELSE buffer[s]]

\* byte_move out of the ring: n bytes from the slot src on
bytes(src, n) == [i \in 1 .. n |-> buffer[src + i - 1]]

Init ==
  /\ buffer \in [Slot -> Byte]        \* the array is not initialised
  /\ first = 0 /\ last = 0
  /\ pushed = 0 /\ popped = <<>>

ring_clear ==
  /\ first' = 0 /\ last' = 0
  /\ pushed' = 0 /\ popped' = <<>>
  /\ UNCHANGED buffer

(***************************************************************************)
(* ring_write: up to the end of the array and on from slot 0 when the      *)
(* unread bytes do not wrap, one move when they do.                        *)
(***************************************************************************)
WriteUnwrapped(block) ==
  LET free_size == ring_capacity - ring_size
      push_size == Smaller(Len(block), free_size)
      move_size == Smaller(push_size, buffer_size - last)
      left_size == push_size - move_size
      to_end    == byte_move(last, block, 0, move_size)
  IN  /\ first <= last
      /\ IF left_size > 0
         THEN /\ buffer' = [s \in Slot |-> IF s < left_size
                                           THEN block[move_size + s + 1]
                                           ELSE to_end[s]]
              /\ last' = left_size
         ELSE /\ buffer' = to_end
              /\ last' = Wrap(last + move_size)
      /\ pushed' = push_size

WriteWrapped(block) ==
  LET push_size == Smaller(Len(block), ring_capacity - ring_size)
  IN  /\ first > last
      /\ buffer' = byte_move(last, block, 0, Len(block))
      /\ last' = last + push_size
      /\ pushed' = push_size

ring_write(block) ==
  /\ WriteUnwrapped(block) \/ WriteWrapped(block)
  /\ popped' = <<>>
  /\ UNCHANGED first

(***************************************************************************)
(* ring_read: the mirror image.                                            *)
(***************************************************************************)
ReadUnwrapped(n) ==
  LET pop_size == Smaller(n, ring_size)
  IN  /\ first <= last
      /\ popped' = bytes(first, pop_size)
      /\ first' = first + pop_size

ReadWrapped(n) ==
  LET pop_size  == Smaller(n, ring_size)
      move_size == Smaller(pop_size, buffer_size - first)
      left_size == pop_size - move_size
  IN  /\ first > last
      /\ popped' = [i \in 1 .. pop_size |->
                      IF i <= move_size THEN buffer[first + i - 1]
                      ELSE buffer[i - move_size - 1]]
      /\ first' = IF left_size > 0 THEN left_size ELSE Wrap(first + move_size)

ring_read(n) ==
  /\ ReadUnwrapped(n) \/ ReadWrapped(n)
  /\ pushed' = 0
  /\ UNCHANGED <<buffer, last>>

-----------------------------------------------------------------------------
\* What the callers pass: blocks no longer than the free space.
Blocks == UNION {[1 .. k -> Byte] : k \in 0 .. ring_capacity - ring_size}

Next ==
  \/ \E block \in Blocks : ring_write(block)
  \/ \E n \in 0 .. buffer_size : ring_read(n)
  \/ ring_clear

Spec == Init /\ [][Next]_vars

-----------------------------------------------------------------------------
\* Types and ranges: both indices stay inside the array.
TypeOK ==
  /\ buffer \in [Slot -> Byte]
  /\ first \in Slot
  /\ last \in Slot
  /\ pushed \in 0 .. ring_capacity
  /\ popped \in Seq(Byte)
  /\ Len(popped) <= ring_capacity

(***************************************************************************)
(* The unread bytes, oldest first: the refinement mapping to RingFifo.     *)
(***************************************************************************)
SlotOf(i) == IF first + i - 1 < buffer_size THEN first + i - 1
             ELSE first + i - 1 - buffer_size

Unread == [i \in 1 .. ring_size |-> buffer[SlotOf(i)]]

Fifo == INSTANCE RingFifo WITH Capacity <- ring_capacity, queue <- Unread

\* The ring is a bounded queue: whatever the position of the indices, a write
\* appends exactly the block it was given, a read takes the oldest bytes, and
\* neither disturbs the rest (urg_ring_buffer.c, ring_write and ring_read).
RefinesFifo == Fifo!FifoSpec
=============================================================================
