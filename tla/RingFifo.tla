------------------------------ MODULE RingFifo ------------------------------
(***************************************************************************)
(* What a ring buffer promises its two users (the serial port and the TCP  *)
(* client): a bounded first-in first-out queue of bytes.  Put hands over a *)
(* block that fits, Take removes up to n bytes from the front, Clear       *)
(* empties the queue.  "pushed" and "popped" are what the last call gave   *)
(* back to its caller.                                                     *)
(***************************************************************************)
EXTENDS Naturals, Sequences

CONSTANTS
  Byte,       \* the values a byte can take
  Capacity    \* how many bytes the queue can hold

VARIABLES
  queue,      \* the unread bytes, oldest first
  pushed,     \* number of bytes stored by the last call
  popped      \* bytes returned by the last call

fifoVars == <<queue, pushed, popped>>

FifoInit == queue = <<>> /\ pushed = 0 /\ popped = <<>>

Put(block) ==
  /\ Len(queue) + Len(block) <= Capacity
  /\ queue' = queue \o block
  /\ pushed' = Len(block)
  /\ popped' = <<>>

Take(n) ==
  LET k == IF n > Len(queue) THEN Len(queue) ELSE n
  IN  /\ popped' = SubSeq(queue, 1, k)
      /\ queue' = SubSeq(queue, k + 1, Len(queue))
      /\ pushed' = 0

Clear == queue' = <<>> /\ pushed' = 0 /\ popped' = <<>>

Block == UNION {[1 .. k -> Byte] : k \in 0 .. Capacity - Len(queue)}

FifoNext ==
  \/ \E block \in Block : Put(block)
  \/ \E n \in 0 .. Capacity : Take(n)
  \/ Clear

FifoSpec == FifoInit /\ [][FifoNext]_fifoVars
=============================================================================
