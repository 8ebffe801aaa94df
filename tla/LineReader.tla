----------------------------- MODULE LineReader ------------------------------
(***************************************************************************)
(* tcpclient_readline and serial_readline: a line, one character at a      *)
(* time, out of the ring, or, when the ring is empty, out of what the      *)
(* operating system has received.                                          *)
(*                                                                         *)
(* A readline is not atomic: the operating system receives characters      *)
(* while it runs.  The ring is the queue that RingBuffer is proved to be.  *)
(***************************************************************************)
EXTENDS Integers, Sequences

CONSTANTS
  Char,           \* the characters of a line
  LF,             \* the end of a line: '\n' or '\r'
  Sizes,          \* the max_size of the calls
  Types,          \* "serial", "ethernet"
  ring_capacity,  \* of the ring of either kind of connection
  MaxWaiting      \* bound: the peer waits while so many characters are unread

ASSUME ReaderAssumption ==
  /\ LF \notin Char
  /\ Sizes \subseteq Nat \ {0, 1}
  /\ Types \subseteq {"serial", "ethernet"}
  /\ ring_capacity \in Nat \ {0}
  /\ MaxWaiting \in Nat

VARIABLES
  type,           \* connection->type
  os,             \* received by the operating system, not read
  ring,           \* the unread characters of the ring
  pushed_back,    \* the character put back by the last readline, if any
  data,           \* the characters of the line so far
  max_size,
  pc,             \* "idle", or in the loop: "next" character, "wait" for one
  result          \* what the last readline returned

vars == <<type, os, ring, pushed_back, data, max_size, pc, result>>

Smaller(a, b) == IF a > b THEN b ELSE a
First(s, n) == SubSeq(s, 1, n)
Rest(s, n) == SubSeq(s, n + 1, Len(s))

Init ==
  /\ type \in Types /\ max_size \in Sizes
  /\ os = <<>> /\ ring = <<>> /\ pushed_back = <<>> /\ data = <<>>
  /\ pc = "idle" /\ result = [n |-> -1, text |-> <<>>]

\* The sensor sends; the operating system receives, at any time.
Receive ==
  /\ Len(data) + Len(pushed_back) + Len(ring) + Len(os) < MaxWaiting
  /\ \E c \in Char \cup {LF} : os' = Append(os, c)
  /\ UNCHANGED <<type, ring, pushed_back, data, max_size, pc, result>>

\* The TCP reader takes back its pushed-back character before it starts.
Call ==
  /\ pc = "idle" /\ pc' = "next"
  /\ max_size' \in Sizes
  /\ IF type = "ethernet" THEN data' = pushed_back /\ pushed_back' = <<>>
     ELSE UNCHANGED <<data, pushed_back>>
  /\ UNCHANGED <<type, os, ring, result>>

Returns(text, timedOut) ==
  /\ pc' = "idle" /\ data' = <<>>
  /\ result' = IF text = <<>> /\ timedOut THEN [n |-> -1, text |-> <<>>]
               ELSE [n |-> Len(text), text |-> text]

\* One more character: it ends the line or belongs to it.
Accept(c) ==
  IF c = LF THEN Returns(data, FALSE)
  ELSE data' = Append(data, c) /\ pc' = "next" /\ UNCHANGED result

Full_Late == Len(data) > max_size  \* mutant: off by one
Full == Len(data) >= max_size

\* No room is left for the NUL: the last character is put back.
LineTooLong ==
  /\ pc = "next" /\ Full
  /\ pushed_back' = <<data[Len(data)]>>
  /\ Returns(First(data, Len(data) - 1), FALSE)
  /\ UNCHANGED <<type, os, ring, max_size>>

\* serial_read gives the character put back before anything else.
TakePushedBack ==
  /\ pc = "next" /\ ~Full /\ pushed_back # <<>>
  /\ Accept(Head(pushed_back))
  /\ pushed_back' = <<>>
  /\ UNCHANGED <<type, os, ring, max_size>>

TakeFromRing ==
  /\ pc = "next" /\ ~Full /\ pushed_back = <<>> /\ ring # <<>>
  /\ Accept(Head(ring))
  /\ ring' = Tail(ring)
  /\ UNCHANGED <<type, os, pushed_back, max_size>>

\* How much is asked of the operating system at a time.  More than the ring
\* holds would be lost: ring_write stores what fits.
ReadAhead_RingSize == ring_capacity + 1 - Len(ring)  \* mutant: no slot is kept empty
ReadAhead == ring_capacity - Len(ring)

Stored(block) == ring \o First(block, Smaller(Len(block), ring_capacity - Len(ring)))

\* An empty ring is filled with what has been received, without waiting.
FillRing ==
  /\ pc = "next" /\ ~Full /\ pushed_back = <<>> /\ ring = <<>>
  /\ LET n == Smaller(Len(os), ReadAhead)
         stored == Stored(First(os, n))
     IN  IF n = 0
         THEN pc' = "wait" /\ UNCHANGED <<os, ring, data, result>>
         ELSE /\ os' = Rest(os, n)
              /\ ring' = Tail(stored)
              /\ Accept(Head(stored))
  /\ UNCHANGED <<type, pushed_back, max_size>>

\* Nothing was there: the next character does not go through the ring.
TakeFromSystem ==
  /\ pc = "wait" /\ os # <<>>
  /\ os' = Tail(os)
  /\ Accept(Head(os))
  /\ UNCHANGED <<type, ring, pushed_back, max_size>>

TimeOut ==
  /\ pc = "wait" /\ os = <<>>
  /\ Returns(data, TRUE)
  /\ UNCHANGED <<type, os, ring, pushed_back, max_size>>

\* A change of the baud rate throws away all that was received at the old one.
serial_set_baudrate ==
  /\ pc = "idle" /\ type = "serial"
  /\ os' = <<>> /\ ring' = <<>> /\ pushed_back' = <<>>
  /\ UNCHANGED <<type, data, max_size, pc, result>>

Next ==
  \/ Receive \/ Call \/ LineTooLong \/ TakePushedBack \/ TakeFromRing \/ FillRing
  \/ TakeFromSystem \/ TimeOut \/ serial_set_baudrate

Spec == Init /\ [][Next]_vars

-----------------------------------------------------------------------------
\* The values of every variable.  A line and the NUL after it stay inside the
\* caller's buffer.
TypeOK ==
  /\ type \in {"serial", "ethernet"}
  /\ os \in Seq(Char \cup {LF})
  /\ ring \in Seq(Char \cup {LF}) /\ Len(ring) <= ring_capacity
  /\ pushed_back \in Seq(Char) /\ Len(pushed_back) <= 1
  /\ max_size \in Sizes
  /\ data \in Seq(Char) /\ Len(data) <= max_size
  /\ pc \in {"idle", "next", "wait"}
  /\ result \in [n : Nat \cup {-1}, text : Seq(Char)]
  /\ pc # "next" => Len(data) < max_size

\* The characters not handed out yet, oldest first, wherever they are.
Unread == data \o pushed_back \o ring \o os

Stream == INSTANCE LineStream WITH unread <- Unread

\* Whatever the sizes of the pieces in which characters arrive, and whenever
\* they do, readline hands out the stream of the sensor: nothing is lost,
\* repeated or reordered between the character put back, the ring and the
\* operating system, and a timeout comes with all there is.
ReadsStream == Stream!StreamSpec
=============================================================================
