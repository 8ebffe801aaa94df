----------------------------- MODULE LineStream ------------------------------
(***************************************************************************)
(* What connection_readline promises its callers: the characters the       *)
(* sensor sent, in order and each once, cut into lines.                    *)
(***************************************************************************)
EXTENDS Integers, Sequences

CONSTANTS
  Char,       \* the characters of a line
  LF,         \* the end of a line
  Sizes       \* the max_size of the calls

VARIABLES
  unread,     \* characters sent and not handed out, oldest first
  result      \* what the last call returned: a line, or Timeout

streamVars == <<unread, result>>

Timeout == [n |-> -1, text |-> <<>>]
Line(text) == [n |-> Len(text), text |-> text]

StreamInit == unread = <<>> /\ result = Timeout

Arrival == \E c \in Char \cup {LF} : unread' = Append(unread, c) /\ UNCHANGED result

Plain(s) == \A i \in DOMAIN s : s[i] # LF
First(n) == SubSeq(unread, 1, n)
Rest(n) == SubSeq(unread, n + 1, Len(unread))

\* A whole line, without its end.
WholeLine == \E n \in 0 .. Len(unread) - 1 :
  /\ Plain(First(n)) /\ unread[n + 1] = LF
  /\ result' = Line(First(n)) /\ unread' = Rest(n + 1)

\* As much of a line as fits beside the terminating NUL.
FullLine == \E m \in Sizes :
  /\ Len(unread) >= m /\ Plain(First(m))
  /\ result' = Line(First(m - 1)) /\ unread' = Rest(m - 1)

\* Nothing came for the length of a timeout: all there is, if anything.
PartOfLine ==
  /\ Plain(unread)
  /\ result' = IF unread = <<>> THEN Timeout ELSE Line(unread)
  /\ unread' = <<>>

\* A change of the baud rate.
Flush == unread' = <<>> /\ UNCHANGED result

StreamNext == Arrival \/ WholeLine \/ FullLine \/ PartOfLine \/ Flush

StreamSpec == StreamInit /\ [][StreamNext]_streamVars
=============================================================================
