---------------------------- MODULE UrgOpenProofs ----------------------------
(***************************************************************************)
(* Proofs about urg_open, for every sensor, every line, however late and   *)
(* noisy, and every kind of connection: a sensor that urg_open marks       *)
(* active is ready, at the rate asked for, with nothing under way.  And on *)
(* a line that is calm, every sensor that is there is found.               *)
(***************************************************************************)
EXTENDS UrgOpen, SequenceTheorems, TLAPS

InScip == {"echo", "status", "body", "scip_done"}

\* The thread is in, or drains on its way to, one of these places.
Bound(places) == pc \in places \/ (pc = "drain" /\ resume \in places)

\* A rate is being tried; the rate asked for is in use.
Trying == \/ (pc \in InScip /\ cmd \in {"QT", "TM2", "SCIP2.0"})
          \/ Bound({"old_protocol", "change"})
Settled == cmd = "PP" \/ Bound({"changed", "connected"})

\* Where the thread is, and at which rate.
Placed ==
  /\ pc = "drain" => resume # "idle"
  /\ Trying \/ Settled \/ pc \in InScip => try <= 3
  /\ cmd = "PP" => pc \in InScip \cup {"done"}
  /\ urg.is_active => pc = "done" /\ cmd = "PP"
  /\ type # "ethernet" /\ Trying => hostRate = TryList[try]
  /\ type # "ethernet" /\ Settled => hostRate = baudrate

\* A sensor hears what is sent at its rate, and everything on a socket.
Hears(link, rate, at) == link = "ethernet" \/ at = rate

QTHeard(link, rate, sent, n) ==
  \E j \in 1 .. n : sent[j].c = "QT" /\ Hears(link, rate, sent[j].at)

\* The echo of the command has been read and nothing has failed since.
EchoRead == pc \in {"status", "body"} \/ (pc = "scip_done" /\ ret = "OK")

\* No rate is being tried or in use.
Between == {"idle", "try", "failed", "connect_failed", "done"}

\* A sensor that measures has not heard a command yet, and the first one it
\* will hear is QT.
Unheard ==
  sensor.mode = "measuring" =>
    /\ \A i \in DOMAIN rx : rx[i].k \in {"scan", "noise"}
    /\ \A i \in DOMAIN tx : Hears(type, sensor.rate, tx[i].at) =>
                            QTHeard(type, sensor.rate, tx, i)
    /\ pc \notin Between /\ Hears(type, sensor.rate, hostRate) =>
         QTHeard(type, sensor.rate, tx, Len(tx))
    /\ ~EchoRead

\* SS names a rate; PP is the last command there is.
Sent ==
  /\ pc = "idle" => tx = <<>>
  /\ \A i \in DOMAIN tx :
       /\ tx[i].c = "SS" => tx[i].arg \in Rates
       /\ tx[i].c = "PP" => cmd = "PP" /\ i = Len(tx) /\ tx[i].at = hostRate

\* PP has been answered: there are no more commands, and the sensor does not
\* change any more.
Told == /\ tx = <<>> /\ cmd = "PP"
        /\ sensor.mode \in {"ready", "tm", "scip1"} /\ SameRate

EchoOfPP(line) == line.k = "echo" /\ line.v = "PP"

\* Counted from the end, lines and answer agree.
EndsIn(lines, answer) ==
  \A i \in DOMAIN lines :
    LET j == i + Len(answer) - Len(lines)
    IN  j > 0 => lines[i].k = answer[j].k /\ lines[i].v = answer[j].v

\* The lines kept of an answer of which so many are unread, unless one was lost.
Kept(kept, unread, answer) ==
  /\ Len(kept) + unread <= Len(answer) - 1
  /\ Len(kept) + unread = Len(answer) - 1 =>
       \A i \in DOMAIN kept : kept[i] = answer[i + 1].v

\* The answer to PP, while it comes, while it is read and afterwards.
AnswerComes(lines, answer) ==
  \A i \in DOMAIN lines :
    EchoOfPP(lines[i]) => i = Len(lines) - Len(answer) + 1 /\ EndsIn(lines, answer)

AnswerRead ==
  LET answer == Answer("PP")
  IN  /\ (\E i \in DOMAIN rx : EchoOfPP(rx[i])) => Told
      /\ AnswerComes(rx, answer)
      /\ cmd = "PP" /\ pc \in {"status", "body"} =>
           /\ Told /\ Len(rx) < Len(answer)
           /\ EndsIn(rx, answer) /\ Kept(got, Len(rx), answer)
      /\ cmd = "PP" /\ pc \in {"echo", "status"} => got = <<>>
      /\ cmd = "PP" /\ pc = "scip_done" /\ ret = "OK" =>
           Told /\ rx = <<>> /\ Kept(got, 1, answer)
      /\ urg.is_active =>
           Told /\ rx = <<>> /\ Kept(got, 1, answer) /\ AllLines

OpenInv == TypeOK /\ Placed /\ Unheard /\ Sent /\ AnswerRead

-----------------------------------------------------------------------------
\* Sequences.

LEMMA Taken ==
  ASSUME NEW S, NEW s \in Seq(S), s # <<>>
  PROVE  /\ Len(s) \in Nat \ {0} /\ Head(s) \in S /\ Head(s) = s[1]
         /\ Tail(s) \in Seq(S) /\ Len(Tail(s)) = Len(s) - 1
         /\ DOMAIN Tail(s) = 1 .. Len(s) - 1
         /\ \A i \in 1 .. Len(s) - 1 : Tail(s)[i] = s[i + 1]
<1>1. Len(s) \in Nat \ {0} /\ Head(s) = s[1]
  BY EmptySeq
<1>2. /\ Head(s) \in S /\ Tail(s) \in Seq(S) /\ Len(Tail(s)) = Len(s) - 1
      /\ \A i \in 1 .. Len(Tail(s)) : Tail(s)[i] = s[i + 1]
  BY HeadTailProperties
<1> QED BY <1>1, <1>2, LenProperties

LEMMA Added ==
  ASSUME NEW S, NEW s \in Seq(S), NEW e \in S, NEW t, t = Append(s, e)
  PROVE  /\ t \in Seq(S) /\ Len(t) = Len(s) + 1
         /\ Len(s) \in Nat /\ DOMAIN s = 1 .. Len(s) /\ DOMAIN t = 1 .. Len(s) + 1
         /\ t[Len(s) + 1] = e
         /\ \A i \in 1 .. Len(s) : t[i] = s[i]
BY AppendProperties, LenProperties

LEMMA Joined ==
  ASSUME NEW S, NEW s \in Seq(S), NEW t \in Seq(S), NEW u, u = s \o t
  PROVE  /\ u \in Seq(S) /\ Len(u) = Len(s) + Len(t)
         /\ Len(s) \in Nat /\ Len(t) \in Nat
         /\ DOMAIN u = 1 .. Len(s) + Len(t)
         /\ \A i \in 1 .. Len(s) : u[i] = s[i]
         /\ \A i \in 1 .. Len(t) : u[Len(s) + i] = t[i]
<1>1. /\ u \in Seq(S) /\ Len(u) = Len(s) + Len(t)
      /\ \A i \in 1 .. Len(s) + Len(t) :
           u[i] = IF i <= Len(s) THEN s[i] ELSE t[i - Len(s)]
  BY ConcatProperties
<1>2. Len(s) \in Nat /\ Len(t) \in Nat /\ DOMAIN u = 1 .. Len(u)
  BY <1>1, LenProperties
<1>3. ASSUME NEW i \in 1 .. Len(s)
      PROVE  u[i] = s[i]
  BY <1>1, <1>2, <1>3
<1>4. ASSUME NEW i \in 1 .. Len(t)
      PROVE  u[Len(s) + i] = t[i]
  <2>1. Len(s) + i \in 1 .. Len(s) + Len(t) /\ ~(Len(s) + i <= Len(s)) /\ Len(s) + i - Len(s) = i
    BY <1>2, <1>4
  <2> QED BY <1>1, <2>1
<1> QED BY <1>1, <1>2, <1>3, <1>4

LEMMA Elements ==
  ASSUME NEW S, NEW s \in Seq(S)
  PROVE  Len(s) \in Nat /\ DOMAIN s = 1 .. Len(s) /\ \A i \in 1 .. Len(s) : s[i] \in S
BY LenProperties, ElementOfSeq

LEMMA One ==
  ASSUME NEW S, NEW e \in S
  PROVE  <<e>> \in Seq(S) /\ Len(<<e>>) = 1 /\ <<e>>[1] = e
OBVIOUS

LEMMA Two ==
  ASSUME NEW S, NEW a \in S, NEW b \in S
  PROVE  <<a, b>> \in Seq(S) /\ Len(<<a, b>>) = 2 /\ <<a, b>>[1] = a /\ <<a, b>>[2] = b
OBVIOUS

LEMMA Constant ==
  ASSUME NEW S, NEW e \in S, NEW n \in Nat
  PROVE  [i \in 1 .. n |-> e] \in Seq(S) /\ Len([i \in 1 .. n |-> e]) = n
<1>1. \A i \in 1 .. n : e \in S
  OBVIOUS
<1> QED BY <1>1, IsASeq

\* An answer without parameters, and with two.
LEMMA Short ==
  ASSUME NEW S, NEW a \in S, NEW b \in S, NEW d \in S
  PROVE  LET s == <<a, b>> \o <<>> \o <<d>>
         IN  s \in Seq(S) /\ Len(s) = 3 /\ s[1] = a /\ s[2] = b /\ s[3] = d
<1>1. SUFFICES ASSUME NEW t, t = <<a, b>>, NEW u, u = <<d>>,
                      NEW s, s = t \o u
               PROVE  s \in Seq(S) /\ Len(s) = 3 /\ s[1] = a /\ s[2] = b /\ s[3] = d
  <2>1. <<a, b>> \o <<>> = <<a, b>>
    BY Two, ConcatEmptySeq
  <2> QED BY <2>1
<1>2. /\ t \in Seq(S) /\ Len(t) = 2 /\ t[1] = a /\ t[2] = b
      /\ u \in Seq(S) /\ Len(u) = 1 /\ u[1] = d
  BY <1>1, One, Two
<1>3. /\ s \in Seq(S) /\ Len(s) = Len(t) + Len(u)
      /\ \A i \in 1 .. Len(t) : s[i] = t[i]
      /\ \A i \in 1 .. Len(u) : s[Len(t) + i] = u[i]
  BY ONLY <1>1, <1>2, Joined
<1>4. s[1] = t[1] /\ s[2] = t[2] /\ s[2 + 1] = u[1]
  BY ONLY <1>2, <1>3
<1> QED BY ONLY <1>2, <1>3, <1>4

LEMMA Long ==
  ASSUME NEW S, NEW a \in S, NEW b \in S, NEW d \in S, NEW e \in S, NEW f \in S
  PROVE  LET s == <<a, b>> \o <<e, f>> \o <<d>>
         IN  /\ s \in Seq(S) /\ Len(s) = 5
             /\ s[1] = a /\ s[2] = b /\ s[3] = e /\ s[4] = f /\ s[5] = d
<1>1. SUFFICES ASSUME NEW t, t = <<a, b>>, NEW m, m = <<e, f>>, NEW u, u = <<d>>,
                      NEW v, v = t \o m, NEW s, s = v \o u
               PROVE  /\ s \in Seq(S) /\ Len(s) = 5 /\ s[1] = a /\ s[2] = b
                      /\ s[3] = e /\ s[4] = f /\ s[5] = d
  OBVIOUS
<1>2. /\ t \in Seq(S) /\ Len(t) = 2 /\ t[1] = a /\ t[2] = b
      /\ m \in Seq(S) /\ Len(m) = 2 /\ m[1] = e /\ m[2] = f
      /\ u \in Seq(S) /\ Len(u) = 1 /\ u[1] = d
  BY <1>1, One, Two
<1>3. /\ v \in Seq(S) /\ Len(v) = Len(t) + Len(m)
      /\ \A i \in 1 .. Len(t) : v[i] = t[i]
      /\ \A i \in 1 .. Len(m) : v[Len(t) + i] = m[i]
  BY ONLY <1>1, <1>2, Joined
<1>4. v[1] = t[1] /\ v[2] = t[2] /\ v[2 + 1] = m[1] /\ v[2 + 2] = m[2] /\ Len(v) = 4
  BY ONLY <1>2, <1>3
<1>5. /\ s \in Seq(S) /\ Len(s) = Len(v) + Len(u)
      /\ \A i \in 1 .. Len(v) : s[i] = v[i]
      /\ \A i \in 1 .. Len(u) : s[Len(v) + i] = u[i]
  BY ONLY <1>1, <1>2, <1>3, Joined
<1>6. s[1] = v[1] /\ s[2] = v[2] /\ s[3] = v[3] /\ s[4] = v[4] /\ s[4 + 1] = u[1]
  BY ONLY <1>2, <1>4, <1>5
<1> QED BY ONLY <1>2, <1>4, <1>5, <1>6

-----------------------------------------------------------------------------
\* Types.

Messages == [c : Commands, arg : Rates \cup {0}, at : Rates]

Fields == [is_active : BOOLEAN, is_sending : BOOLEAN, is_laser_on : BOOLEAN,
           last_errno : Error \cup {"NO_ERROR"}]

LEMMA TryListRates ==
  ASSUME baudrate \in Rates, NEW i \in 1 .. 3
  PROVE  TryList[i] \in Rates
BY DEF TryList, Base, Rates

LEMMA TextTypes ==
  ASSUME NEW k \in {"echo", "stat", "par", "lf", "scan", "noise"}, NEW v \in Texts
  PROVE  Text(k, v) \in Lines
BY DEF Text, Lines

LEMMA StatusTypes ==
  ASSUME NEW c
  PROVE  Status(c) \in {"00", "0", "0E", "0F", "E"}
BY DEF Status

\* The lines of an answer, one by one.
LEMMA AnswerLines ==
  ASSUME NEW c \in Commands
  PROVE  /\ Answer(c) \in Seq(Lines)
         /\ Answer(c)[1] = Text("echo", c) /\ Answer(c)[2] = Text("stat", Status(c))
         /\ Answer(c)[Len(Answer(c))] = Text("lf", "")
         /\ ~(c = "PP" /\ Status(c) = "00") => Len(Answer(c)) = 3
         /\ c = "PP" /\ Status(c) = "00" =>
              /\ Len(Answer(c)) = 5
              /\ Answer(c)[3] = Text("par", "MODL") /\ Answer(c)[4] = Text("par", "DMIN")
<1> DEFINE e == Text("echo", c)
           s == Text("stat", Status(c))
           l == Text("lf", "")
           p == Text("par", "MODL")
           q == Text("par", "DMIN")
<1>1. e \in Lines /\ s \in Lines /\ l \in Lines /\ p \in Lines /\ q \in Lines
  BY TextTypes, StatusTypes DEF Texts
<1>2. Answer(c) = (<<e, s>> \o Body(c)) \o <<l>>
  BY DEF Answer
<1>3. Body(c) = IF c = "PP" /\ Status(c) = "00" THEN <<p, q>> ELSE <<>>
  BY DEF Body, Parameters
<1> HIDE DEF e, s, l, p, q
<1>4. CASE ~(c = "PP" /\ Status(c) = "00")
  <2>1. Answer(c) = <<e, s>> \o <<>> \o <<l>>
    BY <1>2, <1>3, <1>4
  <2>2. /\ Answer(c) \in Seq(Lines) /\ Len(Answer(c)) = 3
        /\ Answer(c)[1] = e /\ Answer(c)[2] = s /\ Answer(c)[3] = l
    BY <1>1, <2>1, Short
  <2> QED BY <1>4, <2>2 DEF e, s, l
<1>5. CASE c = "PP" /\ Status(c) = "00"
  <2>1. Answer(c) = <<e, s>> \o <<p, q>> \o <<l>>
    BY <1>2, <1>3, <1>5
  <2>2. /\ Answer(c) \in Seq(Lines) /\ Len(Answer(c)) = 5
        /\ Answer(c)[1] = e /\ Answer(c)[2] = s /\ Answer(c)[3] = p
        /\ Answer(c)[4] = q /\ Answer(c)[5] = l
    BY <1>1, <2>1, Long
  <2> QED BY <1>5, <2>2 DEF e, s, l, p, q
<1> QED BY <1>4, <1>5

LEMMA HeardTypes ==
  ASSUME NEW lines \in Seq(Lines)
  PROVE  /\ Heard(lines) \in Seq(Lines) /\ Len(Heard(lines)) = Len(lines)
         /\ SameRate => Heard(lines) = lines
         /\ \A i \in 1 .. Len(lines) : Heard(lines)[i] \in {lines[i], Text("noise", "")}
<1>1. Text("noise", "") \in Lines
  BY TextTypes DEF Texts
<1>2. Len(lines) \in Nat /\ DOMAIN lines = 1 .. Len(lines)
  BY Elements
<1>3. [i \in 1 .. Len(lines) |-> Text("noise", "")] \in Seq(Lines)
      /\ Len([i \in 1 .. Len(lines) |-> Text("noise", "")]) = Len(lines)
  BY <1>1, <1>2, Constant
<1> QED BY <1>2, <1>3 DEF Heard

\* What a read finds.
LEMMA Found ==
  ASSUME TypeOK, NEW line \in Arrivals, Consume(line)
  PROVE  /\ line = Nothing => rx' = rx
         /\ line # Nothing => /\ rx # <<>> /\ line = rx[1] /\ line \in Lines
                              /\ rx' = Tail(rx)
         /\ rx' \in Seq(Lines)
<1>1. CASE line = Nothing
  BY <1>1 DEF Consume, TypeOK
<1>2. CASE line # Nothing
  <2>1. rx # <<>> /\ line = Head(rx) /\ rx' = Tail(rx)
    BY <1>2 DEF Arrivals, Consume
  <2> QED BY <1>2, <2>1, Taken DEF TypeOK
<1> QED BY <1>1, <1>2

LEMMA WorldTypes ==
  ASSUME TypeOK
  PROVE  /\ world.sensor \in [mode : Modes, rate : Rates]
         /\ world.request \in Rates /\ world.noise \in Nat
BY OpenAssumption DEF TypeOK, World

\* A command that is sent.
LEMMA ScipTypes ==
  ASSUME TypeOK, NEW c \in Commands, NEW arg \in Rates \cup {0}, NEW r \in Rates, Scip(c, arg, r)
  PROVE  /\ cmd' = c /\ cmd' \in Commands /\ good' \in BOOLEAN /\ got' \in Seq(Texts)
         /\ tx' \in Seq(Messages) /\ pc' = "echo"
         /\ Len(tx') = Len(tx) + 1 /\ tx'[Len(tx) + 1] = [c |-> c, arg |-> arg, at |-> r]
         /\ \A i \in 1 .. Len(tx) : tx'[i] = tx[i]
         /\ Len(tx) \in Nat /\ DOMAIN tx = 1 .. Len(tx) /\ DOMAIN tx' = 1 .. Len(tx) + 1
<1>1. [c |-> c, arg |-> arg, at |-> r] \in Messages /\ tx \in Seq(Messages)
  BY DEF Messages, TypeOK
<1>2. /\ cmd' = c /\ good' = FALSE /\ got' = <<>> /\ pc' = "echo"
      /\ tx' = Append(tx, [c |-> c, arg |-> arg, at |-> r])
  BY DEF Scip
<1>3. /\ tx' \in Seq(Messages) /\ Len(tx') = Len(tx) + 1
      /\ Len(tx) \in Nat /\ DOMAIN tx = 1 .. Len(tx) /\ DOMAIN tx' = 1 .. Len(tx) + 1
      /\ tx'[Len(tx) + 1] = [c |-> c, arg |-> arg, at |-> r]
      /\ \A i \in 1 .. Len(tx) : tx'[i] = tx[i]
  BY ONLY <1>1, <1>2, Added
<1>4. <<>> \in Seq(Texts)
  BY EmptySeq
<1> QED BY ONLY <1>2, <1>3, <1>4, c \in Commands

LEMMA DrainWithQTTypes ==
  ASSUME TypeOK, NEW p \in {"change", "try"}, DrainWithQT(p)
  PROVE  /\ urg' \in Fields /\ urg'.is_active = urg.is_active
         /\ tx' \in Seq(Messages)
         /\ \/ pc' = p /\ resume' = resume
            \/ pc' = "drain" /\ resume' = p
         /\ Len(tx) \in Nat /\ DOMAIN tx = 1 .. Len(tx)
         /\ \/ tx' = tx
            \/ /\ Len(tx') = Len(tx) + 1
               /\ tx'[Len(tx) + 1] = [c |-> "QT", arg |-> 0, at |-> hostRate]
               /\ DOMAIN tx' = 1 .. Len(tx) + 1
               /\ \A i \in 1 .. Len(tx) : tx'[i] = tx[i]
<1>1. CASE ~urg.is_sending /\ ~urg.is_laser_on
  <2>1. tx' = tx /\ urg' = urg /\ Drain(p)
    BY <1>1 DEF DrainWithQT
  <2> QED BY <2>1, LenProperties DEF Drain, TypeOK, Fields, Messages
<1>2. CASE ~(~urg.is_sending /\ ~urg.is_laser_on)
  <2>1. /\ tx' = Append(tx, [c |-> "QT", arg |-> 0, at |-> hostRate]) /\ Drain(p)
        /\ urg' = [urg EXCEPT !.is_laser_on = FALSE]
    BY <1>2 DEF DrainWithQT
  <2>2. [c |-> "QT", arg |-> 0, at |-> hostRate] \in Messages /\ tx \in Seq(Messages)
    BY DEF Messages, TypeOK, Commands
  <2>3. urg' \in Fields /\ urg'.is_active = urg.is_active
    BY <2>1 DEF TypeOK, Fields
  <2>4. /\ tx' \in Seq(Messages) /\ Len(tx') = Len(tx) + 1
        /\ Len(tx) \in Nat /\ DOMAIN tx = 1 .. Len(tx) /\ DOMAIN tx' = 1 .. Len(tx) + 1
        /\ tx'[Len(tx) + 1] = [c |-> "QT", arg |-> 0, at |-> hostRate]
        /\ \A i \in 1 .. Len(tx) : tx'[i] = tx[i]
    BY ONLY <2>1, <2>2, Added
  <2>5. (pc' = p /\ resume' = resume) \/ (pc' = "drain" /\ resume' = p)
    BY <2>1 DEF Drain
  <2> QED BY <2>3, <2>4, <2>5
<1> QED BY <1>1, <1>2

LEMMA SetBaudrateTypes ==
  ASSUME TypeOK, NEW r \in Rates, SetBaudrate(r)
  PROVE  /\ hostRate' \in Rates /\ rx' \in Seq(Lines)
         /\ rx' = rx \/ rx' = <<>>
         /\ hostRate' = IF type = "ethernet" THEN hostRate ELSE r
<1>1. type \in {"serial", "com", "ethernet"} /\ rx \in Seq(Lines) /\ hostRate \in Rates
  BY DEF TypeOK, Connections
<1>2. <<>> \in Seq(Lines)
  BY EmptySeq
<1>3. CASE type = "serial"
  BY <1>2, <1>3 DEF SetBaudrate, SetBaudrateLinux
<1>4. CASE type = "com"
  BY <1>1, <1>4 DEF SetBaudrate, SetBaudrateWindows
<1>5. CASE type = "ethernet"
  BY <1>1, <1>5 DEF SetBaudrate
<1> QED BY <1>1, <1>3, <1>4, <1>5

LEMMA AfterTypes ==
  ASSUME TypeOK, NEW c \in Commands, NEW r, c = "SS" => r \in Rates
  PROVE  /\ After(c, r) \in [mode : Modes, rate : Rates]
         /\ After(c, r).mode = "measuring" =>
              sensor.mode = "measuring" /\ c # "QT" /\ (c # "SS" => After(c, r).rate = sensor.rate)
         /\ c # "SS" => After(c, r).rate = sensor.rate
BY DEF After, TypeOK, Modes, Commands

LEMMA ScipReturnsTypes ==
  ASSUME TypeOK, NEW r \in Error \cup {"OK"}, ScipReturns(r)
  PROVE  /\ ret' = r /\ pc' = "scip_done" /\ urg' \in Fields
         /\ urg'.is_active = urg.is_active /\ good' = good /\ got' = got
BY DEF ScipReturns, TypeOK, Fields

LEMMA SensorCommandTypes ==
  ASSUME TypeOK, Sent, SensorCommand
  PROVE  /\ sensor' \in [mode : Modes, rate : Rates] /\ tx' \in Seq(Messages)
         /\ rx' \in Seq(Lines) /\ noise' \in Nat
<1>1. tx \in Seq(Messages) /\ tx # <<>> /\ tx' = Tail(tx) /\ noise' = noise
  BY DEF SensorCommand, TypeOK, Messages
<1>2. /\ Len(tx) \in Nat \ {0} /\ Head(tx) \in Messages /\ Head(tx) = tx[1]
      /\ Tail(tx) \in Seq(Messages)
  BY <1>1, Taken
<1>3. Head(tx).c \in Commands /\ (Head(tx).c = "SS" => Head(tx).arg \in Rates)
  BY <1>1, <1>2, LenProperties DEF Messages, Sent
<1>4. Heard(Answer(Head(tx).c)) \in Seq(Lines)
  BY <1>3, AnswerLines, HeardTypes
<1>5. rx \o Heard(Answer(Head(tx).c)) \in Seq(Lines)
  BY <1>4, ConcatProperties DEF TypeOK
<1>6. After(Head(tx).c, Head(tx).arg) \in [mode : Modes, rate : Rates]
  BY <1>3, AfterTypes
<1> QED BY <1>1, <1>2, <1>5, <1>6 DEF SensorCommand, TypeOK

LEMMA EnvironmentTypes ==
  ASSUME TypeOK, Sent, SensorCommand \/ SensorScan \/ LoseLine \/ DamageLine
  PROVE  /\ sensor' \in [mode : Modes, rate : Rates] /\ tx' \in Seq(Messages)
         /\ rx' \in Seq(Lines) /\ noise' \in Nat
<1>1. /\ tx \in Seq(Messages) /\ rx \in Seq(Lines) /\ noise \in Nat
      /\ sensor \in [mode : Modes, rate : Rates]
  BY DEF TypeOK, Messages
<1>2. CASE SensorCommand
  BY <1>2, SensorCommandTypes
<1>3. CASE SensorScan
  <2>1. Text("scan", "") \in Lines
    BY TextTypes DEF Texts
  <2>2. Heard(<<Text("scan", "")>>) \in Seq(Lines)
    BY <2>1, One, HeardTypes
  <2>3. rx \o Heard(<<Text("scan", "")>>) \in Seq(Lines)
    BY <1>1, <2>2, ConcatProperties
  <2> QED BY <1>1, <1>3, <2>3 DEF SensorScan
<1>4. CASE LoseLine
  <2>1. Tail(rx) \in Seq(Lines)
    BY <1>1, <1>4, Taken DEF LoseLine
  <2> QED BY <1>1, <1>4, <2>1 DEF LoseLine
<1>5. CASE DamageLine
  <2>1. Tail(rx) \in Seq(Lines) /\ Head(rx) \in Lines
    BY <1>1, <1>5, Taken DEF DamageLine
  <2>2. [Head(rx) EXCEPT !.ok = FALSE] \in Lines
    BY <2>1 DEF Lines
  <2>3. <<[Head(rx) EXCEPT !.ok = FALSE]>> \o Tail(rx) \in Seq(Lines)
    BY <2>1, <2>2, One, ConcatProperties
  <2> QED BY <1>1, <1>5, <2>3 DEF DamageLine
<1> QED BY <1>2, <1>3, <1>4, <1>5

Resumes == {"idle", "old_protocol", "change", "changed", "try"}
Places == {"idle", "try", "echo", "status", "body", "scip_done", "drain",
           "old_protocol", "change", "changed", "connected", "connect_failed",
           "done", "failed"}

\* A read of scip_response.
LEMMA ScipReadTypes ==
  ASSUME TypeOK, ScipEcho \/ ScipStatus \/ ScipBody, UNCHANGED world
  PROVE  TypeOK'
<1> USE DEF TypeOK, Messages, Fields, Places
<1>1. CASE ScipEcho
  <2>1. PICK line \in Arrivals :
          /\ Consume(line)
          /\ \/ ScipReturns("NO_RESPONSE") \/ ScipReturns("INVALID_RESPONSE")
             \/ ScipGoesOn("status") /\ UNCHANGED <<good, got>>
    BY <1>1 DEF ScipEcho
  <2>2. rx' \in Seq(Lines)
    BY <2>1, Found
  <2>3. urg' \in Fields /\ ret' \in Error \cup {"OK"} /\ pc' \in Places /\ UNCHANGED <<good, got>>
    <3>1. CASE ScipReturns("NO_RESPONSE") \/ ScipReturns("INVALID_RESPONSE")
      BY <3>1, ScipReturnsTypes DEF Error, Places
    <3>2. CASE ScipGoesOn("status") /\ UNCHANGED <<good, got>>
      BY <3>2 DEF ScipGoesOn, Places
    <3> QED BY <2>1, <3>1, <3>2
  <2> QED BY <1>1, <2>2, <2>3 DEF ScipEcho, openVars
<1>2. CASE ScipStatus
  <2>1. PICK line \in Arrivals :
          /\ Consume(line)
          /\ \/ ScipReturns("NO_RESPONSE") \/ ScipReturns("INVALID_RESPONSE")
             \/ ScipReturns("CHECKSUM_ERROR")
             \/ /\ line.k = "stat" /\ good' \in BOOLEAN /\ got' = <<line.v>>
                /\ ScipGoesOn("body")
    BY <1>2 DEF ScipStatus
  <2>2. rx' \in Seq(Lines)
    BY <2>1, Found
  <2>3. urg' \in Fields /\ ret' \in Error \cup {"OK"} /\ pc' \in Places
        /\ good' \in BOOLEAN /\ got' \in Seq(Texts)
    <3>1. CASE ScipReturns("NO_RESPONSE") \/ ScipReturns("INVALID_RESPONSE")
               \/ ScipReturns("CHECKSUM_ERROR")
      BY <3>1, ScipReturnsTypes DEF Error, Places
    <3>2. CASE /\ line.k = "stat" /\ good' \in BOOLEAN /\ got' = <<line.v>>
               /\ ScipGoesOn("body")
      <4>1. line # Nothing
        <5>1. Nothing.k # "stat"
          BY DEF Nothing, Text
        <5>2. line.k = "stat"
          BY <3>2
        <5> QED BY ONLY <5>1, <5>2
      <4>2. line \in Lines
        BY <2>1, <4>1, Found
      <4>3. got' \in Seq(Texts)
        BY <3>2, <4>2, One DEF Lines
      <4> QED BY <3>2, <4>3 DEF ScipGoesOn, Places
    <3> QED BY <2>1, <3>1, <3>2
  <2> QED BY <1>2, <2>2, <2>3 DEF ScipStatus, openVars
<1>3. CASE ScipBody
  <2>1. PICK line \in Arrivals :
          /\ Consume(line)
          /\ \/ ScipReturns("NO_RESPONSE") \/ ScipReturns("OK") \/ ScipReturns("UNKNOWN_ERROR")
             \/ ScipReturns("CHECKSUM_ERROR")
             \/ /\ line # Nothing /\ got' = Append(got, line.v)
                /\ ScipGoesOn("body") /\ UNCHANGED good
    BY <1>3 DEF ScipBody
  <2>2. rx' \in Seq(Lines)
    BY <2>1, Found
  <2>3. urg' \in Fields /\ ret' \in Error \cup {"OK"} /\ pc' \in Places
        /\ good' \in BOOLEAN /\ got' \in Seq(Texts)
    <3>1. CASE ScipReturns("NO_RESPONSE") \/ ScipReturns("OK") \/ ScipReturns("UNKNOWN_ERROR")
               \/ ScipReturns("CHECKSUM_ERROR")
      BY <3>1, ScipReturnsTypes DEF Error, Places
    <3>2. CASE /\ line # Nothing /\ got' = Append(got, line.v)
               /\ ScipGoesOn("body") /\ UNCHANGED good
      <4>1. line.v \in Texts
        BY <2>1, <3>2, Found DEF Lines
      <4>2. got' \in Seq(Texts)
        BY <3>2, <4>1, Added
      <4> QED BY <3>2, <4>2 DEF ScipGoesOn, Places
    <3> QED BY <2>1, <3>1, <3>2
  <2> QED BY <1>3, <2>2, <2>3 DEF ScipBody, openVars
<1> QED BY <1>1, <1>2, <1>3

LEMMA HostStepTypes ==
  ASSUME TypeOK, Placed, HostStep, UNCHANGED world
  PROVE  TypeOK'
<1> USE DEF TypeOK, Messages, Fields, Places, Resumes, sensorVars, openVars, scipVars
<1>1. CASE Open
  <2>1. type' \in Connections
    BY <1>1, OpenAssumption DEF Open
  <2>2. baudrate' \in Rates /\ hostRate' \in Rates
    BY <1>1, WorldTypes DEF Open, Rates
  <2>3. urg' \in Fields
    <3>1. urg' = [urg EXCEPT !.is_active = FALSE, !.is_sending = TRUE,
                             !.last_errno = "NOT_CONNECTED"]
      BY <1>1 DEF Open
    <3>2. "NOT_CONNECTED" \in Error
      BY DEF Error
    <3>3. urg \in Fields
      OBVIOUS
    <3> QED BY ONLY <3>1, <3>2, <3>3 DEF Fields
  <2> QED BY <1>1, <2>1, <2>2, <2>3 DEF Open
<1>2. CASE OpenFails
  BY <1>2, OpenAssumption DEF OpenFails, Connections, Error
<1>3. CASE Try
  <2>1. TryList[try] \in Rates
    BY <1>3, TryListRates DEF Try
  <2>2. hostRate' \in Rates /\ rx' \in Seq(Lines)
    BY <1>3, <2>1, SetBaudrateTypes DEF Try
  <2>3. /\ cmd' \in Commands /\ good' \in BOOLEAN /\ got' \in Seq(Texts)
        /\ tx' \in Seq(Messages) /\ pc' = "echo"
    BY <1>3, <2>1, ScipTypes DEF Try, Commands
  <2> QED BY <1>3, <2>2, <2>3 DEF Try
<1>4. CASE NotDetected
  BY <1>4 DEF NotDetected, Error
<1>5. CASE ScipEcho \/ ScipStatus \/ ScipBody
  BY <1>5, ScipReadTypes
<1>6. CASE ignore_receive_data
  <2>1. PICK line \in Arrivals :
          /\ Consume(line)
          /\ IF line = Nothing
             THEN pc' = resume /\ urg' = [urg EXCEPT !.is_sending = FALSE]
             ELSE UNCHANGED <<pc, urg>>
    BY <1>6 DEF ignore_receive_data
  <2>2. rx' \in Seq(Lines)
    BY <2>1, Found
  <2>3. urg' \in Fields /\ pc' \in Places
    BY <2>1
  <2> QED BY <1>6, <2>2, <2>3 DEF ignore_receive_data
<1>7. CASE AnsweredOldProtocol
  BY <1>7 DEF AnsweredOldProtocol, Drain
<1>8. CASE AnsweredTimeStampMode
  <2>1. /\ cmd' \in Commands /\ good' \in BOOLEAN /\ got' \in Seq(Texts)
        /\ tx' \in Seq(Messages) /\ pc' = "echo"
    BY <1>8, ScipTypes DEF AnsweredTimeStampMode, Commands
  <2> QED BY <1>8, <2>1 DEF AnsweredTimeStampMode
<1>9. CASE Answered
  BY <1>9 DEF Answered
<1>10. CASE AnsweredWithData
  <2>1. /\ urg' \in Fields /\ tx' \in Seq(Messages)
        /\ pc' \in {"change", "drain"} /\ resume' \in Resumes
    BY <1>10, DrainWithQTTypes DEF AnsweredWithData
  <2> QED BY <1>10, <2>1 DEF AnsweredWithData
<1>11. CASE TryNext
  <2>1. /\ urg' \in Fields /\ tx' \in Seq(Messages) /\ pc' \in {"try", "drain"}
        /\ resume' \in Resumes
    <3>1. CASE ret = "OK"
      BY <1>11, <3>1 DEF TryNext
    <3>2. CASE ret # "OK"
      BY <1>11, <3>2, DrainWithQTTypes DEF TryNext
    <3> QED BY <3>1, <3>2
  <2>2. try' \in 1 .. 4
    BY <1>11 DEF TryNext, NextRate, ScipDone, Placed, Trying, InScip
  <2> QED BY <1>11, <2>1, <2>2 DEF TryNext
<1>12. CASE OldProtocol
  <2>1. /\ cmd' \in Commands /\ good' \in BOOLEAN /\ got' \in Seq(Texts)
        /\ tx' \in Seq(Messages) /\ pc' = "echo"
    BY <1>12, ScipTypes DEF OldProtocol, Commands
  <2> QED BY <1>12, <2>1 DEF OldProtocol
<1>13. CASE SwitchedMode
  BY <1>13 DEF SwitchedMode, Drain
<1>14. CASE ChangeNothing
  BY <1>14 DEF ChangeNothing
<1>15. CASE change_sensor_baudrate
  <2>1. /\ cmd' \in Commands /\ good' \in BOOLEAN /\ got' \in Seq(Texts)
        /\ tx' \in Seq(Messages) /\ pc' = "echo"
    BY <1>15, ScipTypes DEF change_sensor_baudrate, Commands
  <2> QED BY <1>15, <2>1 DEF change_sensor_baudrate
<1>16. CASE SensorChanged
  <2>1. hostRate' \in Rates /\ rx' \in Seq(Lines)
    BY <1>16, SetBaudrateTypes DEF SensorChanged
  <2>2. pc' \in {"changed", "drain"} /\ resume' \in Resumes
    BY <1>16 DEF SensorChanged, Drain
  <2> QED BY <1>16, <2>1, <2>2 DEF SensorChanged
<1>17. CASE Changed
  BY <1>17 DEF Changed
<1>18. CASE SensorNotChanged
  BY <1>18 DEF SensorNotChanged, Error
<1>19. CASE ConnectFailed
  BY <1>19 DEF ConnectFailed, OpenReturns
<1>20. CASE Connected
  <2>1. /\ cmd' \in Commands /\ good' \in BOOLEAN /\ got' \in Seq(Texts)
        /\ tx' \in Seq(Messages) /\ pc' = "echo"
    BY <1>20, ScipTypes DEF Connected, Commands
  <2>2. urg' \in Fields
    BY <1>20 DEF Connected
  <2> QED BY <1>20, <2>1, <2>2 DEF Connected
<1>21. CASE receive_parameter
  <2>1. Parameter \in Error \cup {"OK"}
    BY DEF Parameter, Error
  <2>2. urg' \in Fields
    BY <1>21, <2>1 DEF receive_parameter
  <2> QED BY <1>21, <2>1, <2>2 DEF receive_parameter, OpenReturns
<1> QED BY <1>1, <1>2, <1>3, <1>4, <1>5, <1>6, <1>7, <1>8, <1>9, <1>10, <1>11, <1>12,
           <1>13, <1>14, <1>15, <1>16, <1>17, <1>18, <1>19, <1>20, <1>21 DEF HostStep

-----------------------------------------------------------------------------
\* The steps of the host, by what the rest of the invariant sees of them.

\* scip_response reads a line.
LEMMA ScipReads ==
  ASSUME TypeOK, ScipEcho \/ ScipStatus \/ ScipBody
  PROVE  /\ pc \in {"echo", "status", "body"} /\ pc' \in InScip
         /\ urg'.is_active = urg.is_active
         /\ UNCHANGED <<sensor, tx, openVars, cmd, resume>>
         /\ rx' = rx \/ (rx # <<>> /\ rx' = Tail(rx))
         /\ ~EchoRead' \/ pc \in {"status", "body"} \/ (rx # <<>> /\ rx[1] = Text("echo", cmd))
<1>1. CASE ScipEcho
  <2>1. PICK line \in Arrivals :
          /\ Consume(line)
          /\ \/ ScipReturns("NO_RESPONSE") \/ ScipReturns("INVALID_RESPONSE")
             \/ line = Text("echo", cmd) /\ ScipGoesOn("status")
    BY <1>1 DEF ScipEcho
  <2>2. rx' = rx \/ (rx # <<>> /\ rx' = Tail(rx))
    BY <2>1, Found
  <2>3. ASSUME line = Text("echo", cmd)
        PROVE  rx # <<>> /\ rx[1] = Text("echo", cmd)
    <3>1. line # Nothing
      BY <2>3 DEF Nothing, Text
    <3> QED BY <2>1, <2>3, <3>1, Found
  <2>4. CASE ScipReturns("NO_RESPONSE") \/ ScipReturns("INVALID_RESPONSE")
    <3>1. pc' = "scip_done" /\ ret' # "OK" /\ urg'.is_active = urg.is_active
      BY <2>4, ScipReturnsTypes DEF Error
    <3> QED BY <1>1, <2>2, <3>1 DEF ScipEcho, InScip, EchoRead
  <2>5. CASE line = Text("echo", cmd) /\ ScipGoesOn("status")
    BY <1>1, <2>2, <2>3, <2>5 DEF ScipEcho, InScip, ScipGoesOn
  <2> QED BY <2>1, <2>4, <2>5
<1>2. CASE ScipStatus
  <2>1. PICK line \in Arrivals :
          /\ Consume(line)
          /\ \/ ScipReturns("NO_RESPONSE") \/ ScipReturns("INVALID_RESPONSE")
             \/ ScipReturns("CHECKSUM_ERROR") \/ ScipGoesOn("body")
    BY <1>2 DEF ScipStatus
  <2>2. rx' = rx \/ (rx # <<>> /\ rx' = Tail(rx))
    BY <2>1, Found
  <2>3. pc' \in InScip /\ urg'.is_active = urg.is_active
    BY <2>1, ScipReturnsTypes DEF ScipGoesOn, InScip, Error
  <2> QED BY <1>2, <2>2, <2>3 DEF ScipStatus
<1>3. CASE ScipBody
  <2>1. PICK line \in Arrivals :
          /\ Consume(line)
          /\ \/ ScipReturns("NO_RESPONSE") \/ ScipReturns("OK")
             \/ ScipReturns("UNKNOWN_ERROR")
             \/ ScipReturns("CHECKSUM_ERROR") \/ ScipGoesOn("body")
    BY <1>3 DEF ScipBody
  <2>2. rx' = rx \/ (rx # <<>> /\ rx' = Tail(rx))
    BY <2>1, Found
  <2>3. pc' \in InScip /\ urg'.is_active = urg.is_active
    BY <2>1, ScipReturnsTypes DEF ScipGoesOn, InScip, Error
  <2> QED BY <1>3, <2>2, <2>3 DEF ScipBody
<1> QED BY <1>1, <1>2, <1>3

\* A line is read and thrown away, or the drain is over.
LEMMA Drains ==
  ASSUME TypeOK, ignore_receive_data
  PROVE  /\ pc = "drain" /\ pc' \in {"drain", resume} /\ urg'.is_active = urg.is_active
         /\ UNCHANGED <<sensor, tx, noise, openVars, scipVars, resume, ret>>
         /\ rx' = rx \/ (rx # <<>> /\ rx' = Tail(rx))
<1>1. PICK line \in Arrivals :
        /\ Consume(line)
        /\ IF line = Nothing
           THEN pc' = resume /\ urg' = [urg EXCEPT !.is_sending = FALSE]
           ELSE UNCHANGED <<pc, urg>>
  BY DEF ignore_receive_data
<1>2. rx' = rx \/ (rx # <<>> /\ rx' = Tail(rx))
  BY <1>1, Found
<1>3. pc = "drain"
  BY DEF ignore_receive_data
<1>4. pc' \in {"drain", resume} /\ urg'.is_active = urg.is_active
  BY <1>1, <1>3 DEF TypeOK
<1> QED BY <1>2, <1>3, <1>4 DEF ignore_receive_data

-----------------------------------------------------------------------------
\* Placed

LEMMA TryListKept ==
  ASSUME baudrate' = baudrate
  PROVE  TryList' = TryList
BY DEF TryList

LEMMA PlacedReads ==
  ASSUME TypeOK, Placed, pc \in InScip, pc' \in InScip, UNCHANGED <<openVars, cmd, resume>>,
         urg'.is_active = urg.is_active
  PROVE  Placed'
BY TryListKept DEF Placed, Trying, Settled, Bound, InScip, openVars

LEMMA PlacedStep ==
  ASSUME TypeOK, Placed, HostStep
  PROVE  Placed'
<1> USE DEF sensorVars, openVars, scipVars
<1>1. CASE Open
  BY <1>1 DEF Open, Placed, Trying, Settled, Bound, InScip, TypeOK
<1>2. CASE OpenFails
  BY <1>2 DEF OpenFails, Placed, Trying, Settled, Bound, InScip, TypeOK
<1>3. CASE Try
  <2>1. TryList[try] \in Rates /\ TryList' = TryList
    BY <1>3, TryListRates, TryListKept DEF Try, TypeOK
  <2>2. hostRate' = IF type = "ethernet" THEN hostRate ELSE TryList[try]
    BY <1>3, <2>1, SetBaudrateTypes DEF Try
  <2>3. cmd' = "QT" /\ pc' = "echo"
    BY <1>3 DEF Try, Scip
  <2> QED BY <1>3, <2>1, <2>2, <2>3 DEF Try, Placed, Trying, Settled, Bound, InScip
<1>4. CASE NotDetected
  BY <1>4 DEF NotDetected, Placed, Trying, Settled, Bound, InScip, TypeOK
<1>5. CASE ScipEcho \/ ScipStatus \/ ScipBody
  BY <1>5, ScipReads, PlacedReads DEF InScip
<1>6. CASE ignore_receive_data
  <2>1. TryList' = TryList
    BY <1>6, TryListKept DEF ignore_receive_data
  <2>2. resume \in Resumes
    BY DEF TypeOK, Resumes
  <2> QED BY <1>6, <2>1, <2>2, Drains DEF Placed, Trying, Settled, Bound, InScip, Resumes
<1>7. CASE AnsweredOldProtocol
  BY <1>7, TryListKept
     DEF AnsweredOldProtocol, Drain, ScipDone, Placed, Trying, Settled, Bound, InScip
<1>8. CASE AnsweredTimeStampMode
  BY <1>8, TryListKept
     DEF AnsweredTimeStampMode, Scip, ScipDone, Placed, Trying, Settled, Bound, InScip
<1>9. CASE Answered
  BY <1>9, TryListKept DEF Answered, ScipDone, Placed, Trying, Settled, Bound, InScip
<1>10. CASE AnsweredWithData
  <2>1. /\ urg'.is_active = urg.is_active
        /\ (pc' = "change" /\ resume' = resume) \/ (pc' = "drain" /\ resume' = "change")
    BY <1>10, DrainWithQTTypes DEF AnsweredWithData
  <2> QED BY <1>10, <2>1, TryListKept
          DEF AnsweredWithData, ScipDone, Placed, Trying, Settled, Bound, InScip
<1>11. CASE TryNext
  <2>1. /\ urg'.is_active = urg.is_active
        /\ (pc' = "try" /\ resume' = resume) \/ (pc' = "drain" /\ resume' = "try")
    BY <1>11, DrainWithQTTypes DEF TryNext
  <2> QED BY <1>11, <2>1 DEF TryNext, ScipDone, Placed, Trying, Settled, Bound, InScip
<1>12. CASE OldProtocol
  BY <1>12, TryListKept DEF OldProtocol, Scip, Placed, Trying, Settled, Bound, InScip
<1>13. CASE SwitchedMode
  BY <1>13, TryListKept DEF SwitchedMode, Drain, ScipDone, Placed, Trying, Settled, Bound, InScip
<1>14. CASE ChangeNothing
  BY <1>14 DEF ChangeNothing, Placed, Trying, Settled, Bound, InScip, TypeOK
<1>15. CASE change_sensor_baudrate
  BY <1>15 DEF change_sensor_baudrate, Scip, Placed, Trying, Settled, Bound, InScip
<1>16. CASE SensorChanged
  <2>1. hostRate' = IF type = "ethernet" THEN hostRate ELSE baudrate
    BY <1>16, SetBaudrateTypes DEF SensorChanged, TypeOK
  <2> QED BY <1>16, <2>1 DEF SensorChanged, Drain, ScipDone, Placed, Trying, Settled, Bound, InScip
<1>17. CASE Changed
  BY <1>17 DEF Changed, Placed, Trying, Settled, Bound, InScip, TypeOK
<1>18. CASE SensorNotChanged
  BY <1>18 DEF SensorNotChanged, ScipDone, Placed, Trying, Settled, Bound, InScip, TypeOK
<1>19. CASE ConnectFailed
  BY <1>19 DEF ConnectFailed, OpenReturns, Placed, Trying, Settled, Bound, InScip, TypeOK
<1>20. CASE Connected
  BY <1>20 DEF Connected, Scip, Placed, Trying, Settled, Bound, InScip, TypeOK
<1>21. CASE receive_parameter
  BY <1>21 DEF receive_parameter, OpenReturns, ScipDone, Placed, Trying, Settled, Bound, InScip
<1> QED BY <1>1, <1>2, <1>3, <1>4, <1>5, <1>6, <1>7, <1>8, <1>9, <1>10, <1>11, <1>12,
           <1>13, <1>14, <1>15, <1>16, <1>17, <1>18, <1>19, <1>20, <1>21 DEF HostStep

\* A scan is a line of its own at the end.
LEMMA Scanned ==
  ASSUME TypeOK, SensorScan
  PROVE  /\ sensor.mode = "measuring" /\ UNCHANGED <<sensor, tx>>
         /\ Len(rx) \in Nat /\ DOMAIN rx = 1 .. Len(rx) /\ DOMAIN rx' = 1 .. Len(rx) + 1
         /\ \A i \in 1 .. Len(rx) : rx'[i] = rx[i]
         /\ rx'[Len(rx) + 1].k \in {"scan", "noise"}
<1>1. /\ sensor.mode = "measuring" /\ UNCHANGED <<sensor, tx>> /\ rx \in Seq(Lines)
      /\ rx' = rx \o Heard(<<Text("scan", "")>>)
  BY DEF SensorScan, TypeOK
<1>2. PICK e, f : e = Text("scan", "") /\ f = Text("noise", "")
  OBVIOUS
<1>3. e \in Lines /\ e.k = "scan" /\ f.k = "noise"
  BY <1>2, TextTypes DEF Texts, Text
<1>4. PICK s : s = <<e>>
  OBVIOUS
<1>5. s \in Seq(Lines) /\ Len(s) = 1 /\ s[1] = e
  BY <1>3, <1>4, One
<1>6. PICK h : h = Heard(s)
  OBVIOUS
<1>7. h \in Seq(Lines) /\ Len(h) = 1 /\ h[1].k \in {"scan", "noise"}
  <2>1. s \in Seq(Lines)
    BY <1>5
  <2>2. /\ h \in Seq(Lines) /\ Len(h) = Len(s)
        /\ \A i \in 1 .. Len(s) : h[i] \in {s[i], f}
    BY ONLY <1>2, <1>6, <2>1, HeardTypes
  <2>3. 1 \in 1 .. Len(s)
    BY <1>5
  <2>4. h[1] \in {s[1], f}
    BY ONLY <2>2, <2>3
  <2> QED BY <1>3, <1>5, <2>2, <2>4
<1>8. rx' = rx \o h /\ rx \in Seq(Lines)
  BY <1>1, <1>2, <1>4, <1>6
<1>9. /\ DOMAIN rx' = 1 .. Len(rx) + Len(h) /\ Len(rx) \in Nat
      /\ \A i \in 1 .. Len(rx) : rx'[i] = rx[i]
      /\ \A i \in 1 .. Len(h) : rx'[Len(rx) + i] = h[i]
  <2>1. h \in Seq(Lines)
    BY <1>7
  <2> QED BY ONLY <1>8, <2>1, Joined
<1>10. DOMAIN rx = 1 .. Len(rx)
  BY <1>1, LenProperties
<1>11. DOMAIN rx' = 1 .. Len(rx) + 1 /\ rx'[Len(rx) + 1] = h[1]
  <2>1. 1 \in 1 .. Len(h)
    BY <1>7
  <2>2. rx'[Len(rx) + 1] = h[1]
    BY ONLY <1>9, <2>1
  <2> QED BY <1>7, <1>9, <2>2
<1> QED BY <1>1, <1>7, <1>9, <1>10, <1>11

\* Damage does not change which line it was.
LEMMA Damaged ==
  ASSUME TypeOK, DamageLine
  PROVE  /\ UNCHANGED <<sensor, tx>> /\ rx # <<>> /\ rx' # <<>>
         /\ Len(rx) \in Nat /\ DOMAIN rx = 1 .. Len(rx) /\ DOMAIN rx' = 1 .. Len(rx)
         /\ Len(rx') = Len(rx)
         /\ \A i \in 1 .. Len(rx) : rx'[i].k = rx[i].k /\ rx'[i].v = rx[i].v
<1>1. rx \in Seq(Lines) /\ rx # <<>> /\ UNCHANGED <<sensor, tx>>
      /\ rx' = <<[Head(rx) EXCEPT !.ok = FALSE]>> \o Tail(rx)
  BY DEF DamageLine, TypeOK
<1>2. /\ Len(rx) \in Nat \ {0} /\ DOMAIN rx = 1 .. Len(rx) /\ rx[1] \in Lines /\ Head(rx) = rx[1]
      /\ Tail(rx) \in Seq(Lines) /\ Len(Tail(rx)) = Len(rx) - 1
      /\ \A i \in 1 .. Len(rx) - 1 : Tail(rx)[i] = rx[i + 1]
  BY <1>1, Taken, LenProperties
<1>3. PICK e : e = [Head(rx) EXCEPT !.ok = FALSE]
  OBVIOUS
<1>4. e \in Lines /\ e.k = rx[1].k /\ e.v = rx[1].v
  BY <1>2, <1>3 DEF Lines
<1>5. PICK s, t : s = <<e>> /\ t = Tail(rx)
  OBVIOUS
<1>6. s \in Seq(Lines) /\ Len(s) = 1 /\ s[1] = e
  BY <1>4, <1>5, One
<1>7. rx' = s \o t /\ t \in Seq(Lines)
  BY <1>1, <1>2, <1>3, <1>5
<1>8. /\ rx' \in Seq(Lines) /\ Len(rx') = Len(s) + Len(t) /\ DOMAIN rx' = 1 .. Len(s) + Len(t)
      /\ \A i \in 1 .. Len(s) : rx'[i] = s[i]
      /\ \A i \in 1 .. Len(t) : rx'[Len(s) + i] = t[i]
  <2>1. s \in Seq(Lines)
    BY <1>6
  <2> QED BY ONLY <1>7, <2>1, Joined
<1>9. Len(rx') = Len(rx) /\ DOMAIN rx' = 1 .. Len(rx) /\ rx'[1] = e
  BY <1>2, <1>5, <1>6, <1>8
<1>10. ASSUME NEW i \in 1 .. Len(rx)
       PROVE  rx'[i].k = rx[i].k /\ rx'[i].v = rx[i].v
  <2>1. CASE i = 1
    BY <1>4, <1>9, <2>1
  <2>2. CASE i # 1
    <3>1. /\ i - 1 \in 1 .. Len(rx) - 1 /\ 1 + (i - 1) = i /\ (i - 1) + 1 = i
      BY <1>2, <2>2
    <3>2. rx'[1 + (i - 1)] = t[i - 1] /\ t[i - 1] = rx[(i - 1) + 1]
      BY <1>2, <1>5, <1>6, <1>8, <3>1
    <3> QED BY <3>1, <3>2
  <2> QED BY <2>1, <2>2
<1> QED BY <1>1, <1>2, <1>8, <1>9, <1>10, EmptySeq

-----------------------------------------------------------------------------
\* Unheard

\* Nothing is sent, at most something is read.
LEMMA UnheardKept ==
  ASSUME TypeOK, Unheard, UNCHANGED <<sensor, tx, type, hostRate>>,
         rx' = rx \/ rx' = <<>> \/ (rx # <<>> /\ rx' = Tail(rx)),
         pc' \in Between \/ pc \notin Between,
         EchoRead' => sensor.mode # "measuring"
  PROVE  Unheard'
<1> SUFFICES ASSUME sensor.mode = "measuring"
             PROVE  Unheard'
  BY DEF Unheard
<1>1. rx \in Seq(Lines)
  BY DEF TypeOK
<1>2. \A i \in DOMAIN rx' : rx'[i].k \in {"scan", "noise"}
  <2>1. CASE rx' = rx
    BY <2>1 DEF Unheard
  <2>2. CASE rx' = <<>>
    BY <2>2
  <2>3. CASE rx # <<>> /\ rx' = Tail(rx)
    <3>1. Len(rx) \in Nat \ {0} /\ DOMAIN Tail(rx) = 1 .. Len(rx) - 1
          /\ \A i \in 1 .. Len(rx) - 1 : Tail(rx)[i] = rx[i + 1]
      BY <1>1, <2>3, Taken
    <3>2. DOMAIN rx = 1 .. Len(rx)
      BY <1>1, LenProperties
    <3>3. \A i \in 1 .. Len(rx) - 1 : i + 1 \in DOMAIN rx
      BY <3>1, <3>2
    <3> QED BY <2>3, <3>1, <3>3 DEF Unheard
  <2> QED BY <2>1, <2>2, <2>3
<1> QED BY <1>2 DEF Unheard, QTHeard, Hears

\* A command is sent: QT, or another one at a rate at which QT was sent.
LEMMA UnheardSent ==
  ASSUME TypeOK, Unheard, UNCHANGED <<sensor, type>>, rx' = rx \/ rx' = <<>>,
         NEW m \in Messages, tx' = Append(tx, m), ~EchoRead',
         (m.c = "QT" /\ m.at = hostRate') \/
           (m.at = hostRate /\ hostRate' = hostRate /\ pc \notin Between)
           \/ (m.c = "QT" /\ type = "ethernet")
  PROVE  Unheard'
<1> SUFFICES ASSUME sensor.mode = "measuring"
             PROVE  Unheard'
  BY DEF Unheard
<1>1. /\ tx \in Seq(Messages) /\ Len(tx') = Len(tx) + 1 /\ Len(tx) \in Nat
      /\ DOMAIN tx = 1 .. Len(tx) /\ DOMAIN tx' = 1 .. Len(tx) + 1
      /\ tx'[Len(tx) + 1] = m
      /\ \A i \in 1 .. Len(tx) : tx'[i] = tx[i]
  BY Added DEF TypeOK, Messages
<1>2. \A i \in DOMAIN rx' : rx'[i].k \in {"scan", "noise"}
  BY DEF Unheard
<1> DEFINE r == sensor.rate
<1>3. ASSUME NEW n \in 0 .. Len(tx), QTHeard(type, r, tx, n)
      PROVE  QTHeard(type, r, tx', n) /\ QTHeard(type, r, tx', Len(tx) + 1)
  <2>1. PICK j \in 1 .. n : tx[j].c = "QT" /\ Hears(type, r, tx[j].at)
    BY <1>3 DEF QTHeard
  <2>2. j \in 1 .. Len(tx) /\ j \in 1 .. Len(tx) + 1 /\ tx'[j] = tx[j]
    BY <1>1
  <2> QED BY <2>1, <2>2 DEF QTHeard
<1>4. ASSUME Hears(type, r, m.at) \/ Hears(type, r, hostRate')
      PROVE  QTHeard(type, r, tx', Len(tx) + 1)
  <2>1. CASE m.c = "QT" /\ Hears(type, r, m.at)
    <3>1. Len(tx) + 1 \in 1 .. Len(tx) + 1
      BY <1>1
    <3> QED BY <1>1, <2>1, <3>1 DEF QTHeard
  <2>2. CASE m.at = hostRate /\ hostRate' = hostRate /\ pc \notin Between
    <3>1. QTHeard(type, r, tx, Len(tx))
      BY <1>4, <2>2 DEF Unheard
    <3> QED BY <1>1, <1>3, <3>1
  <2> QED BY <1>4, <2>1, <2>2 DEF Hears
<1>5. ASSUME NEW i \in DOMAIN tx', Hears(type, r, tx'[i].at)
      PROVE  QTHeard(type, r, tx', i)
  <2>1. CASE i = Len(tx) + 1
    BY <1>1, <1>4, <1>5, <2>1
  <2>2. CASE i \in 1 .. Len(tx)
    <3>1. QTHeard(type, r, tx, i)
      BY <1>1, <1>5, <2>2 DEF Unheard
    <3> QED BY <1>1, <1>3, <2>2, <3>1
  <2> QED BY <1>1, <2>1, <2>2
<1> QED BY <1>1, <1>2, <1>4, <1>5 DEF Unheard

LEMMA UnheardStep ==
  ASSUME TypeOK, Placed, Unheard, Sent, HostStep
  PROVE  Unheard'
<1> USE DEF sensorVars, openVars, scipVars
<1>1. CASE Open
  <2>1. tx' = <<>> /\ sensor' = sensor /\ rx' = rx /\ pc' = "try"
    BY <1>1 DEF Open, Sent
  <2> QED BY <2>1 DEF Unheard, EchoRead, Between
<1>2. CASE OpenFails
  <2>1. tx' = <<>> /\ sensor' = sensor /\ rx' = rx /\ pc' = "failed"
    BY <1>2 DEF OpenFails, Sent
  <2> QED BY <2>1 DEF Unheard, EchoRead, Between
<1>3. CASE Try
  <2>1. TryList[try] \in Rates
    BY <1>3, TryListRates DEF Try, TypeOK
  <2>2. /\ hostRate' = IF type = "ethernet" THEN hostRate ELSE TryList[try]
        /\ rx' = rx \/ rx' = <<>>
    BY <1>3, <2>1, SetBaudrateTypes DEF Try
  <2>3. [c |-> "QT", arg |-> 0, at |-> TryList[try]] \in Messages
    BY <2>1 DEF Messages, Commands
  <2>4. tx' = Append(tx, [c |-> "QT", arg |-> 0, at |-> TryList[try]]) /\ pc' = "echo"
    BY <1>3 DEF Try, Scip
  <2>5. PICK m : m = [c |-> "QT", arg |-> 0, at |-> TryList[try]]
    OBVIOUS
  <2>6. /\ m \in Messages /\ tx' = Append(tx, m) /\ m.c = "QT"
        /\ m.at = hostRate' \/ type = "ethernet"
    BY <2>2, <2>3, <2>4, <2>5
  <2>7. UNCHANGED <<sensor, type>> /\ ~EchoRead'
    BY <1>3, <2>4 DEF Try, EchoRead, Between
  <2> QED BY ONLY TypeOK, Unheard, <2>2, <2>6, <2>7, UnheardSent
<1>4. CASE NotDetected
  BY <1>4, UnheardKept DEF NotDetected, EchoRead, Between
<1>5. CASE ScipEcho \/ ScipStatus \/ ScipBody
  <2>1. EchoRead' => sensor.mode # "measuring"
    <3>1. CASE pc \in {"status", "body"}
      BY <3>1 DEF Unheard, EchoRead, Between
    <3>2. CASE rx # <<>> /\ rx[1] = Text("echo", cmd)
      <4>1. Len(rx) \in Nat \ {0} /\ DOMAIN rx = 1 .. Len(rx)
        BY <3>2, EmptySeq, LenProperties DEF TypeOK
      <4>2. 1 \in DOMAIN rx /\ rx[1].k = "echo"
        BY <3>2, <4>1 DEF Text
      <4> QED BY <4>2 DEF Unheard
    <3> QED BY <1>5, <3>1, <3>2, ScipReads
  <2> QED BY <1>5, <2>1, ScipReads, UnheardKept DEF InScip, Between
<1>6. CASE ignore_receive_data
  <2>1. resume \in Resumes
    BY DEF TypeOK, Resumes
  <2>2. ~EchoRead' /\ (pc' \in Between \/ pc \notin Between)
    BY <1>6, <2>1, Drains DEF EchoRead, Resumes, Between
  <2> QED BY <1>6, <2>2, Drains, UnheardKept
<1>7. CASE AnsweredOldProtocol
  BY <1>7, UnheardKept DEF AnsweredOldProtocol, Drain, ScipDone, EchoRead, Between
<1>8. CASE AnsweredTimeStampMode
  <2>1. [c |-> "TM2", arg |-> 0, at |-> hostRate] \in Messages
    BY DEF Messages, Commands, TypeOK
  <2> QED BY <1>8, <2>1, UnheardSent DEF AnsweredTimeStampMode, Scip, ScipDone, EchoRead, Between
<1>9. CASE Answered
  BY <1>9, UnheardKept DEF Answered, ScipDone, EchoRead, Between
<1>10. CASE AnsweredWithData
  <2>1. /\ (pc' = "change" /\ resume' = resume) \/ (pc' = "drain" /\ resume' = "change")
    BY <1>10, DrainWithQTTypes DEF AnsweredWithData
  <2>2. tx' = tx \/ tx' = Append(tx, [c |-> "QT", arg |-> 0, at |-> hostRate])
    BY <1>10 DEF AnsweredWithData, DrainWithQT
  <2>3. [c |-> "QT", arg |-> 0, at |-> hostRate] \in Messages
    BY DEF Messages, Commands, TypeOK
  <2> QED BY <1>10, <2>1, <2>2, <2>3, UnheardKept, UnheardSent
          DEF AnsweredWithData, ScipDone, EchoRead, Between
<1>11. CASE TryNext
  <2>1. (pc' = "try" /\ resume' = resume) \/ (pc' = "drain" /\ resume' = "try")
    BY <1>11, DrainWithQTTypes DEF TryNext
  <2>2. tx' = tx \/ tx' = Append(tx, [c |-> "QT", arg |-> 0, at |-> hostRate])
    BY <1>11 DEF TryNext, DrainWithQT
  <2>3. [c |-> "QT", arg |-> 0, at |-> hostRate] \in Messages
    BY DEF Messages, Commands, TypeOK
  <2> QED BY <1>11, <2>1, <2>2, <2>3, UnheardKept, UnheardSent
          DEF TryNext, ScipDone, EchoRead, Between
<1>12. CASE OldProtocol
  <2>1. [c |-> "SCIP2.0", arg |-> 0, at |-> hostRate] \in Messages
    BY DEF Messages, Commands, TypeOK
  <2> QED BY <1>12, <2>1, UnheardSent DEF OldProtocol, Scip, EchoRead, Between
<1>13. CASE SwitchedMode
  BY <1>13, UnheardKept DEF SwitchedMode, Drain, ScipDone, EchoRead, Between
<1>14. CASE ChangeNothing
  BY <1>14, UnheardKept DEF ChangeNothing, EchoRead, Between
<1>15. CASE change_sensor_baudrate
  <2>1. [c |-> "SS", arg |-> baudrate, at |-> hostRate] \in Messages
    BY DEF Messages, Commands, TypeOK
  <2> QED BY <1>15, <2>1, UnheardSent DEF change_sensor_baudrate, Scip, EchoRead, Between
<1>16. CASE SensorChanged
  BY <1>16 DEF SensorChanged, ScipDone, Unheard, EchoRead, Between
<1>17. CASE Changed
  BY <1>17, UnheardKept DEF Changed, EchoRead, Between
<1>18. CASE SensorNotChanged
  BY <1>18, UnheardKept DEF SensorNotChanged, ScipDone, EchoRead, Between
<1>19. CASE ConnectFailed
  BY <1>19, UnheardKept DEF ConnectFailed, OpenReturns, EchoRead, Between
<1>20. CASE Connected
  <2>1. [c |-> "PP", arg |-> 0, at |-> hostRate] \in Messages
    BY DEF Messages, Commands, TypeOK
  <2> QED BY <1>20, <2>1, UnheardSent DEF Connected, Scip, EchoRead, Between
<1>21. CASE receive_parameter
  BY <1>21, UnheardKept DEF receive_parameter, OpenReturns, ScipDone, EchoRead, Between
<1> QED BY <1>1, <1>2, <1>3, <1>4, <1>5, <1>6, <1>7, <1>8, <1>9, <1>10, <1>11, <1>12,
           <1>13, <1>14, <1>15, <1>16, <1>17, <1>18, <1>19, <1>20, <1>21 DEF HostStep

\* What a sensor that is measuring does of a command: it does not hear it, or
\* it is QT and it stops.
LEMMA SensorHears ==
  ASSUME TypeOK, Unheard, Sent, SensorCommand
  PROVE  \/ sensor' = sensor /\ rx' = rx /\
              ~(sensor.mode # "absent" /\ Hears(type, sensor.rate, tx[1].at))
         \/ /\ sensor.mode # "absent" /\ Hears(type, sensor.rate, tx[1].at)
            /\ sensor' = After(tx[1].c, tx[1].arg) /\ rx' = rx \o Heard(Answer(tx[1].c))
            /\ sensor'.mode # "measuring"
            /\ sensor.mode = "measuring" => tx[1].c = "QT"
<1>1. tx \in Seq(Messages) /\ tx # <<>>
  BY DEF SensorCommand, TypeOK, Messages
<1>2. Head(tx) = tx[1] /\ 1 \in DOMAIN tx /\ tx[1] \in Messages
  BY <1>1, Taken, LenProperties
<1>3. tx[1].c \in Commands /\ (tx[1].c = "SS" => tx[1].arg \in Rates)
  BY <1>2 DEF Messages, Sent
<1>4. CASE sensor.mode # "absent" /\ Hears(type, sensor.rate, tx[1].at)
  <2>1. sensor' = After(tx[1].c, tx[1].arg) /\ rx' = rx \o Heard(Answer(tx[1].c))
    BY <1>2, <1>4 DEF SensorCommand, Hears
  <2>2. sensor.mode = "measuring" => tx[1].c = "QT"
    <3>1. sensor.mode = "measuring" => QTHeard(type, sensor.rate, tx, 1)
      BY <1>2, <1>4 DEF Unheard
    <3> QED BY <3>1 DEF QTHeard
  <2>3. sensor'.mode # "measuring"
    BY <1>3, <2>1, <2>2, AfterTypes
  <2> QED BY <1>4, <2>1, <2>2, <2>3
<1>5. CASE ~(sensor.mode # "absent" /\ Hears(type, sensor.rate, tx[1].at))
  BY <1>2, <1>5 DEF SensorCommand, Hears
<1> QED BY <1>4, <1>5

LEMMA UnheardEnvironment ==
  ASSUME TypeOK, Unheard, Sent, UNCHANGED hostVars,
         SensorCommand \/ SensorScan \/ LoseLine \/ DamageLine
  PROVE  Unheard'
<1> USE DEF hostVars, openVars
<1>1. CASE SensorCommand
  <2>1. CASE sensor'.mode # "measuring"
    BY <2>1 DEF Unheard
  <2>2. CASE /\ sensor' = sensor /\ rx' = rx /\ sensor.mode = "measuring"
             /\ ~Hears(type, sensor.rate, tx[1].at)
    <3> DEFINE r == sensor.rate
    <3>1. tx \in Seq(Messages) /\ tx # <<>> /\ tx' = Tail(tx)
      BY <1>1 DEF SensorCommand, TypeOK, Messages
    <3>2. /\ Len(tx) \in Nat \ {0} /\ DOMAIN tx = 1 .. Len(tx)
          /\ Len(tx') = Len(tx) - 1 /\ DOMAIN tx' = 1 .. Len(tx) - 1
          /\ \A i \in 1 .. Len(tx) - 1 : tx'[i] = tx[i + 1]
      BY <3>1, Taken, LenProperties
    <3>3. ASSUME NEW n \in 0 .. Len(tx) - 1, QTHeard(type, r, tx, n + 1)
          PROVE  QTHeard(type, r, tx', n)
      <4>1. PICK j \in 1 .. n + 1 : tx[j].c = "QT" /\ Hears(type, r, tx[j].at)
        BY <3>3 DEF QTHeard
      <4>2. j # 1
        BY <2>2, <4>1
      <4>3. j - 1 \in 1 .. n /\ j - 1 \in 1 .. Len(tx) - 1 /\ (j - 1) + 1 = j
        BY <3>2, <4>2
      <4>4. tx'[j - 1] = tx[j]
        BY <3>2, <4>3
      <4> QED BY <4>1, <4>3, <4>4 DEF QTHeard
    <3>4. ASSUME NEW i \in DOMAIN tx', Hears(type, r, tx'[i].at)
          PROVE  QTHeard(type, r, tx', i)
      <4>1. i \in 0 .. Len(tx) - 1 /\ i + 1 \in DOMAIN tx /\ tx'[i] = tx[i + 1]
        BY <3>2
      <4>2. QTHeard(type, r, tx, i + 1)
        BY <2>2, <3>4, <4>1 DEF Unheard
      <4> QED BY <3>3, <4>1, <4>2
    <3>5. QTHeard(type, r, tx, Len(tx)) => QTHeard(type, r, tx', Len(tx'))
      <4>1. Len(tx) - 1 \in 0 .. Len(tx) - 1 /\ (Len(tx) - 1) + 1 = Len(tx)
        BY <3>2
      <4> QED BY <3>2, <3>3, <4>1
    <3> QED BY <2>2, <3>4, <3>5 DEF Unheard, EchoRead, Between
  <2> QED BY <1>1, <2>1, <2>2, SensorHears
<1>2. CASE SensorScan
  <2>1. sensor.mode = "measuring" => \A i \in DOMAIN rx' : rx'[i].k \in {"scan", "noise"}
    BY <1>2, Scanned DEF Unheard
  <2> QED BY <1>2, <2>1, Scanned DEF Unheard, EchoRead, Between
<1>3. CASE LoseLine
  BY <1>3, UnheardKept DEF LoseLine, Unheard, EchoRead, Between
<1>4. CASE DamageLine
  <2>1. sensor.mode = "measuring" => \A i \in DOMAIN rx' : rx'[i].k \in {"scan", "noise"}
    BY <1>4, Damaged DEF Unheard
  <2> QED BY <1>4, <2>1, Damaged DEF Unheard, EchoRead, Between
<1> QED BY <1>1, <1>2, <1>3, <1>4

-----------------------------------------------------------------------------
\* Sent

\* While PP is not the command, it is not on its way.
LEMMA SentKept ==
  ASSUME Sent, UNCHANGED tx, pc' # "idle" \/ pc = "idle",
         cmd # "PP" \/ (cmd' = "PP" /\ hostRate' = hostRate)
  PROVE  Sent'
BY DEF Sent

LEMMA SentSent ==
  ASSUME TypeOK, Sent, cmd # "PP", pc' # "idle",
         NEW m \in Messages, tx' = Append(tx, m), m.c = "SS" => m.arg \in Rates,
         m.c = "PP" => cmd' = "PP" /\ m.at = hostRate'
  PROVE  Sent'
<1>1. /\ tx \in Seq(Messages) /\ Len(tx') = Len(tx) + 1 /\ Len(tx) \in Nat
      /\ DOMAIN tx = 1 .. Len(tx) /\ DOMAIN tx' = 1 .. Len(tx) + 1
      /\ tx'[Len(tx) + 1] = m
      /\ \A i \in 1 .. Len(tx) : tx'[i] = tx[i]
  BY Added DEF TypeOK, Messages
<1>2. ASSUME NEW i \in DOMAIN tx'
      PROVE  /\ tx'[i].c = "SS" => tx'[i].arg \in Rates
             /\ tx'[i].c = "PP" => cmd' = "PP" /\ i = Len(tx') /\ tx'[i].at = hostRate'
  <2>1. CASE i = Len(tx) + 1
    BY <1>1, <2>1
  <2>2. CASE i \in 1 .. Len(tx)
    BY <1>1, <2>2 DEF Sent
  <2> QED BY <1>1, <2>1, <2>2
<1> QED BY <1>2 DEF Sent

LEMMA SentStep ==
  ASSUME TypeOK, Placed, Sent, HostStep
  PROVE  Sent'
<1> USE DEF sensorVars, openVars, scipVars
<1>0. pc \notin InScip \cup {"done"} => cmd # "PP"
  BY DEF Placed
<1>1. CASE Open \/ OpenFails
  <2>1. tx' = tx /\ pc = "idle" /\ pc' # "idle"
    <3>1. CASE Open
      BY <3>1 DEF Open
    <3>2. CASE OpenFails
      BY <3>2 DEF OpenFails
    <3> QED BY <1>1, <3>1, <3>2
  <2>2. cmd # "PP"
    BY <1>0, <2>1 DEF InScip
  <2> QED BY <2>1, <2>2, SentKept
<1>2. CASE Try
  <2>1. TryList[try] \in Rates
    BY <1>2, TryListRates DEF Try, TypeOK
  <2>2. [c |-> "QT", arg |-> 0, at |-> TryList[try]] \in Messages
    BY <2>1 DEF Messages, Commands
  <2>3. tx' = Append(tx, [c |-> "QT", arg |-> 0, at |-> TryList[try]]) /\ pc' = "echo"
    BY <1>2 DEF Try, Scip
  <2> QED BY <1>0, <1>2, <2>2, <2>3, SentSent DEF Try, InScip
<1>3. CASE NotDetected \/ Changed \/ ConnectFailed \/ ChangeNothing
  BY <1>0, <1>3, SentKept
     DEF NotDetected, Changed, ConnectFailed, OpenReturns, ChangeNothing, InScip
<1>4. CASE ScipEcho \/ ScipStatus \/ ScipBody
  BY <1>4, ScipReads, SentKept DEF InScip
<1>5. CASE ignore_receive_data
  BY <1>0, <1>5, Drains, SentKept DEF InScip, Placed
<1>6. CASE AnsweredOldProtocol \/ Answered \/ SwitchedMode
  BY <1>6, SentKept DEF AnsweredOldProtocol, Answered, SwitchedMode, Drain, ScipDone
<1>7. CASE AnsweredTimeStampMode
  <2>1. [c |-> "TM2", arg |-> 0, at |-> hostRate] \in Messages
    BY DEF Messages, Commands, TypeOK
  <2> QED BY <1>7, <2>1, SentSent DEF AnsweredTimeStampMode, Scip, ScipDone
<1>8. CASE AnsweredWithData \/ TryNext
  <2>1. pc' # "idle"
    BY <1>8, DrainWithQTTypes DEF AnsweredWithData, TryNext
  <2>2. tx' = tx \/ tx' = Append(tx, [c |-> "QT", arg |-> 0, at |-> hostRate])
    BY <1>8 DEF AnsweredWithData, TryNext, DrainWithQT
  <2>3. [c |-> "QT", arg |-> 0, at |-> hostRate] \in Messages
    BY DEF Messages, Commands, TypeOK
  <2>4. cmd # "PP"
    BY <1>8 DEF AnsweredWithData, TryNext, ScipDone
  <2> QED BY <2>1, <2>2, <2>3, <2>4, SentKept, SentSent
<1>9. CASE OldProtocol
  <2>1. [c |-> "SCIP2.0", arg |-> 0, at |-> hostRate] \in Messages
    BY DEF Messages, Commands, TypeOK
  <2> QED BY <1>0, <1>9, <2>1, SentSent DEF OldProtocol, Scip, InScip
<1>10. CASE change_sensor_baudrate
  <2>1. [c |-> "SS", arg |-> baudrate, at |-> hostRate] \in Messages /\ baudrate \in Rates
    BY DEF Messages, Commands, TypeOK
  <2> QED BY <1>0, <1>10, <2>1, SentSent DEF change_sensor_baudrate, Scip, InScip
<1>11. CASE SensorChanged \/ SensorNotChanged
  BY <1>11, SentKept DEF SensorChanged, SensorNotChanged, Drain, ScipDone
<1>12. CASE Connected
  <2>1. [c |-> "PP", arg |-> 0, at |-> hostRate] \in Messages
    BY DEF Messages, Commands, TypeOK
  <2> QED BY <1>0, <1>12, <2>1, SentSent DEF Connected, Scip, InScip
<1>13. CASE receive_parameter
  BY <1>13, SentKept DEF receive_parameter, OpenReturns, ScipDone
<1> QED BY <1>1, <1>2, <1>3, <1>4, <1>5, <1>6, <1>7, <1>8, <1>9, <1>10, <1>11, <1>12,
           <1>13 DEF HostStep

LEMMA SentEnvironment ==
  ASSUME TypeOK, Sent, UNCHANGED hostVars,
         SensorCommand \/ SensorScan \/ LoseLine \/ DamageLine
  PROVE  Sent'
<1> USE DEF hostVars, openVars, scipVars
<1>1. CASE SensorCommand
  <2>1. tx \in Seq(Messages) /\ tx # <<>> /\ tx' = Tail(tx)
    BY <1>1 DEF SensorCommand, TypeOK, Messages
  <2>2. /\ Len(tx) \in Nat \ {0} /\ DOMAIN tx = 1 .. Len(tx)
        /\ Len(tx') = Len(tx) - 1 /\ DOMAIN tx' = 1 .. Len(tx) - 1
        /\ \A i \in 1 .. Len(tx) - 1 : tx'[i] = tx[i + 1]
    BY <2>1, Taken, LenProperties
  <2>3. ASSUME NEW i \in DOMAIN tx'
        PROVE  /\ tx'[i].c = "SS" => tx'[i].arg \in Rates
               /\ tx'[i].c = "PP" => cmd' = "PP" /\ i = Len(tx') /\ tx'[i].at = hostRate'
    <3>1. i \in Int /\ i + 1 \in DOMAIN tx /\ tx'[i] = tx[i + 1]
      BY <2>2
    <3>2. i + 1 = Len(tx) => i = Len(tx')
      BY <2>2, <3>1
    <3> QED BY <3>1, <3>2 DEF Sent
  <2>4. pc' # "idle"
    BY <2>1 DEF Sent
  <2> QED BY <2>3, <2>4 DEF Sent
<1>2. CASE SensorScan \/ LoseLine \/ DamageLine
  BY <1>2 DEF SensorScan, LoseLine, DamageLine, Sent
<1> QED BY <1>1, <1>2

-----------------------------------------------------------------------------
\* AnswerRead

\* What is left of the lines when the first one is taken.
LEMMA EndsTail ==
  ASSUME NEW r \in Seq(Lines), NEW answer, Len(answer) \in Nat, r # <<>>
  PROVE  /\ EndsIn(r, answer) => EndsIn(Tail(r), answer)
         /\ AnswerComes(r, answer) => AnswerComes(Tail(r), answer)
         /\ (\E i \in DOMAIN Tail(r) : EchoOfPP(Tail(r)[i])) => \E i \in DOMAIN r : EchoOfPP(r[i])
<1>1. PICK t : t = Tail(r)
  OBVIOUS
<1>2. /\ Len(r) \in Nat \ {0} /\ DOMAIN r = 1 .. Len(r)
      /\ Len(t) = Len(r) - 1 /\ DOMAIN t = 1 .. Len(r) - 1
      /\ \A i \in 1 .. Len(r) - 1 : t[i] = r[i + 1]
  BY <1>1, Taken, LenProperties
<1>3. \A i \in DOMAIN t : /\ i \in Int /\ i + 1 \in DOMAIN r /\ t[i] = r[i + 1]
                          /\ i + Len(answer) - Len(t) = i + 1 + Len(answer) - Len(r)
                          /\ i + 1 = Len(r) - Len(answer) + 1 => i = Len(t) - Len(answer) + 1
  BY <1>2
<1>4. EndsIn(r, answer) => EndsIn(t, answer)
  BY <1>3 DEF EndsIn
<1>5. AnswerComes(r, answer) => AnswerComes(t, answer)
  BY <1>3, <1>4 DEF AnswerComes
<1>6. (\E i \in DOMAIN t : EchoOfPP(t[i])) => \E i \in DOMAIN r : EchoOfPP(r[i])
  BY <1>3
<1> QED BY <1>1, <1>4, <1>5, <1>6

\* Damage does not matter.
LEMMA EndsSame ==
  ASSUME NEW r, NEW t, NEW answer, Len(t) = Len(r), DOMAIN t = DOMAIN r,
         \A i \in DOMAIN r : t[i].k = r[i].k /\ t[i].v = r[i].v
  PROVE  /\ EndsIn(r, answer) => EndsIn(t, answer)
         /\ AnswerComes(r, answer) => AnswerComes(t, answer)
         /\ (\E i \in DOMAIN t : EchoOfPP(t[i])) => \E i \in DOMAIN r : EchoOfPP(r[i])
<1>1. EndsIn(r, answer) => EndsIn(t, answer)
  BY DEF EndsIn
<1>2. \A i \in DOMAIN t : EchoOfPP(t[i]) <=> EchoOfPP(r[i])
  BY DEF EchoOfPP
<1>3. AnswerComes(r, answer) => AnswerComes(t, answer)
  BY <1>1, <1>2 DEF AnswerComes
<1> QED BY <1>1, <1>2, <1>3

NoEcho(lines) == \A i \in DOMAIN lines : ~EchoOfPP(lines[i])

LEMMA NoEchoTail ==
  ASSUME NEW r \in Seq(Lines), NoEcho(r)
  PROVE  NoEcho(<<>>) /\ (r # <<>> => NoEcho(Tail(r)))
<1>1. NoEcho(<<>>)
  BY DEF NoEcho
<1>2. ASSUME r # <<>> PROVE NoEcho(Tail(r))
  <2>1. PICK t : t = Tail(r)
    OBVIOUS
  <2>2. /\ DOMAIN r = 1 .. Len(r) /\ Len(r) \in Nat /\ DOMAIN t = 1 .. Len(r) - 1
        /\ \A i \in 1 .. Len(r) - 1 : t[i] = r[i + 1]
    BY <1>2, <2>1, Taken, LenProperties
  <2>3. \A i \in DOMAIN t : i + 1 \in DOMAIN r /\ t[i] = r[i + 1]
    BY <2>2
  <2> QED BY <2>1, <2>3 DEF NoEcho
<1> QED BY <1>1, <1>2

\* Before PP is answered there is nothing to say.
LEMMA AnswerNone ==
  ASSUME NoEcho(rx'), ~urg'.is_active,
         \/ cmd' # "PP" \/ pc' = "done" \/ (pc' = "echo" /\ got' = <<>>)
         \/ pc' = "scip_done" /\ ret' # "OK"
  PROVE  AnswerRead'
BY DEF AnswerRead, AnswerComes, NoEcho

LEMMA AnswerPlain ==
  ASSUME AnswerRead, ~Told
  PROVE  NoEcho(rx) /\ ~urg.is_active
BY DEF AnswerRead, NoEcho

\* The answer is a function of the sensor and the connection.
LEMMA AnswerKept ==
  ASSUME UNCHANGED <<sensor, type>>
  PROVE  Answer("PP")' = Answer("PP")
BY DEF Answer, Body, Status

LEMMA AnswerLength == Answer("PP") \in Seq(Lines) /\ Len(Answer("PP")) \in {3, 5}
BY AnswerLines DEF Commands

\* The host before it sends PP, and when it does.
LEMMA BeforePP ==
  ASSUME TypeOK, Placed, HostStep, cmd # "PP"
  PROVE  /\ rx' \in {rx, <<>>} \/ (rx # <<>> /\ rx' = Tail(rx))
         /\ ~urg'.is_active
         /\ cmd' # "PP" \/ (pc' = "echo" /\ got' = <<>>)
<1> USE DEF sensorVars, openVars, scipVars
<1>1. urg \in Fields /\ ~urg.is_active
  BY DEF TypeOK, Fields, Placed
<1>2. CASE Open
  BY <1>1, <1>2 DEF Open, Fields
<1>3. CASE OpenFails
  BY <1>1, <1>3 DEF OpenFails, Fields
<1>4. CASE Try
  <2>1. TryList[try] \in Rates
    BY <1>4, TryListRates DEF Try, TypeOK
  <2>2. rx' = rx \/ rx' = <<>>
    BY <1>4, <2>1, SetBaudrateTypes DEF Try
  <2> QED BY <1>1, <1>4, <2>2 DEF Try, Scip
<1>5. CASE NotDetected \/ ChangeNothing \/ Changed \/ ConnectFailed \/ SensorNotChanged
  BY <1>1, <1>5
     DEF NotDetected, ChangeNothing, Changed, ConnectFailed, SensorNotChanged, OpenReturns, Fields
<1>6. CASE ScipEcho \/ ScipStatus \/ ScipBody
  BY <1>1, <1>6, ScipReads
<1>7. CASE ignore_receive_data
  BY <1>1, <1>7, Drains
<1>8. CASE AnsweredOldProtocol \/ Answered \/ SwitchedMode
  BY <1>1, <1>8 DEF AnsweredOldProtocol, Answered, SwitchedMode
<1>9. CASE AnsweredTimeStampMode \/ OldProtocol \/ change_sensor_baudrate
  BY <1>1, <1>9 DEF AnsweredTimeStampMode, OldProtocol, change_sensor_baudrate, Scip
<1>10. CASE AnsweredWithData \/ TryNext
  <2>1. urg'.is_active = urg.is_active
    BY <1>10, DrainWithQTTypes DEF AnsweredWithData, TryNext
  <2> QED BY <1>1, <1>10, <2>1 DEF AnsweredWithData, TryNext
<1>11. CASE SensorChanged
  <2>1. rx' = rx \/ rx' = <<>>
    BY <1>11, SetBaudrateTypes DEF SensorChanged, TypeOK
  <2> QED BY <1>1, <1>11, <2>1 DEF SensorChanged
<1>12. CASE Connected
  BY <1>1, <1>12 DEF Connected, Scip, Fields
<1>13. CASE receive_parameter
  BY <1>13 DEF receive_parameter, ScipDone
<1> QED BY <1>2, <1>3, <1>4, <1>5, <1>6, <1>7, <1>8, <1>9, <1>10, <1>11, <1>12, <1>13
        DEF HostStep

\* A line of the answer to PP is kept.
LEMMA KeptOne ==
  ASSUME NEW answer \in Seq(Lines), NEW lines \in Seq(Lines), lines # <<>>,
         NEW kept \in Seq(Texts), Len(lines) < Len(answer),
         EndsIn(lines, answer), Kept(kept, Len(lines), answer)
  PROVE  Kept(Append(kept, lines[1].v), Len(Tail(lines)), answer)
<1>1. /\ Len(lines) \in Nat \ {0} /\ DOMAIN lines = 1 .. Len(lines)
      /\ Len(Tail(lines)) = Len(lines) - 1 /\ Len(answer) \in Nat
  BY Taken, LenProperties
<1>2. PICK v : v = lines[1].v
  OBVIOUS
<1>3. v \in Texts
  <2>1. lines[1] \in Lines
    BY <1>1, ElementOfSeq
  <2> QED BY <1>2, <2>1 DEF Lines
<1>4. PICK g : g = Append(kept, v)
  OBVIOUS
<1>5. /\ Len(g) = Len(kept) + 1 /\ Len(kept) \in Nat
      /\ DOMAIN kept = 1 .. Len(kept) /\ DOMAIN g = 1 .. Len(kept) + 1
      /\ g[Len(kept) + 1] = v /\ \A i \in 1 .. Len(kept) : g[i] = kept[i]
  BY ONLY <1>3, <1>4, kept \in Seq(Texts), Added
<1>6. Len(g) + Len(Tail(lines)) = Len(kept) + Len(lines)
  BY <1>1, <1>5
<1>7. ASSUME Len(kept) + Len(lines) = Len(answer) - 1, NEW i \in DOMAIN g
      PROVE  g[i] = answer[i + 1].v
  <2>1. CASE i = Len(kept) + 1
    <3>1. 1 \in DOMAIN lines /\ 1 + Len(answer) - Len(lines) = Len(kept) + 2
          /\ Len(kept) + 2 > 0 /\ i + 1 = Len(kept) + 2
      BY <1>1, <1>5, <1>7, <2>1
    <3>2. lines[1].v = answer[Len(kept) + 2].v
      BY <3>1 DEF EndsIn
    <3> QED BY <1>2, <1>5, <2>1, <3>1, <3>2
  <2>2. CASE i \in 1 .. Len(kept)
    BY <1>5, <1>7, <2>2 DEF Kept
  <2> QED BY <1>5, <2>1, <2>2
<1>8. Kept(g, Len(Tail(lines)), answer)
  BY <1>6, <1>7 DEF Kept
<1> QED BY <1>2, <1>4, <1>8

\* A read that fails, and what every read leaves of the answer.
LEMMA ComesKept ==
  ASSUME TypeOK, AnswerRead, UNCHANGED <<sensor, type, tx, cmd, hostRate>>,
         rx' = rx \/ (rx # <<>> /\ rx' = Tail(rx))
  PROVE  /\ Answer("PP")' = Answer("PP") /\ Told' = Told
         /\ (\E i \in DOMAIN rx' : EchoOfPP(rx'[i])) => Told'
         /\ AnswerComes(rx', Answer("PP"))
         /\ EndsIn(rx, Answer("PP")) => EndsIn(rx', Answer("PP"))
<1>1. Answer("PP")' = Answer("PP") /\ Told' = Told
  BY AnswerKept DEF Told, SameRate
<1>2. PICK answer : answer = Answer("PP")
  OBVIOUS
<1>3. rx \in Seq(Lines) /\ Len(answer) \in Nat
  BY <1>2, AnswerLength DEF TypeOK
<1>4. AnswerComes(rx, answer) /\ ((\E i \in DOMAIN rx : EchoOfPP(rx[i])) => Told)
  BY <1>2 DEF AnswerRead
<1>5. CASE rx' = rx
  BY <1>1, <1>2, <1>4, <1>5
<1>6. CASE rx # <<>> /\ rx' = Tail(rx)
  BY <1>1, <1>2, <1>3, <1>4, <1>6, EndsTail
<1> QED BY <1>5, <1>6

LEMMA AnswerFails ==
  ASSUME TypeOK, Placed, AnswerRead, cmd = "PP", ScipEcho \/ ScipStatus \/ ScipBody,
         pc' = "scip_done", ret' # "OK"
  PROVE  AnswerRead'
<1>1. /\ UNCHANGED <<sensor, type, tx, cmd, hostRate>> /\ pc \in {"echo", "status", "body"}
      /\ rx' = rx \/ (rx # <<>> /\ rx' = Tail(rx))
      /\ urg'.is_active = urg.is_active
  BY ScipReads DEF openVars
<1>2. ~urg'.is_active
  BY <1>1 DEF Placed
<1>3. PICK answer : answer = Answer("PP")
  OBVIOUS
<1>4. /\ Answer("PP")' = answer /\ ((\E i \in DOMAIN rx' : EchoOfPP(rx'[i])) => Told')
      /\ AnswerComes(rx', answer)
  BY <1>1, <1>3, ComesKept
<1> QED BY <1>2, <1>4 DEF AnswerRead

\* The echo is the beginning of the answer.
LEMMA AnswerEcho ==
  ASSUME TypeOK, Placed, AnswerRead, cmd = "PP", ScipEcho
  PROVE  AnswerRead'
<1>1. PICK line \in Arrivals :
        /\ Consume(line)
        /\ \/ ScipReturns("NO_RESPONSE") \/ ScipReturns("INVALID_RESPONSE")
           \/ line = Text("echo", cmd) /\ ScipGoesOn("status") /\ UNCHANGED <<good, got>>
  BY DEF ScipEcho
<1>2. CASE ScipReturns("NO_RESPONSE") \/ ScipReturns("INVALID_RESPONSE")
  <2>1. pc' = "scip_done" /\ ret' # "OK"
    BY <1>2, ScipReturnsTypes DEF Error
  <2> QED BY <2>1, AnswerFails
<1>3. CASE line = Text("echo", cmd) /\ ScipGoesOn("status") /\ UNCHANGED <<good, got>>
  <2>1. line # Nothing /\ EchoOfPP(line)
    BY <1>3 DEF Nothing, Text, EchoOfPP
  <2>2. rx # <<>> /\ rx' = Tail(rx) /\ rx[1] = line
    BY <1>1, <2>1, Found
  <2>3. /\ UNCHANGED <<sensor, type, tx, cmd, hostRate>> /\ pc = "echo" /\ pc' = "status"
        /\ urg'.is_active = urg.is_active
    BY <1>3 DEF ScipEcho, ScipGoesOn, openVars
  <2>4. ~urg'.is_active
    BY <2>3 DEF Placed
  <2>5. PICK answer : answer = Answer("PP")
    OBVIOUS
  <2>6. answer \in Seq(Lines) /\ Len(answer) \in {3, 5} /\ rx \in Seq(Lines)
    BY <2>5, AnswerLength DEF TypeOK
  <2>7. /\ Len(rx) \in Nat \ {0} /\ 1 \in DOMAIN rx /\ Len(rx') = Len(rx) - 1
    BY <2>2, <2>6, Taken, LenProperties
  <2>8. Told /\ 1 = Len(rx) - Len(answer) + 1 /\ EndsIn(rx, answer)
    BY <2>1, <2>2, <2>5, <2>7 DEF AnswerRead, AnswerComes
  <2>9. /\ Answer("PP")' = answer /\ Told' /\ AnswerComes(rx', answer) /\ EndsIn(rx', answer)
    BY <2>2, <2>3, <2>5, <2>8, ComesKept
  <2>10. got' = <<>>
    BY <1>3, <2>3 DEF AnswerRead
  <2>11. Len(rx') < Len(answer) /\ Kept(got', Len(rx'), answer)
    BY <2>6, <2>7, <2>8, <2>10 DEF Kept
  <2> QED BY <2>3, <2>4, <2>9, <2>10, <2>11 DEF AnswerRead
<1> QED BY <1>1, <1>2, <1>3

LEMMA AnswerStatus ==
  ASSUME TypeOK, Placed, AnswerRead, cmd = "PP", ScipStatus
  PROVE  AnswerRead'
<1>1. PICK line \in Arrivals :
        /\ Consume(line)
        /\ \/ ScipReturns("NO_RESPONSE") \/ ScipReturns("INVALID_RESPONSE")
           \/ ScipReturns("CHECKSUM_ERROR")
           \/ line.k = "stat" /\ got' = <<line.v>> /\ ScipGoesOn("body")
  BY DEF ScipStatus
<1>2. CASE ScipReturns("NO_RESPONSE") \/ ScipReturns("INVALID_RESPONSE")
           \/ ScipReturns("CHECKSUM_ERROR")
  <2>1. pc' = "scip_done" /\ ret' # "OK"
    BY <1>2, ScipReturnsTypes DEF Error
  <2> QED BY <2>1, AnswerFails
<1>3. CASE line.k = "stat" /\ got' = <<line.v>> /\ ScipGoesOn("body")
  <2>1. line # Nothing
    <3>1. Nothing.k # "stat"
      BY DEF Nothing, Text
    <3>2. line.k = "stat"
      BY <1>3
    <3> QED BY ONLY <3>1, <3>2
  <2>2. rx # <<>> /\ rx' = Tail(rx) /\ rx[1] = line
    BY <1>1, <2>1, Found
  <2>3. /\ UNCHANGED <<sensor, type, tx, cmd, hostRate>> /\ pc = "status" /\ pc' = "body"
        /\ urg'.is_active = urg.is_active
    BY <1>3 DEF ScipStatus, ScipGoesOn, openVars
  <2>4. ~urg'.is_active
    BY <2>3 DEF Placed
  <2>5. PICK answer : answer = Answer("PP")
    OBVIOUS
  <2>6. answer \in Seq(Lines) /\ Len(answer) \in {3, 5} /\ rx \in Seq(Lines) /\ got \in Seq(Texts)
    BY <2>5, AnswerLength DEF TypeOK
  <2>7. Len(rx) \in Nat \ {0} /\ Len(rx') = Len(rx) - 1
    BY <2>2, <2>6, Taken, LenProperties
  <2>8. /\ Told /\ Len(rx) < Len(answer) /\ EndsIn(rx, answer)
        /\ Kept(got, Len(rx), answer) /\ got = <<>>
    BY <2>3, <2>5 DEF AnswerRead
  <2>9. /\ Answer("PP")' = answer /\ Told' /\ AnswerComes(rx', answer) /\ EndsIn(rx', answer)
        /\ ((\E i \in DOMAIN rx' : EchoOfPP(rx'[i])) => Told')
    BY <2>2, <2>3, <2>5, <2>8, ComesKept
  <2>10. got' = Append(got, rx[1].v)
    BY <1>3, <2>2, <2>8
  <2>11. Kept(got', Len(rx'), answer)
    BY ONLY <2>2, <2>6, <2>8, <2>10, KeptOne
  <2>12. Len(rx') < Len(answer)
    BY <2>6, <2>7, <2>8
  <2> QED BY <2>3, <2>4, <2>9, <2>11, <2>12 DEF AnswerRead
<1> QED BY <1>1, <1>2, <1>3

\* Only the last line of the answer is empty.
LEMMA LastLine ==
  ASSUME NEW j \in 1 .. Len(Answer("PP")), Answer("PP")[j].k = "lf"
  PROVE  j = Len(Answer("PP"))
<1>1. PICK answer, s : answer = Answer("PP") /\ s = Status("PP")
  OBVIOUS
<1>2. PICK e, t, p, q : /\ e = Text("echo", "PP") /\ t = Text("stat", s)
                        /\ p = Text("par", "MODL") /\ q = Text("par", "DMIN")
  OBVIOUS
<1>3. e.k = "echo" /\ t.k = "stat" /\ p.k = "par" /\ q.k = "par"
  BY ONLY <1>2 DEF Text
<1>4. "PP" \in Commands
  BY DEF Commands
<1>5. /\ answer[1] = e /\ answer[2] = t
      /\ s # "00" => Len(answer) = 3
      /\ s = "00" => Len(answer) = 5 /\ answer[3] = p /\ answer[4] = q
  BY ONLY <1>1, <1>2, <1>4, AnswerLines
<1>6. j \in 1 .. Len(answer) /\ answer[j].k = "lf"
  BY <1>1
<1>7. CASE s # "00"
  <2>1. j \in {1, 2, 3} /\ Len(answer) = 3
    BY ONLY <1>5, <1>6, <1>7
  <2>2. j # 1 /\ j # 2
    BY ONLY <1>3, <1>5, <1>6
  <2> QED BY <1>1, <2>1, <2>2
<1>8. CASE s = "00"
  <2>1. Len(answer) = 5
    BY ONLY <1>5, <1>8
  <2>2. j \in {1, 2, 3, 4, 5}
    BY ONLY <1>6, <2>1
  <2>3. j # 1 /\ j # 2 /\ j # 3 /\ j # 4
    BY ONLY <1>3, <1>5, <1>6, <1>8
  <2> QED BY <1>1, <2>1, <2>2, <2>3
<1> QED BY <1>7, <1>8

LEMMA AnswerBody ==
  ASSUME TypeOK, Placed, AnswerRead, cmd = "PP", ScipBody
  PROVE  AnswerRead'
<1>1. PICK line \in Arrivals :
        /\ Consume(line)
        /\ \/ ScipReturns("NO_RESPONSE") \/ ScipReturns("CHECKSUM_ERROR")
           \/ line.k = "lf" /\ (ScipReturns("OK") \/ ScipReturns("UNKNOWN_ERROR"))
           \/ line # Nothing /\ got' = Append(got, line.v) /\ ScipGoesOn("body")
  BY DEF ScipBody
<1>2. PICK answer : answer = Answer("PP")
  OBVIOUS
<1>3. answer \in Seq(Lines) /\ Len(answer) \in {3, 5} /\ rx \in Seq(Lines) /\ got \in Seq(Texts)
  BY <1>2, AnswerLength DEF TypeOK
<1>4. /\ UNCHANGED <<sensor, type, tx, cmd, hostRate>> /\ pc = "body"
      /\ urg'.is_active = urg.is_active
  BY ScipReads DEF ScipBody, openVars
<1>5. ~urg'.is_active
  BY <1>4 DEF Placed
<1>6. /\ Told /\ Len(rx) < Len(answer) /\ EndsIn(rx, answer) /\ Kept(got, Len(rx), answer)
  BY <1>2, <1>4 DEF AnswerRead
<1>7. CASE ScipReturns("NO_RESPONSE") \/ ScipReturns("CHECKSUM_ERROR")
  <2>1. pc' = "scip_done" /\ ret' # "OK"
    BY <1>7, ScipReturnsTypes DEF Error
  <2> QED BY <2>1, AnswerFails
<1>8. CASE line.k = "lf" /\ (ScipReturns("OK") \/ ScipReturns("UNKNOWN_ERROR"))
  <2>1. line # Nothing
    <3>1. Nothing.k # "lf"
      BY DEF Nothing, Text
    <3>2. line.k = "lf"
      BY <1>8
    <3> QED BY ONLY <3>1, <3>2
  <2>2. rx # <<>> /\ rx' = Tail(rx) /\ rx[1].k = "lf"
    BY <1>1, <1>8, <2>1, Found
  <2>3. /\ Len(rx) \in Nat \ {0} /\ 1 \in DOMAIN rx /\ Len(rx') = Len(rx) - 1
        /\ rx' \in Seq(Lines)
    BY <1>3, <2>2, Taken, LenProperties
  <2>4. PICK j : j = 1 + Len(answer) - Len(rx)
    OBVIOUS
  <2>5. j \in 1 .. Len(answer) /\ answer[j].k = "lf"
    BY <1>3, <1>6, <2>2, <2>3, <2>4 DEF EndsIn
  <2>6. j = Len(answer)
    BY ONLY <1>2, <2>5, LastLine
  <2>7. Len(rx) = 1 /\ Len(rx') = 0
    BY <1>3, <2>3, <2>4, <2>6
  <2>8. rx' = <<>>
    BY <2>3, <2>7, EmptySeq
  <2>9. got' = got /\ pc' = "scip_done"
    BY <1>8, ScipReturnsTypes DEF Error
  <2>10. Answer("PP")' = answer /\ Told'
    BY <1>2, <1>4, <1>6, <2>2, ComesKept
  <2>11. Kept(got', 1, answer)
    BY <1>6, <2>7, <2>9
  <2> QED BY <1>5, <2>8, <2>9, <2>10, <2>11 DEF AnswerRead, AnswerComes
<1>9. CASE line # Nothing /\ got' = Append(got, line.v) /\ ScipGoesOn("body")
  <2>1. rx # <<>> /\ rx' = Tail(rx) /\ rx[1] = line
    BY <1>1, <1>9, Found
  <2>2. Len(rx) \in Nat \ {0} /\ Len(rx') = Len(rx) - 1
    BY <1>3, <2>1, Taken
  <2>3. /\ Answer("PP")' = answer /\ Told' /\ AnswerComes(rx', answer) /\ EndsIn(rx', answer)
        /\ ((\E i \in DOMAIN rx' : EchoOfPP(rx'[i])) => Told')
    BY <1>2, <1>4, <1>6, <2>1, ComesKept
  <2>4. got' = Append(got, rx[1].v)
    BY <1>9, <2>1
  <2>5. Len(rx') < Len(answer) /\ Kept(got', Len(rx'), answer)
    BY <1>3, <1>6, <2>1, <2>2, <2>4, KeptOne
  <2>6. pc' = "body"
    BY <1>9 DEF ScipGoesOn
  <2> QED BY <1>4, <1>5, <2>3, <2>5, <2>6 DEF AnswerRead
<1> QED BY <1>1, <1>7, <1>8, <1>9

\* The answer has been read, and is judged.
LEMMA AnswerJudged ==
  ASSUME TypeOK, Placed, AnswerRead, cmd = "PP", receive_parameter
  PROVE  AnswerRead'
<1>1. /\ pc = "scip_done" /\ pc' = "done"
      /\ UNCHANGED <<sensor, tx, rx, noise, type, hostRate, cmd, got>>
      /\ urg' = CASE Parameter = "OK" -> [urg EXCEPT !.is_active = TRUE,
                                                     !.last_errno = "NO_ERROR"]
                  [] Parameter = "UNKNOWN_ERROR" -> urg
                  [] OTHER -> [urg EXCEPT !.last_errno = Parameter]
  BY DEF receive_parameter, ScipDone, OpenReturns, openVars, scipVars
<1>2. urg \in Fields /\ ~urg.is_active
  BY <1>1 DEF TypeOK, Fields, Placed
<1>3. urg'.is_active => Parameter = "OK"
  BY ONLY <1>1, <1>2 DEF Fields
<1>4. Parameter = "OK" => ret = "OK" /\ AllLines
  BY DEF Parameter
<1>5. PICK answer : answer = Answer("PP")
  OBVIOUS
<1>6. Answer("PP")' = answer /\ Told' = Told /\ AllLines' = AllLines
  BY <1>1, <1>5, AnswerKept DEF Told, SameRate, AllLines
<1>7. /\ (\E i \in DOMAIN rx : EchoOfPP(rx[i])) => Told
      /\ AnswerComes(rx, answer)
      /\ ret = "OK" => Told /\ rx = <<>> /\ Kept(got, 1, answer)
  BY <1>1, <1>5 DEF AnswerRead
<1> QED BY <1>1, <1>3, <1>4, <1>6, <1>7 DEF AnswerRead

LEMMA AnswerStep ==
  ASSUME TypeOK, Placed, AnswerRead, HostStep
  PROVE  AnswerRead'
<1>1. CASE cmd # "PP"
  <2>1. NoEcho(rx) /\ ~urg.is_active
    BY <1>1, AnswerPlain DEF Told
  <2>2. /\ rx' \in {rx, <<>>} \/ (rx # <<>> /\ rx' = Tail(rx))
        /\ ~urg'.is_active
        /\ cmd' # "PP" \/ (pc' = "echo" /\ got' = <<>>)
    BY <1>1, BeforePP
  <2>3. rx \in Seq(Lines)
    BY DEF TypeOK
  <2>4. NoEcho(rx')
    BY <2>1, <2>2, <2>3, NoEchoTail
  <2> QED BY <2>2, <2>4, AnswerNone
<1>2. CASE cmd = "PP"
  <2>1. pc \in {"echo", "status", "body", "scip_done", "done"}
    BY <1>2 DEF Placed, InScip
  <2>2. ~(Open \/ OpenFails \/ Try \/ NotDetected \/ ignore_receive_data \/ OldProtocol
          \/ ChangeNothing \/ change_sensor_baudrate \/ Changed \/ ConnectFailed \/ Connected)
    <3>1. ~Open
      BY ONLY <2>1 DEF Open
    <3>2. ~OpenFails
      BY ONLY <2>1 DEF OpenFails
    <3>3. ~Try
      BY ONLY <2>1 DEF Try
    <3>4. ~NotDetected
      BY ONLY <2>1 DEF NotDetected
    <3>5. ~ignore_receive_data
      BY ONLY <2>1 DEF ignore_receive_data
    <3>6. ~OldProtocol
      BY ONLY <2>1 DEF OldProtocol
    <3>7. ~ChangeNothing
      BY ONLY <2>1 DEF ChangeNothing
    <3>8. ~change_sensor_baudrate
      BY ONLY <2>1 DEF change_sensor_baudrate
    <3>9. ~Changed
      BY ONLY <2>1 DEF Changed
    <3>10. ~ConnectFailed
      BY ONLY <2>1 DEF ConnectFailed
    <3>11. ~Connected
      BY ONLY <2>1 DEF Connected
    <3> QED BY ONLY <3>1, <3>2, <3>3, <3>4, <3>5, <3>6, <3>7, <3>8, <3>9, <3>10, <3>11
  <2>3. ~(AnsweredOldProtocol \/ AnsweredTimeStampMode \/ Answered \/ AnsweredWithData
          \/ TryNext \/ SwitchedMode \/ SensorChanged \/ SensorNotChanged)
    BY ONLY <1>2 DEF AnsweredOldProtocol, AnsweredTimeStampMode, Answered, AnsweredWithData,
       TryNext, SwitchedMode, SensorChanged, SensorNotChanged, ScipDone
  <2>4. ScipEcho \/ ScipStatus \/ ScipBody \/ receive_parameter
    BY ONLY HostStep, <2>2, <2>3 DEF HostStep
  <2> QED BY <1>2, <2>4, AnswerEcho, AnswerStatus, AnswerBody, AnswerJudged
<1> QED BY <1>1, <1>2

\* Only the first line of the answer to PP is an echo of PP.
LEMMA OnlyEcho ==
  ASSUME NEW c \in Commands, NEW j \in 1 .. Len(Answer(c)), EchoOfPP(Answer(c)[j])
  PROVE  j = 1 /\ c = "PP"
<1>1. PICK answer, s : answer = Answer(c) /\ s = Status(c)
  OBVIOUS
<1>2. PICK e, t, p, q, f : /\ e = Text("echo", c) /\ t = Text("stat", s) /\ f = Text("lf", "")
                           /\ p = Text("par", "MODL") /\ q = Text("par", "DMIN")
  OBVIOUS
<1>3. /\ t.k # "echo" /\ p.k # "echo" /\ q.k # "echo" /\ f.k # "echo"
      /\ e.v = c
  BY ONLY <1>2 DEF Text
<1>4. /\ answer[1] = e /\ answer[2] = t /\ answer[Len(answer)] = f
      /\ ~(c = "PP" /\ s = "00") => Len(answer) = 3
      /\ c = "PP" /\ s = "00" => Len(answer) = 5 /\ answer[3] = p /\ answer[4] = q
  BY ONLY <1>1, <1>2, c \in Commands, AnswerLines
<1>5. j \in 1 .. Len(answer) /\ answer[j].k = "echo" /\ answer[j].v = "PP"
  BY <1>1 DEF EchoOfPP
<1>6. CASE ~(c = "PP" /\ s = "00")
  <2>1. Len(answer) = 3
    BY ONLY <1>4, <1>6
  <2>2. j \in {1, 2, 3}
    BY ONLY <1>5, <2>1
  <2>3. j # 2 /\ j # 3
    BY ONLY <1>3, <1>4, <1>5, <2>1
  <2> QED BY ONLY <1>3, <1>4, <1>5, <2>2, <2>3
<1>7. CASE c = "PP" /\ s = "00"
  <2>1. Len(answer) = 5
    BY ONLY <1>4, <1>7
  <2>2. j \in {1, 2, 3, 4, 5}
    BY ONLY <1>5, <2>1
  <2>3. j # 2 /\ j # 3 /\ j # 4 /\ j # 5
    BY ONLY <1>3, <1>4, <1>5, <1>7, <2>1
  <2> QED BY ONLY <1>7, <2>2, <2>3
<1> QED BY <1>6, <1>7

\* Nothing has been told yet, and the host waits.
LEMMA AnswerWaits ==
  ASSUME AnswerRead, ~Told, UNCHANGED <<cmd, pc, got, ret, urg>>,
         (\E i \in DOMAIN rx' : EchoOfPP(rx'[i])) => Told',
         AnswerComes(rx', Answer("PP")')
  PROVE  AnswerRead'
BY DEF AnswerRead

\* PP is answered.
LEMMA AnswerToPP ==
  ASSUME TypeOK, Unheard, Sent, AnswerRead, UNCHANGED hostVars, SensorCommand,
         sensor.mode # "absent", Hears(type, sensor.rate, tx[1].at), tx[1].c = "PP"
  PROVE  AnswerRead'
<1> USE DEF hostVars, openVars, scipVars
<1>1. tx \in Seq(Messages) /\ tx # <<>> /\ tx' = Tail(tx)
  BY DEF SensorCommand, TypeOK, Messages
<1>2. /\ Len(tx) \in Nat \ {0} /\ 1 \in DOMAIN tx /\ Len(tx') = Len(tx) - 1
      /\ tx' \in Seq(Messages)
  BY <1>1, Taken, LenProperties
<1>3. cmd = "PP" /\ Len(tx) = 1 /\ tx[1].at = hostRate
  BY <1>2 DEF Sent
<1>4. tx' = <<>>
  BY <1>2, <1>3, EmptySeq
<1>5. sensor' = After("PP", tx[1].arg) /\ rx' = rx \o Heard(Answer("PP"))
      /\ sensor'.mode # "measuring"
  BY SensorHears
<1>6. After("PP", tx[1].arg) = sensor
  BY DEF After
<1>7. SameRate
  BY <1>3 DEF Hears, SameRate
<1>8. sensor' = sensor /\ sensor.mode \in {"ready", "tm", "scip1"}
  <2>1. sensor.mode \in Modes
    BY DEF TypeOK
  <2> QED BY <1>5, <1>6, <2>1 DEF Modes
<1>9. Told'
  BY <1>3, <1>4, <1>7, <1>8 DEF Told, SameRate
<1>10. PICK answer : answer = Answer("PP")
  OBVIOUS
<1>11. answer \in Seq(Lines) /\ rx \in Seq(Lines) /\ Heard(answer) = answer
  BY <1>7, <1>10, AnswerLength DEF TypeOK, Heard
<1>12. /\ Len(rx') = Len(rx) + Len(answer) /\ Len(rx) \in Nat /\ Len(answer) \in Nat
       /\ DOMAIN rx = 1 .. Len(rx) /\ DOMAIN rx' = 1 .. Len(rx) + Len(answer)
       /\ \A i \in 1 .. Len(rx) : rx'[i] = rx[i]
       /\ \A i \in 1 .. Len(answer) : rx'[Len(rx) + i] = answer[i]
  <2>1. rx' = rx \o answer
    BY <1>5, <1>10, <1>11
  <2> QED BY ONLY <1>11, <2>1, Joined, LenProperties
<1>13. ~Told
  BY <1>1 DEF Told
<1>14. NoEcho(rx)
  BY <1>13, AnswerPlain
<1>15. ASSUME NEW i \in DOMAIN rx', i > Len(rx)
       PROVE  i - Len(rx) \in 1 .. Len(answer) /\ rx'[i] = answer[i - Len(rx)]
  <2>1. i - Len(rx) \in 1 .. Len(answer) /\ Len(rx) + (i - Len(rx)) = i
    BY <1>12, <1>15
  <2> QED BY <1>12, <2>1
<1>16. ASSUME NEW i \in DOMAIN rx', EchoOfPP(rx'[i])
       PROVE  i = Len(rx') - Len(answer) + 1
  <2>1. i > Len(rx)
    BY <1>12, <1>14, <1>16 DEF NoEcho
  <2>2. i - Len(rx) = 1
    BY <1>10, <1>15, <1>16, <2>1, OnlyEcho DEF Commands
  <2> QED BY <1>12, <2>2
<1>17. ASSUME NEW i \in DOMAIN rx', i + Len(answer) - Len(rx') > 0
       PROVE  rx'[i] = answer[i + Len(answer) - Len(rx')]
  <2>1. i > Len(rx) /\ i + Len(answer) - Len(rx') = i - Len(rx)
    BY <1>12, <1>17
  <2> QED BY <1>15, <2>1
<1>18. EndsIn(rx', answer)
  BY <1>17 DEF EndsIn
<1>19. AnswerComes(rx', answer)
  BY <1>16, <1>18 DEF AnswerComes
<1>20. Answer("PP")' = answer
  BY <1>8, <1>10, AnswerKept
<1> QED BY <1>9, <1>13, <1>19, <1>20, AnswerWaits

LEMMA AnswerToOther ==
  ASSUME TypeOK, Unheard, Sent, AnswerRead, UNCHANGED hostVars, SensorCommand,
         tx[1].c # "PP", rx' = rx \o Heard(Answer(tx[1].c))
  PROVE  AnswerRead'
<1> USE DEF hostVars, openVars, scipVars
<1>1. tx \in Seq(Messages) /\ tx # <<>>
  BY DEF SensorCommand, TypeOK, Messages
<1>2. PICK c : c = tx[1].c
  OBVIOUS
<1>3. c \in Commands
  <2>1. tx[1] \in Messages
    BY <1>1, Taken
  <2> QED BY <1>2, <2>1 DEF Messages
<1>4. PICK answer, heard, n : answer = Answer(c) /\ heard = Heard(answer) /\ n = Text("noise", "")
  OBVIOUS
<1>5. answer \in Seq(Lines)
  BY ONLY <1>3, <1>4, AnswerLines
<1>6. /\ heard \in Seq(Lines) /\ Len(heard) = Len(answer)
      /\ \A i \in 1 .. Len(answer) : heard[i] \in {answer[i], n}
  BY ONLY <1>4, <1>5, HeardTypes
<1>7. ~EchoOfPP(n)
  BY <1>4 DEF EchoOfPP, Text
<1>8. ASSUME NEW i \in 1 .. Len(heard)
      PROVE  ~EchoOfPP(heard[i])
  <2>1. ~EchoOfPP(answer[i])
    BY <1>2, <1>3, <1>4, <1>6, OnlyEcho
  <2>2. heard[i] = answer[i] \/ heard[i] = n
    BY ONLY <1>6, <1>8
  <2> QED BY ONLY <1>7, <2>1, <2>2
<1>9. rx \in Seq(Lines) /\ rx' = rx \o heard
  BY <1>2, <1>4 DEF TypeOK
<1>10. /\ Len(rx) \in Nat /\ Len(heard) \in Nat
       /\ DOMAIN rx = 1 .. Len(rx) /\ DOMAIN rx' = 1 .. Len(rx) + Len(heard)
       /\ \A i \in 1 .. Len(rx) : rx'[i] = rx[i]
       /\ \A i \in 1 .. Len(heard) : rx'[Len(rx) + i] = heard[i]
  <2>1. heard \in Seq(Lines)
    BY <1>6
  <2> QED BY ONLY <1>9, <2>1, Joined, LenProperties
<1>11. ~Told
  BY <1>1 DEF Told
<1>12. NoEcho(rx)
  BY <1>11, AnswerPlain
<1>13. ASSUME NEW i \in DOMAIN rx'
       PROVE  ~EchoOfPP(rx'[i])
  <2>1. CASE i \in 1 .. Len(rx)
    BY <1>10, <1>12, <2>1 DEF NoEcho
  <2>2. CASE ~(i \in 1 .. Len(rx))
    <3>1. i - Len(rx) \in 1 .. Len(heard) /\ Len(rx) + (i - Len(rx)) = i
      BY <1>10, <2>2
    <3>2. rx'[i] = heard[i - Len(rx)]
      BY <1>10, <3>1
    <3> QED BY <1>8, <3>1, <3>2
  <2> QED BY <2>1, <2>2
<1>14. AnswerComes(rx', Answer("PP")')
  BY <1>13 DEF AnswerComes
<1> QED BY <1>11, <1>13, <1>14, AnswerWaits

LEMMA AnswerLost ==
  ASSUME TypeOK, AnswerRead, UNCHANGED hostVars, LoseLine
  PROVE  AnswerRead'
<1> USE DEF hostVars, openVars, scipVars
<1>1. UNCHANGED <<sensor, type, tx, cmd, hostRate>> /\ rx # <<>> /\ rx' = Tail(rx)
  BY DEF LoseLine
<1>2. PICK answer : answer = Answer("PP")
  OBVIOUS
<1>3. /\ Answer("PP")' = answer /\ Told' = Told
      /\ (\E i \in DOMAIN rx' : EchoOfPP(rx'[i])) => Told'
      /\ AnswerComes(rx', answer) /\ (EndsIn(rx, answer) => EndsIn(rx', answer))
  BY <1>1, <1>2, ComesKept
<1>4. /\ Len(rx) \in Nat \ {0} /\ Len(rx') = Len(rx) - 1
      /\ Len(answer) \in Nat /\ Len(got) \in Nat
  BY <1>1, <1>2, Taken, AnswerLength, LenProperties DEF TypeOK
<1>5. Kept(got, Len(rx), answer) => Kept(got, Len(rx'), answer)
  BY <1>4 DEF Kept
<1>6. cmd = "PP" /\ pc \in {"status", "body"} =>
        /\ Told /\ Len(rx) < Len(answer)
        /\ EndsIn(rx, answer) /\ Kept(got, Len(rx), answer)
  BY <1>2 DEF AnswerRead
<1>7. /\ cmd = "PP" /\ pc \in {"echo", "status"} => got = <<>>
      /\ ~(cmd = "PP" /\ pc = "scip_done" /\ ret = "OK") /\ ~urg.is_active
  BY <1>1 DEF AnswerRead
<1> QED BY <1>3, <1>4, <1>5, <1>6, <1>7 DEF AnswerRead

LEMMA AnswerDamaged ==
  ASSUME TypeOK, AnswerRead, UNCHANGED hostVars, DamageLine
  PROVE  AnswerRead'
<1> USE DEF hostVars, openVars, scipVars
<1>1. /\ UNCHANGED <<sensor, tx>> /\ rx # <<>>
      /\ DOMAIN rx' = DOMAIN rx /\ Len(rx') = Len(rx)
      /\ \A i \in DOMAIN rx : rx'[i].k = rx[i].k /\ rx'[i].v = rx[i].v
  BY Damaged
<1>2. PICK answer : answer = Answer("PP")
  OBVIOUS
<1>3. Answer("PP")' = answer /\ Told' = Told
  BY <1>1, <1>2, AnswerKept DEF Told, SameRate
<1>4. /\ AnswerComes(rx, answer) => AnswerComes(rx', answer)
      /\ EndsIn(rx, answer) => EndsIn(rx', answer)
      /\ (\E i \in DOMAIN rx' : EchoOfPP(rx'[i])) => \E i \in DOMAIN rx : EchoOfPP(rx[i])
  BY <1>1, EndsSame
<1>5. /\ (\E i \in DOMAIN rx : EchoOfPP(rx[i])) => Told
      /\ AnswerComes(rx, answer)
      /\ cmd = "PP" /\ pc \in {"status", "body"} =>
           /\ Told /\ Len(rx) < Len(answer)
           /\ EndsIn(rx, answer) /\ Kept(got, Len(rx), answer)
      /\ cmd = "PP" /\ pc \in {"echo", "status"} => got = <<>>
      /\ ~(cmd = "PP" /\ pc = "scip_done" /\ ret = "OK") /\ ~urg.is_active
  BY <1>1, <1>2 DEF AnswerRead
<1> QED BY <1>1, <1>3, <1>4, <1>5 DEF AnswerRead

LEMMA AnswerEnvironment ==
  ASSUME TypeOK, Unheard, Sent, AnswerRead, UNCHANGED hostVars,
         SensorCommand \/ SensorScan \/ LoseLine \/ DamageLine
  PROVE  AnswerRead'
<1>1. CASE SensorCommand
  <2>1. CASE sensor' = sensor /\ rx' = rx
    <3>1. ~Told
      BY <1>1 DEF SensorCommand, Told
    <3>2. NoEcho(rx')
      BY <2>1, <3>1, AnswerPlain
    <3> QED BY <3>1, <3>2, AnswerWaits DEF NoEcho, AnswerComes, hostVars, openVars, scipVars
  <2>2. CASE /\ sensor.mode # "absent" /\ Hears(type, sensor.rate, tx[1].at)
             /\ rx' = rx \o Heard(Answer(tx[1].c))
    BY <1>1, <2>2, AnswerToPP, AnswerToOther
  <2> QED BY <1>1, <2>1, <2>2, SensorHears
<1>2. CASE SensorScan
  <2>1. ~Told /\ sensor.mode = "measuring"
    BY <1>2 DEF SensorScan, Told
  <2>2. \A i \in DOMAIN rx' : rx'[i].k \in {"scan", "noise"}
    BY <1>2, <2>1, Scanned DEF Unheard
  <2>3. NoEcho(rx')
    BY <2>2 DEF NoEcho, EchoOfPP
  <2> QED BY <2>1, <2>3, AnswerWaits DEF NoEcho, AnswerComes, hostVars, openVars, scipVars
<1>3. CASE LoseLine \/ DamageLine
  BY <1>3, AnswerLost, AnswerDamaged
<1> QED BY <1>1, <1>2, <1>3

-----------------------------------------------------------------------------
\* The invariant.

LEMMA PlacedEnvironment ==
  ASSUME Placed, UNCHANGED hostVars
  PROVE  Placed'
BY DEF Placed, Trying, Settled, Bound, TryList, hostVars, openVars, scipVars

LEMMA OpenInit ==
  ASSUME Init
  PROVE  OpenInv
<1>1. world \in World /\ sensor = world.sensor /\ type \in Connections
  BY OpenAssumption DEF Init
<1>2. world.request \in Rates /\ sensor \in [mode : Modes, rate : Rates]
  BY <1>1 DEF World
<1>3. TypeOK
  <2>1. urg \in [is_active : BOOLEAN, is_sending : BOOLEAN, is_laser_on : BOOLEAN,
                 last_errno : Error \cup {"NO_ERROR"}]
    BY DEF Init
  <2>2. /\ tx \in Seq([c : Commands, arg : Rates \cup {0}, at : Rates])
        /\ rx \in Seq(Lines) /\ got \in Seq(Texts) /\ noise \in Nat /\ try \in 1 .. 4
    BY DEF Init
  <2>3. world \in Worlds /\ baudrate \in Rates /\ hostRate \in Rates
    BY <1>2 DEF Init
  <2>4. /\ cmd \in Commands /\ good \in BOOLEAN /\ ret \in Error \cup {"OK"}
        /\ resume \in {"idle", "old_protocol", "change", "changed", "try"}
        /\ pc \in {"idle", "try", "echo", "status", "body", "scip_done", "drain",
                   "old_protocol", "change", "changed", "connected", "connect_failed",
                   "done", "failed"}
    BY DEF Init, Commands
  <2> QED BY <1>1, <1>2, <2>1, <2>2, <2>3, <2>4 DEF TypeOK
<1>4. pc = "idle" /\ cmd = "QT" /\ ~urg.is_active /\ tx = <<>> /\ rx = <<>>
  BY DEF Init
<1>5. Placed
  BY <1>4 DEF Placed, Trying, Settled, Bound, InScip
<1>6. Unheard
  BY <1>4 DEF Unheard, Between, EchoRead
<1>7. Sent
  BY <1>4 DEF Sent
<1>8. AnswerRead
  BY <1>4 DEF AnswerRead, AnswerComes
<1> QED BY <1>3, <1>5, <1>6, <1>7, <1>8 DEF OpenInv

LEMMA OpenNext ==
  ASSUME OpenInv, Next
  PROVE  OpenInv'
<1>0. TypeOK /\ Placed /\ Unheard /\ Sent /\ AnswerRead /\ UNCHANGED world
  BY DEF OpenInv, Next
<1>1. CASE HostStep
  BY <1>0, <1>1, HostStepTypes, PlacedStep, UnheardStep, SentStep, AnswerStep DEF OpenInv
<1>2. CASE Environment(SensorCommand \/ SensorScan \/ LoseLine \/ DamageLine)
  <2>1. UNCHANGED hostVars /\ (SensorCommand \/ SensorScan \/ LoseLine \/ DamageLine)
    BY <1>2 DEF Environment
  <2>2. TypeOK'
    BY <1>0, <2>1, EnvironmentTypes DEF TypeOK, Messages, hostVars, openVars, scipVars
  <2> QED BY <1>0, <2>1, <2>2, PlacedEnvironment, UnheardEnvironment, SentEnvironment,
             AnswerEnvironment DEF OpenInv
<1> QED BY <1>1, <1>2 DEF Next

LEMMA OpenStutter ==
  ASSUME OpenInv, UNCHANGED vars
  PROVE  OpenInv'
<1> USE DEF vars, sensorVars, openVars, scipVars
<1>1. TypeOK'
  BY DEF OpenInv, TypeOK
<1>2. Placed'
  BY PlacedEnvironment DEF OpenInv, hostVars
<1>3. Unheard'
  BY DEF OpenInv, Unheard, QTHeard, EchoRead
<1>4. Sent'
  BY DEF OpenInv, Sent
<1>5. AnswerRead'
  <2>1. Answer("PP")' = Answer("PP") /\ Told' = Told
    BY AnswerKept DEF Told, SameRate
  <2> QED BY <2>1 DEF OpenInv, AnswerRead, AllLines
<1> QED BY <1>1, <1>2, <1>3, <1>4, <1>5 DEF OpenInv

LEMMA OpenInvariant == Spec => []OpenInv
<1>1. Init => OpenInv
  BY OpenInit
<1>2. OpenInv /\ [Next]_vars => OpenInv'
  BY OpenNext, OpenStutter
<1> QED BY <1>1, <1>2, PTL DEF Spec

\* Whatever the sensor does while it is being opened, no field of urg_t, no
\* line and no command is ever outside its type, and connect_urg_device tries no
\* more rates than there are.
THEOREM OpenTypeCorrect == Spec => []TypeOK
<1>1. OpenInv => TypeOK
  BY DEF OpenInv
<1> QED BY <1>1, OpenInvariant, PTL

-----------------------------------------------------------------------------
\* What has been read when the sensor is active.

\* A complete answer to PP says that the sensor is ready.
LEMMA CompleteAnswer ==
  ASSUME TypeOK, Told, Kept(got, 1, Answer("PP")), AllLines
  PROVE  /\ sensor.mode = "ready"
         /\ Len(got) = 3 /\ got[2] = "MODL" /\ got[3] = "DMIN"
<1>1. PICK answer, s : answer = Answer("PP") /\ s = Status("PP")
  OBVIOUS
<1>2. PICK p, q : p = Text("par", "MODL") /\ q = Text("par", "DMIN")
  OBVIOUS
<1>3. "PP" \in Commands
  BY DEF Commands
<1>4. /\ s # "00" => Len(answer) = 3
      /\ s = "00" => Len(answer) = 5 /\ answer[3] = p /\ answer[4] = q
  BY ONLY <1>1, <1>2, <1>3, AnswerLines
<1>5. Len(got) \in Nat /\ DOMAIN got = 1 .. Len(got) /\ Len(got) >= 3
  <2>1. Len(got) >= Len(Parameters) + 1 /\ Len(Parameters) = 2
    BY DEF AllLines, Parameters
  <2>2. got \in Seq(Texts)
    BY DEF TypeOK
  <2>3. Len(got) \in Nat /\ DOMAIN got = 1 .. Len(got)
    BY ONLY <2>2, LenProperties
  <2> QED BY ONLY <2>1, <2>3
<1>6. /\ Len(got) + 1 <= Len(answer) - 1
      /\ Len(got) + 1 = Len(answer) - 1 => \A i \in DOMAIN got : got[i] = answer[i + 1].v
  BY ONLY <1>1, Kept(got, 1, Answer("PP")) DEF Kept
<1>7. s = "00"
  <2>1. ASSUME s # "00" PROVE FALSE
    <3>1. Len(answer) = 3
      BY ONLY <1>4, <2>1
    <3>2. Len(got) \in Nat /\ Len(got) >= 3 /\ Len(got) + 1 <= Len(answer) - 1
      BY ONLY <1>5, <1>6
    <3> QED BY ONLY <3>1, <3>2
  <2> QED BY <2>1
<1>8. Len(answer) = 5
  BY ONLY <1>4, <1>7
<1>9. Len(got) = 3
  BY ONLY <1>5, <1>6, <1>8
<1>10. got[2] = answer[3].v /\ got[3] = answer[4].v
  BY ONLY <1>5, <1>6, <1>8, <1>9
<1>11. p.v = "MODL" /\ q.v = "DMIN"
  BY ONLY <1>2 DEF Text
<1>12. got[2] = "MODL" /\ got[3] = "DMIN"
  BY ONLY <1>4, <1>7, <1>10, <1>11
<1>13. sensor.mode = "ready"
  BY <1>1, <1>7 DEF Told, Status
<1> QED BY <1>9, <1>12, <1>13

\* Whatever the sensor was doing before, and whatever is late, lost or damaged
\* on the line: when urg_open sets is_active, the sensor waits for commands at
\* the rate asked for, every parameter receive_parameter looks for was among
\* the lines it read, and no command and no line is under way.
THEOREM OpenAlwaysReady == Spec => []OpenLeavesReady
<1>1. OpenInv => OpenLeavesReady
  <2> SUFFICES ASSUME OpenInv, Opened
               PROVE  /\ sensor.mode = "ready"
                      /\ type # "ethernet" => hostRate = baudrate /\ sensor.rate = baudrate
                      /\ \A i \in DOMAIN Parameters : \E j \in DOMAIN got : got[j] = Parameters[i]
                      /\ rx = <<>> /\ tx = <<>>
    BY DEF OpenLeavesReady
  <2>1. /\ TypeOK /\ cmd = "PP" /\ (type # "ethernet" => hostRate = baudrate)
        /\ Told /\ rx = <<>> /\ Kept(got, 1, Answer("PP")) /\ AllLines
    BY DEF OpenInv, Opened, Placed, Settled, AnswerRead
  <2>2. tx = <<>> /\ (type # "ethernet" => hostRate = sensor.rate)
    BY <2>1 DEF Told, SameRate
  <2>3. sensor.mode = "ready" /\ Len(got) = 3 /\ got[2] = "MODL" /\ got[3] = "DMIN"
    BY <2>1, CompleteAnswer
  <2>4. DOMAIN got = 1 .. 3
    BY <2>1, <2>3, LenProperties DEF TypeOK
  <2>5. \A i \in DOMAIN Parameters : \E j \in DOMAIN got : got[j] = Parameters[i]
    <3>1. DOMAIN Parameters = {1, 2} /\ Parameters[1] = "MODL" /\ Parameters[2] = "DMIN"
      BY DEF Parameters
    <3> QED BY <2>3, <2>4, <3>1
  <2> QED BY <2>1, <2>2, <2>3, <2>5
<1> QED BY <1>1, OpenInvariant, PTL

-----------------------------------------------------------------------------
\* On a calm line: what the sensor knows of the host.

\* Nothing has been sent yet.
Untouched == /\ sensor = world.sensor /\ tx = <<>>
             /\ rx # <<>> => sensor.mode = "measuring"

\* The sensor is at none of the first n rates, and has heard nothing.
Unreached(n) ==
  /\ type # "ethernet" /\ sensor = world.sensor /\ sensor.mode # "measuring"
  /\ rx = <<>> /\ \A i \in DOMAIN tx : tx[i].at # sensor.rate
  /\ \A j \in 1 .. n : TryList[j] # sensor.rate

\* The sensor is in the mode that the command is sent for.
ModeFits == CASE cmd = "QT" -> sensor.mode # "absent"
              [] cmd = "TM2" -> sensor.mode = "tm"
              [] cmd = "SCIP2.0" -> sensor.mode = "scip1"
              [] OTHER -> sensor.mode = "ready"

\* The command is on its way.
Asked ==
  /\ SameRate /\ ModeFits /\ rx = <<>>
  /\ Len(tx) = 1 /\ tx[1].c = cmd /\ Hears(type, sensor.rate, tx[1].at)
  /\ cmd = "SS" => tx[1].arg = baudrate /\ type # "ethernet"
  /\ sensor.mode = "measuring" => try = 1

\* The status a sensor in this mode answers a command with, and the answer.
Value(c, mode) == CASE c = "QT" /\ mode = "tm" -> "0E"
                    [] c = "QT" /\ mode = "scip1" -> "E"
                    [] c = "SCIP2.0" -> "0"
                    [] OTHER -> "00"

Reply(c, v) ==
  <<Text("echo", c), Text("stat", v)>>
    \o (IF c = "PP" THEN <<Text("par", "MODL"), Text("par", "DMIN")>> ELSE <<>>)
    \o <<Text("lf", "")>>

\* The mode and the rate of the sensor when it has answered.
Obeyed ==
  /\ IF cmd = "QT" THEN sensor.mode \in {"ready", "tm", "scip1"} ELSE sensor.mode = "ready"
  /\ IF cmd = "SS" THEN type # "ethernet" /\ sensor.rate = baudrate ELSE SameRate

\* The last lines of an answer
Rest(lines, answer) ==
  /\ Len(lines) <= Len(answer)
  /\ \A i \in 1 .. Len(lines) : lines[i] = answer[i + Len(answer) - Len(lines)]

\* The answer is being read, and has been kept from its status on.
Reads(answer) ==
  /\ Rest(rx, answer)
  /\ pc = "echo" => Len(rx) = Len(answer)
  /\ pc = "status" => Len(rx) = Len(answer) - 1
  /\ pc = "body" => rx # <<>> /\ got # <<>> /\ Len(got) + Len(rx) = Len(answer) - 1
  /\ pc = "scip_done" => rx = <<>> /\ ret = "OK" /\ Len(got) = Len(answer) - 2
  /\ pc \in {"body", "scip_done"} => good /\ \A i \in 1 .. Len(got) : got[i] = answer[i + 1].v

Replied == tx = <<>> /\ Obeyed /\ Reads(Reply(cmd, Value(cmd, sensor.mode)))

\* A measurement at the rate asked for ends, or is about to.
Interrupted ==
  /\ sensor.mode \in {"measuring", "ready"} /\ SameRate /\ cmd = "QT" /\ try = 1
  /\ \A i \in DOMAIN tx : tx[i].c = "QT" /\ Hears(type, sensor.rate, tx[i].at)
  /\ sensor.mode = "measuring" => tx # <<>>

\* Nothing is under way to or from a sensor in this mode.
Still(mode) == rx = <<>> /\ tx = <<>> /\ sensor.mode = mode /\ SameRate

\* The rate of the sensor is looked for.
Searching == Bound({"try"}) \/ (pc \in InScip /\ cmd = "QT")

\* Where the thread is, and how far it has come with the sensor: not reached at
\* the rates tried, asked, answered, interrupted in its measurement, or still.
Where ==
  \/ pc = "failed"
  \/ pc \in {"idle", "try"} /\ try = 1 /\ Untouched
  \/ Bound({"try"}) /\ try > 1 /\ Unreached(try - 1) /\ (pc = "try" => tx = <<>>)
  \/ pc = "echo" /\ cmd = "QT" /\ Unreached(try)
  \/ pc = "scip_done" /\ cmd = "QT" /\ Unreached(try) /\ tx = <<>> /\ ret = "NO_RESPONSE"
  \/ pc = "echo" /\ Asked
  \/ pc \in InScip /\ Replied
  \/ pc = "echo" /\ Interrupted /\ rx # <<>> /\ rx[1].k # "echo"
  \/ pc = "scip_done" /\ ret = "INVALID_RESPONSE" /\ Interrupted
  \/ pc = "drain" /\ resume = "change" /\ Interrupted
  \/ Bound({"old_protocol"}) /\ Still("scip1")
  \/ Bound({"change", "changed", "connected"}) /\ Still("ready")
  \/ pc = "done" /\ urg.is_active

\* Which sensor can be found.
Findable == Calm /\ world.sensor.mode # "absent"

\* Which rates there are to try, and that QT is written in front of a drain at
\* the first of them only.
Ways ==
  /\ type = "ethernet" => try = 1
  /\ type # "ethernet" => baudrate = world.request
  /\ pc = "idle" => try = 1 /\ baudrate = world.request
  /\ Searching /\ try = 1 => urg.is_sending
  /\ Searching /\ try > 1 => ~urg.is_laser_on

\* The invariant from which FindsSensor follows.
FindInv == /\ world.sensor.mode = "absent" => sensor.mode = "absent"
           /\ Findable => Ways /\ Where
-----------------------------------------------------------------------------
\* Answers and their ends.

Statuses == {"00", "0", "0E", "E"}

LEMMA ValueTypes ==
  ASSUME NEW c, NEW mode
  PROVE  Value(c, mode) \in Statuses
BY DEF Value, Statuses

LEMMA TextParts ==
  ASSUME NEW k, NEW v
  PROVE  Text(k, v).k = k /\ Text(k, v).v = v /\ Text(k, v).ok = TRUE
BY DEF Text

LEMMA ReplyLines ==
  ASSUME NEW c \in Commands, NEW v \in Statuses
  PROVE  /\ Reply(c, v) \in Seq(Lines) /\ Len(Reply(c, v)) \in {3, 5}
         /\ (Len(Reply(c, v)) = 5 <=> c = "PP")
         /\ Reply(c, v)[1] = Text("echo", c) /\ Reply(c, v)[2] = Text("stat", v)
         /\ Reply(c, v)[Len(Reply(c, v))] = Text("lf", "")
         /\ c = "PP" => /\ Reply(c, v)[3] = Text("par", "MODL")
                       /\ Reply(c, v)[4] = Text("par", "DMIN")
<1> PICK answer : answer = Reply(c, v)
  OBVIOUS
<1> DEFINE e == Text("echo", c)
           s == Text("stat", v)
           l == Text("lf", "")
           p == Text("par", "MODL")
           q == Text("par", "DMIN")
<1>1. e \in Lines /\ s \in Lines /\ l \in Lines /\ p \in Lines /\ q \in Lines
  BY TextTypes DEF Texts, Statuses
<1>2. answer = (<<e, s>> \o (IF c = "PP" THEN <<p, q>> ELSE <<>>)) \o <<l>>
  BY DEF Reply
<1>9. SUFFICES /\ answer \in Seq(Lines) /\ Len(answer) \in {3, 5}
               /\ (Len(answer) = 5 <=> c = "PP")
               /\ answer[1] = e /\ answer[2] = s /\ answer[Len(answer)] = l
               /\ c = "PP" => answer[3] = p /\ answer[4] = q
  OBVIOUS
<1> HIDE DEF e, s, l, p, q
<1>3. CASE c # "PP"
  <2>1. answer = <<e, s>> \o <<>> \o <<l>>
    BY <1>2, <1>3
  <2>2. /\ answer \in Seq(Lines) /\ Len(answer) = 3
        /\ answer[1] = e /\ answer[2] = s /\ answer[3] = l
    BY <1>1, <2>1, Short
  <2> QED BY <1>3, <2>2
<1>4. CASE c = "PP"
  <2>1. answer = <<e, s>> \o <<p, q>> \o <<l>>
    BY <1>2, <1>4
  <2>2. /\ answer \in Seq(Lines) /\ Len(answer) = 5
        /\ answer[1] = e /\ answer[2] = s /\ answer[3] = p /\ answer[4] = q /\ answer[5] = l
    BY <1>1, <2>1, Long
  <2> QED BY <1>4, <2>2
<1> QED BY <1>3, <1>4

\* One line of the rest is read.
LEMMA RestTail ==
  ASSUME NEW s \in Seq(Lines), NEW t \in Seq(Lines), Rest(s, t), s # <<>>
  PROVE  /\ s[1] = t[Len(t) - Len(s) + 1]
         /\ Rest(Tail(s), t) /\ Len(Tail(s)) = Len(s) - 1
         /\ Len(s) \in 1 .. Len(t) /\ Len(t) \in Nat
<1>1. /\ Len(s) \in Nat \ {0} /\ Len(t) \in Nat
      /\ Len(Tail(s)) = Len(s) - 1
      /\ \A i \in 1 .. Len(s) - 1 : Tail(s)[i] = s[i + 1]
  BY Taken, LenProperties
<1>2. Len(s) <= Len(t) /\ \A i \in 1 .. Len(s) : s[i] = t[i + Len(t) - Len(s)]
  BY DEF Rest
<1>3. s[1] = t[Len(t) - Len(s) + 1]
  <2>1. 1 \in 1 .. Len(s) /\ 1 + Len(t) - Len(s) = Len(t) - Len(s) + 1
    BY <1>1
  <2> QED BY <1>2, <2>1
<1>4. ASSUME NEW i \in 1 .. Len(Tail(s))
      PROVE  Tail(s)[i] = t[i + Len(t) - Len(Tail(s))]
  <2>1. i + 1 \in 1 .. Len(s) /\ i \in 1 .. Len(s) - 1
        /\ i + 1 + Len(t) - Len(s) = i + Len(t) - Len(Tail(s))
    BY <1>1, <1>4
  <2> QED BY <1>1, <1>2, <2>1
<1> QED BY <1>1, <1>2, <1>3, <1>4 DEF Rest

\* A calm line answers every read: nothing comes only when nothing is to come.
LEMMA CalmRead ==
  ASSUME TypeOK, Findable, NEW line \in Arrivals, Consume(line)
  PROVE  \/ /\ line = Nothing /\ rx = <<>> /\ tx = <<>> /\ rx' = <<>>
            /\ sensor.mode # "measuring"
         \/ rx # <<>> /\ line = rx[1] /\ rx' = Tail(rx) /\ line \in Lines /\ line # Nothing
<1>1. \A l \in Lines : l # Nothing
  <2>1. Nothing.k = "none" /\ \A l \in Lines : l.k # "none"
    BY DEF Nothing, Text, Lines
  <2> QED BY <2>1
<1>2. ~world.late /\ ~world.pauses
  BY DEF Findable, Calm
<1>3. CASE line = Nothing
  <2>1. Silent
    <3>1. rx # <<>> => Head(rx) \in Lines
      BY Taken DEF TypeOK
    <3> QED BY <1>1, <1>3, <3>1 DEF Arrivals
  <2>2. rx = <<>> /\ tx = <<>> /\ sensor.mode # "measuring"
    BY <1>2, <2>1 DEF Silent
  <2> QED BY <1>3, <2>2 DEF Consume
<1>4. CASE line # Nothing
  BY <1>4, Found
<1> QED BY <1>3, <1>4

\* The sensor answers the command it was asked.
LEMMA Answers ==
  ASSUME TypeOK, Asked, SensorCommand, UNCHANGED hostVars, pc = "echo"
  PROVE  Replied'
<1> USE DEF hostVars, openVars, scipVars
<1>1. /\ tx \in Seq(Messages) /\ rx = <<>> /\ Len(tx) = 1 /\ tx[1].c = cmd /\ SameRate
      /\ type = "ethernet" \/ tx[1].at = sensor.rate
      /\ cmd \in Commands /\ UNCHANGED <<cmd, pc, type, baudrate, hostRate>>
  BY DEF Asked, Hears, TypeOK, Messages
<1>2. tx # <<>> /\ Head(tx) = tx[1] /\ Tail(tx) = <<>>
  <2>1. tx # <<>>
    BY <1>1
  <2>2. Head(tx) = tx[1] /\ Tail(tx) \in Seq(Messages) /\ Len(Tail(tx)) = 0
    BY ONLY <1>1, <2>1, Taken
  <2> QED BY <2>1, <2>2, EmptySeq
<1>3. sensor.mode # "absent" /\ sensor.mode \in Modes
  BY <1>1 DEF Asked, ModeFits, TypeOK, Commands
<1>4. /\ tx' = <<>> /\ sensor' = After(cmd, tx[1].arg)
      /\ rx' = rx \o Heard(Answer(cmd))
  BY <1>1, <1>2, <1>3 DEF SensorCommand
<1>5. rx' = Answer(cmd)
  <2>1. Answer(cmd) \in Seq(Lines)
    BY <1>1, AnswerLines
  <2>2. Heard(Answer(cmd)) = Answer(cmd)
    BY <1>1, <2>1, HeardTypes
  <2> QED BY <1>1, <1>4, <2>1, <2>2, ConcatEmptySeq
<1>6. Obeyed' /\ Status(cmd) = Value(cmd, sensor'.mode)
  <2>1. cmd \in {"QT", "SCIP2.0", "TM2", "SS", "PP"} /\ sensor \in [mode : Modes, rate : Rates]
    BY DEF TypeOK, Commands
  <2>2. /\ sensor.mode \in {"ready", "measuring", "tm", "scip1"}
        /\ cmd = "TM2" => sensor.mode = "tm"
        /\ cmd = "SCIP2.0" => sensor.mode = "scip1"
        /\ cmd \in {"SS", "PP"} => sensor.mode = "ready"
        /\ cmd = "SS" => tx[1].arg = baudrate /\ type # "ethernet"
    BY <1>3, <2>1 DEF Asked, ModeFits, Modes
  <2>3. Status(cmd) = CASE cmd = "QT" /\ sensor.mode = "tm" -> "0E"
                        [] cmd = "QT" /\ sensor.mode = "scip1" -> "E"
                        [] cmd = "SCIP2.0" -> "0"
                        [] OTHER -> "00"
    <3>1. cmd = "SS" => Status(cmd) = "00"
      BY <2>2 DEF Status
    <3>2. cmd = "PP" => Status(cmd) = "00"
      BY <2>2 DEF Status
    <3>3. cmd = "TM2" => Status(cmd) = "00"
      BY <2>2 DEF Status
    <3>4. cmd = "SCIP2.0" => Status(cmd) = "0"
      <4>1. SUFFICES ASSUME cmd = "SCIP2.0" PROVE Status("SCIP2.0") = "0"
        OBVIOUS
      <4>2. sensor.mode = "scip1"
        BY <2>2, <4>1
      <4> QED BY <4>2 DEF Status
    <3>5. cmd = "QT" => Status(cmd) = IF sensor.mode = "tm" THEN "0E"
                                      ELSE IF sensor.mode = "scip1" THEN "E" ELSE "00"
      BY <2>2 DEF Status
    <3> QED BY <2>1, <3>1, <3>2, <3>3, <3>4, <3>5
  <2>4. CASE cmd = "QT"
    <3>1. sensor' = IF sensor.mode = "measuring" THEN [sensor EXCEPT !.mode = "ready"] ELSE sensor
      BY <1>4, <2>4 DEF After
    <3>2. /\ sensor'.mode = IF sensor.mode = "measuring" THEN "ready" ELSE sensor.mode
          /\ sensor'.rate = sensor.rate
      BY <2>1, <3>1
    <3>3. Value(cmd, sensor'.mode) = Status(cmd)
      BY <2>2, <2>3, <2>4, <3>2 DEF Value
    <3> QED BY <1>1, <2>2, <2>4, <3>2, <3>3 DEF Obeyed, SameRate
  <2>5. CASE cmd \in {"TM2", "SCIP2.0"}
    <3>1. sensor' = [sensor EXCEPT !.mode = "ready"]
      BY <1>4, <2>2, <2>5 DEF After
    <3>2. sensor'.mode = "ready" /\ sensor'.rate = sensor.rate
      BY <2>1, <3>1
    <3>3. Value(cmd, sensor'.mode) = Status(cmd)
      BY <2>2, <2>3, <2>5, <3>2 DEF Value
    <3> QED BY <1>1, <2>2, <2>5, <3>2, <3>3 DEF Obeyed, SameRate
  <2>6. CASE cmd = "PP"
    <3>1. sensor' = sensor
      BY <1>4, <2>2, <2>6 DEF After
    <3>2. Value(cmd, sensor'.mode) = Status(cmd)
      BY <2>2, <2>3, <2>6 DEF Value
    <3> QED BY <1>1, <2>2, <2>6, <3>1, <3>2 DEF Obeyed, SameRate
  <2>7. CASE cmd = "SS"
    <3>1. Status("SS") = "00"
      BY <2>3, <2>7
    <3>2. sensor' = [sensor EXCEPT !.rate = tx[1].arg]
      BY <1>4, <2>2, <2>7, <3>1 DEF After
    <3>3. sensor'.mode = "ready" /\ sensor'.rate = baudrate
      BY <2>1, <2>2, <2>7, <3>2
    <3>4. Value(cmd, sensor'.mode) = Status(cmd)
      BY <2>2, <2>3, <2>7, <3>3 DEF Value
    <3> QED BY <1>1, <2>2, <2>7, <3>3, <3>4 DEF Obeyed
  <2> QED BY <2>1, <2>4, <2>5, <2>6, <2>7
<1>7. PICK v, answer : v = Value(cmd, sensor'.mode) /\ answer = Reply(cmd, v)
  OBVIOUS
<1>8. /\ answer \in Seq(Lines) /\ Len(answer) \in {3, 5} /\ (Len(answer) = 5 <=> cmd = "PP")
      /\ answer[1] = Text("echo", cmd) /\ answer[2] = Text("stat", v)
      /\ answer[Len(answer)] = Text("lf", "")
      /\ cmd = "PP" => answer[3] = Text("par", "MODL") /\ answer[4] = Text("par", "DMIN")
  <2>1. cmd \in Commands /\ v \in Statuses
    BY <1>1, <1>7, ValueTypes
  <2> QED BY ONLY <1>7, <2>1, ReplyLines
<1>9. /\ rx' \in Seq(Lines) /\ Len(rx') = IF cmd = "PP" THEN 5 ELSE 3
      /\ rx'[1] = Text("echo", cmd) /\ rx'[2] = Text("stat", v)
      /\ rx'[Len(rx')] = Text("lf", "")
      /\ cmd = "PP" => rx'[3] = Text("par", "MODL") /\ rx'[4] = Text("par", "DMIN")
  <2>1. cmd = "PP" => Status(cmd) = "00"
    BY <1>6 DEF Value
  <2> QED BY <1>1, <1>5, <1>6, <1>7, <2>1, AnswerLines
<1>10. Len(rx') = Len(answer) /\ \A i \in 1 .. Len(rx') : rx'[i] = answer[i]
  <2>1. CASE cmd = "PP"
    <3>1. ASSUME NEW i \in 1 .. 5 PROVE rx'[i] = answer[i]
      <4>1. i = 1 \/ i = 2 \/ i = 3 \/ i = 4 \/ i = 5
        OBVIOUS
      <4> QED BY ONLY <1>8, <1>9, <2>1, <4>1
    <3> QED BY ONLY <1>8, <1>9, <2>1, <3>1
  <2>2. CASE cmd # "PP"
    <3>1. ASSUME NEW i \in 1 .. 3 PROVE rx'[i] = answer[i]
      <4>1. i = 1 \/ i = 2 \/ i = 3
        OBVIOUS
      <4> QED BY ONLY <1>8, <1>9, <2>2, <4>1
    <3> QED BY ONLY <1>8, <1>9, <2>2, <3>1
  <2> QED BY <2>1, <2>2
<1>11. Rest(rx', answer)
  <2>1. Len(answer) \in Nat
    BY <1>8, LenProperties
  <2>2. \A i \in 1 .. Len(rx') : i + Len(answer) - Len(rx') = i
    BY <1>10, <2>1
  <2> QED BY <1>10, <2>1, <2>2 DEF Rest
<1> QED BY <1>1, <1>4, <1>6, <1>7, <1>10, <1>11 DEF Replied, Reads

-----------------------------------------------------------------------------
\* The sensor's steps.

LEMMA UnreachedCommand ==
  ASSUME TypeOK, NEW n, Unreached(n), SensorCommand, UNCHANGED <<world, hostVars>>
  PROVE  Unreached(n)'
<1> USE DEF hostVars, openVars
<1>1. /\ tx \in Seq(Messages) /\ tx # <<>> /\ tx' = Tail(tx)
      /\ type # "ethernet" /\ \A i \in DOMAIN tx : tx[i].at # sensor.rate
  BY DEF Unreached, SensorCommand, TypeOK, Messages
<1>2. /\ Len(tx) \in Nat \ {0} /\ Head(tx) = tx[1] /\ DOMAIN tx = 1 .. Len(tx)
      /\ DOMAIN Tail(tx) = 1 .. Len(tx) - 1
      /\ \A i \in 1 .. Len(tx) - 1 : Tail(tx)[i] = tx[i + 1]
  BY ONLY <1>1, Taken, LenProperties
<1>3. Head(tx).at # sensor.rate
  BY <1>1, <1>2
<1>4. UNCHANGED <<rx, sensor>>
  BY <1>1, <1>3 DEF SensorCommand
<1>5. ASSUME NEW i \in DOMAIN tx'
      PROVE  tx'[i].at # sensor.rate
  <2>1. i \in 1 .. Len(tx) - 1 /\ i + 1 \in DOMAIN tx
    BY <1>1, <1>2, <1>5
  <2> QED BY <1>1, <1>2, <2>1
<1>6. TryList' = TryList
  BY TryListKept
<1> QED BY <1>1, <1>4, <1>5, <1>6 DEF Unreached

LEMMA InterruptedCommand ==
  ASSUME TypeOK, Interrupted, SensorCommand, UNCHANGED <<world, hostVars>>
  PROVE  Interrupted' /\ (rx # <<>> => rx' # <<>> /\ rx'[1] = rx[1])
<1> USE DEF hostVars, openVars, scipVars
<1>1. /\ tx \in Seq(Messages) /\ tx # <<>> /\ tx' = Tail(tx) /\ SameRate
      /\ \A i \in DOMAIN tx : tx[i].c = "QT" /\ Hears(type, sensor.rate, tx[i].at)
      /\ sensor.mode \in {"measuring", "ready"} /\ cmd = "QT" /\ try = 1
  BY DEF Interrupted, SensorCommand, TypeOK, Messages
<1>2. /\ Len(tx) \in Nat \ {0} /\ Head(tx) = tx[1] /\ DOMAIN tx = 1 .. Len(tx)
      /\ DOMAIN Tail(tx) = 1 .. Len(tx) - 1
      /\ \A i \in 1 .. Len(tx) - 1 : Tail(tx)[i] = tx[i + 1]
  BY ONLY <1>1, Taken, LenProperties
<1>3. Head(tx).c = "QT" /\ Hears(type, sensor.rate, Head(tx).at)
  BY <1>1, <1>2
<1>4. rx' = rx \o Heard(Answer("QT")) /\ sensor' = After("QT", Head(tx).arg)
  BY <1>1, <1>3 DEF SensorCommand, Hears
<1>5. sensor'.mode = "ready" /\ sensor'.rate = sensor.rate /\ SameRate'
  BY <1>1, <1>4 DEF After, SameRate, TypeOK
<1>6. ASSUME NEW i \in DOMAIN tx'
      PROVE  tx'[i].c = "QT" /\ Hears(type, sensor.rate, tx'[i].at)
  <2>1. i \in 1 .. Len(tx) - 1 /\ i + 1 \in DOMAIN tx
    BY <1>1, <1>2, <1>6
  <2> QED BY <1>1, <1>2, <2>1
<1>7. rx # <<>> => rx' # <<>> /\ rx'[1] = rx[1]
  <2>1. PICK h : h = Heard(Answer("QT"))
    OBVIOUS
  <2>2. h \in Seq(Lines) /\ rx \in Seq(Lines) /\ rx' = rx \o h
    BY <1>4, <2>1, AnswerLines, HeardTypes DEF Commands, TypeOK
  <2>3. /\ Len(rx') = Len(rx) + Len(h) /\ Len(rx) \in Nat /\ Len(h) \in Nat
        /\ \A i \in 1 .. Len(rx) : rx'[i] = rx[i]
    BY ONLY <2>2, Joined
  <2>4. rx # <<>> => Len(rx) > 0
    BY <2>2, <2>3, EmptySeq
  <2>5. rx # <<>> => 1 \in 1 .. Len(rx) /\ Len(rx') > 0
    BY <2>3, <2>4
  <2> QED BY <2>3, <2>5
<1> QED BY <1>1, <1>5, <1>6, <1>7 DEF Interrupted

LEMMA WhereCommand ==
  ASSUME TypeOK, Where, SensorCommand, UNCHANGED <<world, hostVars>>
  PROVE  Where'
<1> USE DEF hostVars, openVars, scipVars
<1>1. tx # <<>> /\ UNCHANGED <<pc, cmd, ret, resume, try, urg>>
  BY DEF SensorCommand
<1>2. CASE pc \in {"failed", "done"}
  BY <1>1, <1>2 DEF Where, Bound, InScip
<1>3. CASE Bound({"try"}) /\ try > 1 /\ Unreached(try - 1) /\ (pc = "try" => tx = <<>>)
  <2>1. Unreached(try - 1)'
    BY <1>1, <1>3, UnreachedCommand
  <2> QED BY <1>1, <1>3, <2>1 DEF Where, Bound
<1>4. CASE pc = "echo" /\ cmd = "QT" /\ Unreached(try)
  <2>1. Unreached(try)'
    BY <1>1, <1>4, UnreachedCommand
  <2> QED BY <1>1, <1>4, <2>1 DEF Where
<1>5. CASE pc = "echo" /\ Asked
  <2>1. Replied'
    BY <1>1, <1>5, Answers
  <2> QED BY <1>1, <1>5, <2>1 DEF Where, InScip
<1>6. CASE Interrupted
  <2>1. Interrupted' /\ (rx # <<>> => rx' # <<>> /\ rx'[1] = rx[1])
    BY <1>6, InterruptedCommand
  <2>2. CASE pc = "echo" /\ rx # <<>> /\ rx[1].k # "echo"
    BY <1>1, <2>1, <2>2 DEF Where
  <2>3. CASE (pc = "scip_done" /\ ret = "INVALID_RESPONSE") \/ (pc = "drain" /\ resume = "change")
    BY <1>1, <2>1, <2>3 DEF Where
  <2>4. CASE tx = <<>>
    BY <1>1, <2>4
  <2>5. CASE pc = "echo" /\ (Asked \/ (cmd = "QT" /\ Unreached(try)))
    BY <1>4, <1>5, <2>5
  <2>6. CASE Bound({"try"}) /\ try > 1
    BY <1>6, <2>6 DEF Interrupted, TypeOK
  <2> QED BY <1>2, <2>2, <2>3, <2>4, <2>5, <2>6 DEF Where, Untouched, Replied, Still
<1> QED BY <1>1, <1>2, <1>3, <1>4, <1>5, <1>6 DEF Where, Untouched, Replied, Still

LEMMA WhereScan ==
  ASSUME TypeOK, Where, SensorScan, UNCHANGED <<world, hostVars>>
  PROVE  Where'
<1> USE DEF hostVars, openVars, scipVars
<1>1. /\ sensor.mode = "measuring" /\ UNCHANGED <<sensor, tx, pc, cmd, ret, resume, try, urg>>
      /\ rx' # <<>>
      /\ rx # <<>> => rx'[1] = rx[1]
      /\ rx = <<>> => rx'[1].k # "echo"
  <2>1. /\ sensor.mode = "measuring" /\ UNCHANGED <<sensor, tx>>
        /\ Len(rx) \in Nat /\ DOMAIN rx' = 1 .. Len(rx) + 1
        /\ \A i \in 1 .. Len(rx) : rx'[i] = rx[i]
        /\ rx'[Len(rx) + 1].k \in {"scan", "noise"}
    BY Scanned
  <2>2. rx' # <<>>
    <3>1. 1 \in DOMAIN rx'
      BY <2>1
    <3> QED BY <3>1
  <2>3. rx # <<>> => rx'[1] = rx[1]
    <3>1. rx # <<>> => Len(rx) # 0
      BY EmptySeq DEF TypeOK
    <3> QED BY <2>1, <3>1
  <2>4. rx = <<>> => rx'[1].k # "echo"
    <3>1. rx = <<>> => Len(rx) = 0
      OBVIOUS
    <3> QED BY <2>1, <3>1
  <2> QED BY <2>1, <2>2, <2>3, <2>4
<1>2. CASE pc \in {"failed", "done"}
  BY <1>1, <1>2 DEF Where, Bound, InScip
<1>3. CASE pc \in {"idle", "try"} /\ try = 1 /\ Untouched
  BY <1>1, <1>3 DEF Where, Untouched
<1>4. CASE pc = "echo" /\ Asked
  <2>1. cmd = "QT" /\ try = 1 /\ SameRate
    BY <1>1, <1>4 DEF Asked, ModeFits, TypeOK, Commands
  <2>2. \A i \in DOMAIN tx : tx[i].c = "QT" /\ Hears(type, sensor.rate, tx[i].at)
    <3>1. Len(tx) = 1 /\ tx[1].c = "QT" /\ Hears(type, sensor.rate, tx[1].at) /\ tx \in Seq(Messages)
      BY <1>4, <2>1 DEF Asked, TypeOK, Messages
    <3>2. DOMAIN tx = 1 .. 1
      BY <3>1, LenProperties
    <3> QED BY <3>1, <3>2
  <2>3. tx # <<>>
    BY <1>4 DEF Asked
  <2>4. Interrupted /\ SameRate' = SameRate
    BY <1>1, <2>1, <2>2, <2>3 DEF Interrupted, SameRate
  <2>5. Interrupted'
    BY <1>1, <2>4 DEF Interrupted
  <2> QED BY <1>1, <1>4, <2>5 DEF Where, Asked
<1>5. CASE Interrupted
  <2>1. SameRate' = SameRate
    BY <1>1 DEF SameRate
  <2>2. Interrupted'
    BY <1>1, <1>5, <2>1 DEF Interrupted
  <2>3. CASE pc = "echo" /\ rx # <<>> /\ rx[1].k # "echo"
    BY <1>1, <2>2, <2>3 DEF Where
  <2>4. CASE (pc = "scip_done" /\ ret = "INVALID_RESPONSE") \/ (pc = "drain" /\ resume = "change")
    BY <1>1, <2>2, <2>4 DEF Where
  <2> QED BY <1>1, <1>2, <1>3, <1>4, <2>3, <2>4 DEF Where, Unreached, Replied, Obeyed, Still
<1> QED BY <1>1, <1>2, <1>3, <1>4, <1>5 DEF Where, Unreached, Replied, Obeyed, Still

LEMMA WhereEnvironment ==
  ASSUME TypeOK, Findable, Where, UNCHANGED <<world, hostVars>>,
         SensorCommand \/ SensorScan \/ LoseLine \/ DamageLine
  PROVE  Where'
<1>1. ~(noise < world.noise)
  BY DEF Findable, Calm, TypeOK
<1> QED BY <1>1, WhereCommand, WhereScan DEF LoseLine, DamageLine

-----------------------------------------------------------------------------
\* The host reads an answer.

\* The next line of it, and what is left.
LEMMA NextLine ==
  ASSUME TypeOK, NEW answer \in Seq(Lines), Reads(answer), rx # <<>>, rx' = Tail(rx)
  PROVE  /\ rx[1] = answer[Len(answer) - Len(rx) + 1] /\ rx[1] \in Lines
         /\ Rest(rx', answer) /\ Len(rx') = Len(rx) - 1
         /\ Len(rx) \in 1 .. Len(answer) /\ Len(answer) \in Nat
         /\ Len(rx) = 1 => rx' = <<>>
         /\ Len(rx) > 1 => rx' # <<>>
<1>1. rx \in Seq(Lines) /\ Rest(rx, answer)
  BY DEF TypeOK, Reads
<1>2. /\ rx[1] = answer[Len(answer) - Len(rx) + 1]
      /\ Rest(Tail(rx), answer) /\ Len(Tail(rx)) = Len(rx) - 1
      /\ Len(rx) \in 1 .. Len(answer) /\ Len(answer) \in Nat
  BY <1>1, RestTail
<1>3. rx[1] \in Lines /\ Tail(rx) \in Seq(Lines)
  BY <1>1, Taken
<1>4. Len(rx) = 1 => Tail(rx) = <<>>
  BY <1>2, <1>3, EmptySeq
<1>5. Len(rx) > 1 => Tail(rx) # <<>>
  <2>1. Len(rx) > 1 => Len(Tail(rx)) # 0
    BY <1>2
  <2> QED BY <2>1
<1> QED BY <1>2, <1>3, <1>4, <1>5

LEMMA EchoIsRead ==
  ASSUME TypeOK, Findable, Where, ScipEcho, UNCHANGED world, Unheard
  PROVE  Where'
<1> USE DEF openVars
<1>1. PICK line \in Arrivals :
        /\ Consume(line)
        /\ \/ line = Nothing /\ ScipReturns("NO_RESPONSE")
           \/ /\ line # Nothing /\ line # Text("echo", cmd)
              /\ ScipReturns("INVALID_RESPONSE")
           \/ line = Text("echo", cmd) /\ ScipGoesOn("status") /\ UNCHANGED <<good, got>>
  BY DEF ScipEcho
<1>2. /\ pc = "echo" /\ UNCHANGED <<sensor, tx, type, baudrate, hostRate, try, cmd, resume>>
      /\ TryList' = TryList /\ SameRate' = SameRate
  BY TryListKept DEF ScipEcho, SameRate
<1>3. \/ line = Nothing /\ rx = <<>> /\ tx = <<>> /\ rx' = <<>> /\ sensor.mode # "measuring"
      \/ rx # <<>> /\ line = rx[1] /\ rx' = Tail(rx) /\ line \in Lines /\ line # Nothing
  BY <1>1, CalmRead
<1>4. Text("echo", cmd).k = "echo" /\ Nothing # Text("echo", cmd)
  BY DEF Text, Nothing
<1>5. CASE cmd = "QT" /\ Unreached(try)
  <2>1. rx = <<>>
    BY <1>5 DEF Unreached
  <2>2. line = Nothing /\ tx = <<>> /\ rx' = <<>>
    BY <1>3, <2>1
  <2>3. ScipReturns("NO_RESPONSE")
    BY <1>1, <1>4, <2>2
  <2>4. Unreached(try)'
    BY <1>2, <1>5, <2>2 DEF Unreached
  <2> QED BY <1>2, <1>5, <2>2, <2>3, <2>4 DEF Where, ScipReturns
<1>6. CASE Asked
  <2>1. rx = <<>> /\ Len(tx) = 1
    BY <1>6 DEF Asked
  <2> QED BY <1>3, <2>1
<1>7. CASE Interrupted /\ rx # <<>> /\ rx[1].k # "echo"
  <2>1. line # Nothing /\ line # Text("echo", cmd)
    BY <1>3, <1>4, <1>7
  <2>2. ScipReturns("INVALID_RESPONSE")
    BY <1>1, <2>1
  <2>3. Interrupted'
    BY <1>2, <1>7 DEF Interrupted
  <2> QED BY <2>2, <2>3 DEF Where, ScipReturns
<1>8. CASE Replied
  <2>1. PICK v, answer : v = Value(cmd, sensor.mode) /\ answer = Reply(cmd, v)
    OBVIOUS
  <2>2. /\ answer \in Seq(Lines) /\ Len(answer) >= 3 /\ answer[1] = Text("echo", cmd)
    <3>1. cmd \in Commands /\ v \in Statuses
      BY <2>1, ValueTypes DEF TypeOK
    <3>2. Len(answer) \in {3, 5} /\ answer \in Seq(Lines) /\ answer[1] = Text("echo", cmd)
      BY ONLY <2>1, <3>1, ReplyLines
    <3> QED BY <3>2
  <2>3. Reads(answer) /\ tx = <<>> /\ Obeyed
    BY <1>8, <2>1 DEF Replied
  <2>4. Len(rx) = Len(answer)
    BY <1>2, <2>3 DEF Reads
  <2>5. rx # <<>>
    BY <2>2, <2>4
  <2>6. line = rx[1] /\ rx' = Tail(rx)
    BY <1>3, <2>5
  <2>7. /\ rx[1] = answer[Len(answer) - Len(rx) + 1]
        /\ Rest(rx', answer) /\ Len(rx') = Len(rx) - 1
        /\ Len(answer) \in Nat
    BY <2>2, <2>3, <2>5, <2>6, NextLine
  <2>8. line = Text("echo", cmd)
    BY <2>2, <2>4, <2>6, <2>7
  <2>9. pc' = "status"
    BY <1>1, <1>4, <2>8 DEF ScipGoesOn
  <2>10. Reads(answer)'
    BY <2>4, <2>7, <2>9 DEF Reads
  <2>11. Obeyed'
    BY <1>2, <2>3 DEF Obeyed
  <2>12. Replied'
    BY <1>2, <2>1, <2>3, <2>10, <2>11 DEF Replied
  <2> QED BY <2>9, <2>12 DEF Where, InScip
<1> QED BY <1>2, <1>5, <1>6, <1>7, <1>8 DEF Where, Bound

LEMMA StatusIsRead ==
  ASSUME TypeOK, Findable, Where, ScipStatus, UNCHANGED world
  PROVE  Where'
<1> USE DEF openVars
<1>1. PICK line \in Arrivals :
        /\ Consume(line)
        /\ \/ line = Nothing /\ ScipReturns("NO_RESPONSE")
           \/ line.k = "lf" /\ ScipReturns("INVALID_RESPONSE")
           \/ /\ line.k = "stat"
              /\ good' = (line.v \in Scip1 \/ StatusValue(line.v) \in Expected)
              /\ got' = <<line.v>>
              /\ ScipGoesOn("body")
           \/ ~Intact(line) /\ line.v \notin Scip1
           \/ line.k \in {"par", "scan"}
  BY DEF ScipStatus
<1>2. /\ pc = "status" /\ UNCHANGED <<sensor, tx, type, baudrate, hostRate, try, cmd, resume>>
      /\ SameRate' = SameRate
  BY DEF ScipStatus, SameRate
<1>3. Replied
  BY <1>2 DEF Where, Bound
<1>4. PICK v, answer : v = Value(cmd, sensor.mode) /\ answer = Reply(cmd, v)
  OBVIOUS
<1>5. /\ answer \in Seq(Lines) /\ Len(answer) \in {3, 5} /\ answer[2] = Text("stat", v)
      /\ v \in {"00", "0", "0E", "E"}
  <2>1. cmd \in Commands /\ v \in Statuses
    BY <1>4, ValueTypes DEF TypeOK
  <2>2. /\ answer \in Seq(Lines) /\ Len(answer) \in {3, 5} /\ answer[2] = Text("stat", v)
    BY ONLY <1>4, <2>1, ReplyLines
  <2> QED BY <2>1, <2>2 DEF Statuses
<1>6. Reads(answer) /\ tx = <<>> /\ Obeyed
  BY <1>3, <1>4 DEF Replied
<1>7. Len(rx) = Len(answer) - 1 /\ rx # <<>>
  <2>1. Len(rx) = Len(answer) - 1
    BY <1>2, <1>6 DEF Reads
  <2> QED BY <1>5, <2>1
<1>8. line = rx[1] /\ rx' = Tail(rx) /\ line # Nothing
  BY <1>1, <1>7, CalmRead
<1>9. /\ line = answer[Len(answer) - Len(rx) + 1]
      /\ Rest(rx', answer) /\ Len(rx') = Len(rx) - 1
      /\ Len(rx) > 1 => rx' # <<>>
  BY <1>5, <1>6, <1>7, <1>8, NextLine
<1>10. line = Text("stat", v) /\ rx' # <<>>
  <2>1. Len(answer) - Len(rx) + 1 = 2 /\ Len(rx) > 1
    <3>1. Len(answer) \in {3, 5} /\ Len(rx) = Len(answer) - 1
      BY <1>5, <1>7
    <3>2. CASE Len(answer) = 3
      BY ONLY <3>1, <3>2
    <3>3. CASE Len(answer) = 5
      BY ONLY <3>1, <3>3
    <3> QED BY ONLY <3>1, <3>2, <3>3
  <2> QED BY <1>5, <1>9, <2>1
<1>11. line.k = "stat" /\ line.v = v /\ line.ok
  BY <1>10 DEF Text
<1>12. v \in Scip1 \/ (Intact(line) /\ StatusValue(v) \in Expected)
  BY <1>5, <1>11 DEF Scip1, Intact, StatusValue, Expected
<1>13. good' /\ got' = <<v>> /\ pc' = "body"
  BY <1>1, <1>8, <1>11, <1>12 DEF ScipGoesOn
<1>14. Reads(answer)'
  <2>1. Len(got') = 1 /\ got'[1] = answer[1 + 1].v /\ got' # <<>>
    BY <1>5, <1>10, <1>11, <1>13
  <2> QED BY <1>5, <1>7, <1>9, <1>10, <1>13, <2>1 DEF Reads
<1>15. Obeyed'
  BY <1>2, <1>6 DEF Obeyed
<1>16. Replied'
  BY <1>2, <1>4, <1>6, <1>14, <1>15 DEF Replied
<1> QED BY <1>13, <1>16 DEF Where, InScip

LEMMA BodyIsRead ==
  ASSUME TypeOK, Findable, Where, ScipBody, UNCHANGED world
  PROVE  Where'
<1> USE DEF openVars
<1>1. PICK line \in Arrivals :
        /\ Consume(line)
        /\ \/ line = Nothing /\ ScipReturns("NO_RESPONSE")
           \/ line.k = "lf" /\ ScipReturns(IF good THEN "OK" ELSE "UNKNOWN_ERROR")
           \/ /\ line \notin {Nothing, Text("lf", "")}
              /\ got' = Append(got, line.v)
              /\ ScipGoesOn("body") /\ UNCHANGED good
           \/ line \notin {Nothing, Text("lf", "")} /\ ~Intact(line)
  BY DEF ScipBody
<1>2. /\ pc = "body" /\ UNCHANGED <<sensor, tx, type, baudrate, hostRate, try, cmd, resume>>
      /\ SameRate' = SameRate
  BY DEF ScipBody, SameRate
<1>3. Replied
  BY <1>2 DEF Where, Bound
<1>4. PICK v, answer : v = Value(cmd, sensor.mode) /\ answer = Reply(cmd, v)
  OBVIOUS
<1>5. /\ answer \in Seq(Lines) /\ Len(answer) \in {3, 5} /\ (Len(answer) = 5 <=> cmd = "PP")
      /\ answer[Len(answer)] = Text("lf", "")
      /\ cmd = "PP" => answer[3] = Text("par", "MODL") /\ answer[4] = Text("par", "DMIN")
  <2>1. cmd \in Commands /\ v \in Statuses
    BY <1>4, ValueTypes DEF TypeOK
  <2> QED BY ONLY <1>4, <2>1, ReplyLines
<1>6. Reads(answer) /\ tx = <<>> /\ Obeyed
  BY <1>3, <1>4 DEF Replied
<1>7. /\ Len(got) + Len(rx) = Len(answer) - 1 /\ rx # <<>> /\ got # <<>> /\ good
      /\ \A i \in 1 .. Len(got) : got[i] = answer[i + 1].v
  BY <1>2, <1>6 DEF Reads
<1>8. line = rx[1] /\ rx' = Tail(rx) /\ line # Nothing
  BY <1>1, <1>7, CalmRead
<1>9. /\ line = answer[Len(answer) - Len(rx) + 1] /\ line \in Lines
      /\ Rest(rx', answer) /\ Len(rx') = Len(rx) - 1
      /\ Len(rx) \in 1 .. Len(answer)
      /\ Len(rx) = 1 => rx' = <<>>
      /\ Len(rx) > 1 => rx' # <<>>
  BY <1>5, <1>6, <1>7, <1>8, NextLine
<1>10. Len(got) \in Nat \ {0} /\ got \in Seq(Texts)
  BY <1>7, Taken DEF TypeOK
<1>11. Obeyed'
  BY <1>2, <1>6 DEF Obeyed
<1>12. CASE Len(rx) = 1
  <2>1. line = Text("lf", "")
    <3>0. Len(answer) \in {3, 5}
      BY <1>5
    <3>1. Len(answer) - Len(rx) + 1 = Len(answer)
      BY ONLY <1>12, <3>0
    <3> QED BY <1>5, <1>9, <3>1
  <2>2. line.k = "lf"
    BY <2>1, TextParts
  <2>3. ScipReturns("OK")
    BY <1>1, <1>7, <1>8, <2>1, <2>2
  <2>4. pc' = "scip_done" /\ ret' = "OK" /\ got' = got /\ good' = good
    BY <2>3 DEF ScipReturns
  <2>5. Reads(answer)'
    <3>0. Len(answer) \in {3, 5} /\ Len(got) \in Nat /\ Len(got) + Len(rx) = Len(answer) - 1
      BY <1>5, <1>7, <1>10
    <3>3. Len(got) = Len(answer) - 2
      BY ONLY <1>12, <3>0
    <3>1. Len(got') = Len(answer) - 2 /\ rx' = <<>>
      BY <1>9, <1>12, <2>4, <3>3
    <3>2. good' /\ \A i \in 1 .. Len(got') : got'[i] = answer[i + 1].v
      BY <1>7, <2>4
    <3> QED BY <1>9, <2>4, <3>1, <3>2 DEF Reads
  <2>6. Replied'
    BY <1>2, <1>4, <1>6, <1>11, <2>5 DEF Replied
  <2> QED BY <2>4, <2>6 DEF Where, InScip
<1>13. CASE Len(rx) > 1
  <2>1. cmd = "PP" /\ Len(answer) = 5 /\ Len(rx) \in {2, 3}
    <3>1. Len(rx) \in Nat /\ Len(got) \in Nat \ {0} /\ Len(got) + Len(rx) = Len(answer) - 1
      BY <1>7, <1>9, <1>10
    <3>2. CASE cmd # "PP"
      <4>1. Len(answer) = 3
        BY ONLY <1>5, <3>2
      <4> QED BY ONLY <1>13, <3>1, <4>1
    <3>3. CASE cmd = "PP"
      <4>1. Len(answer) = 5
        BY ONLY <1>5, <3>3
      <4>2. PICK a, b : a = Len(rx) /\ b = Len(got)
        OBVIOUS
      <4>3. a \in Nat /\ b \in Nat \ {0} /\ a > 1 /\ a + b = 5 - 1
        BY ONLY <1>13, <3>1, <4>1, <4>2
      <4>4. a = 2 \/ a = 3
        BY ONLY <4>3
      <4> QED BY <3>3, <4>1, <4>2, <4>4
    <3> QED BY <3>2, <3>3
  <2>2. line = Text("par", "MODL") \/ line = Text("par", "DMIN")
    <3>1. Len(answer) - Len(rx) + 1 = 3 \/ Len(answer) - Len(rx) + 1 = 4
      <4>1. Len(answer) = 5 /\ (Len(rx) = 2 \/ Len(rx) = 3)
        BY ONLY <2>1
      <4>2. CASE Len(rx) = 2
        BY ONLY <4>1, <4>2
      <4>3. CASE Len(rx) = 3
        BY ONLY <4>1, <4>3
      <4> QED BY ONLY <4>1, <4>2, <4>3
    <3>2. line = answer[3] \/ line = answer[4]
      BY <1>9, <3>1
    <3> QED BY <1>5, <2>1, <3>2
  <2>3. line.k = "par" /\ line.v \in {"MODL", "DMIN"} /\ line.ok /\ line # Text("lf", "")
    <3>0. \A k, v2 : Text(k, v2).k = k /\ Text(k, v2).v = v2 /\ Text(k, v2).ok
      BY TextParts
    <3>1. line.k = "par" /\ line.v \in {"MODL", "DMIN"} /\ line.ok
      BY ONLY <2>2, <3>0
    <3>2. Text("lf", "").k = "lf"
      BY <3>0
    <3>3. line # Text("lf", "")
      BY ONLY <3>1, <3>2
    <3> QED BY <3>1, <3>3
  <2>4. Intact(line)
    BY <2>3 DEF Intact
  <2>5. got' = Append(got, line.v) /\ pc' = "body" /\ good' = good
    BY <1>1, <1>8, <2>3, <2>4 DEF ScipGoesOn
  <2>6. line.v \in Texts
    BY <1>9 DEF Lines
  <2>7. /\ Len(got') = Len(got) + 1 /\ got'[Len(got) + 1] = line.v
        /\ \A i \in 1 .. Len(got) : got'[i] = got[i]
    BY ONLY <1>10, <2>5, <2>6, Added
  <2>8. line.v = answer[Len(got) + 2].v
    <3>1. Len(answer) - Len(rx) + 1 = Len(got) + 2
      BY <1>7, <1>9, <1>10, <2>1
    <3> QED BY <1>9, <3>1
  <2>9. \A i \in 1 .. Len(got') : got'[i] = answer[i + 1].v
    <3>1. ASSUME NEW i \in 1 .. Len(got') PROVE got'[i] = answer[i + 1].v
      <4>1. i \in 1 .. Len(got) \/ (i = Len(got) + 1 /\ i + 1 = Len(got) + 2)
        BY ONLY <1>10, <2>7, <3>1
      <4> QED BY <1>7, <2>7, <2>8, <4>1
    <3> QED BY <3>1
  <2>10. got' # <<>>
    BY <1>10, <2>7
  <2>11. Reads(answer)'
    BY <1>7, <1>9, <1>10, <1>13, <2>1, <2>5, <2>7, <2>9, <2>10 DEF Reads
  <2>12. Replied'
    BY <1>2, <1>4, <1>6, <1>11, <2>11 DEF Replied
  <2> QED BY <2>5, <2>12 DEF Where, InScip
<1> QED BY <1>9, <1>12, <1>13

\* A drain that the thread waits in ends when the sensor is still.
LEMMA WhereDrain ==
  ASSUME TypeOK, Findable, Where, ignore_receive_data, UNCHANGED world
  PROVE  Where'
<1> USE DEF openVars, scipVars
<1>1. PICK line \in Arrivals :
        /\ Consume(line)
        /\ IF line = Nothing THEN pc' = resume ELSE UNCHANGED pc
  BY DEF ignore_receive_data
<1>2. /\ pc = "drain" /\ UNCHANGED <<sensor, tx, type, baudrate, hostRate, try, cmd, resume>>
      /\ SameRate' = SameRate /\ TryList' = TryList
  BY TryListKept DEF ignore_receive_data, SameRate
<1>3. \/ line = Nothing /\ rx = <<>> /\ tx = <<>> /\ rx' = <<>> /\ sensor.mode # "measuring"
      \/ rx # <<>> /\ line = rx[1] /\ rx' = Tail(rx) /\ line # Nothing
  BY <1>1, CalmRead
<1>4. CASE resume = "try" /\ try > 1 /\ Unreached(try - 1)
  <2>1. rx = <<>>
    BY <1>4 DEF Unreached
  <2>2. line = Nothing /\ tx = <<>> /\ rx' = <<>> /\ pc' = "try"
    BY <1>1, <1>3, <1>4, <2>1
  <2>3. Unreached(try - 1)'
    BY <1>2, <1>4, <2>2 DEF Unreached
  <2> QED BY <1>2, <1>4, <2>2, <2>3 DEF Where, Bound
<1>5. CASE resume = "change" /\ Interrupted
  <2>1. CASE line = Nothing
    <3>1. Still("ready")' /\ pc' = "change"
      BY <1>1, <1>2, <1>3, <1>5, <2>1 DEF Still, Interrupted
    <3> QED BY <3>1 DEF Where, Bound
  <2>2. CASE line # Nothing
    <3>1. Interrupted' /\ pc' = "drain"
      BY <1>1, <1>2, <1>5, <2>2 DEF Interrupted
    <3> QED BY <1>2, <1>5, <3>1 DEF Where
  <2> QED BY <2>1, <2>2
<1>6. ASSUME NEW mode, Still(mode),
             (resume = "old_protocol" /\ mode = "scip1")
               \/ (resume \in {"change", "changed", "connected"} /\ mode = "ready")
      PROVE  Where'
  <2>1. rx = <<>>
    BY <1>6 DEF Still
  <2>2. line = Nothing /\ tx = <<>> /\ rx' = <<>> /\ pc' = resume
    BY <1>1, <1>3, <2>1
  <2>3. Still(mode)'
    BY <1>2, <1>6, <2>2 DEF Still
  <2> QED BY <1>6, <2>2, <2>3 DEF Where, Bound
<1>7. CASE Bound({"old_protocol"}) /\ Still("scip1")
  BY <1>2, <1>6, <1>7 DEF Bound
<1>8. CASE Bound({"change", "changed", "connected"}) /\ Still("ready")
  BY <1>2, <1>6, <1>8 DEF Bound
<1> QED BY <1>2, <1>4, <1>5, <1>7, <1>8 DEF Where, Bound, InScip

-----------------------------------------------------------------------------
\* The steps between two answers.

\* A command is sent to a sensor that hears it and waits for it.
LEMMA Asks ==
  ASSUME TypeOK, tx = <<>>, rx' = <<>>,
         NEW c \in Commands, NEW arg \in Rates \cup {0}, NEW r \in Rates, Scip(c, arg, r),
         UNCHANGED <<sensor, type, baudrate, try>>, SameRate', Hears(type, sensor.rate, r),
         ModeFits', c = "SS" => arg = baudrate /\ type # "ethernet",
         sensor.mode = "measuring" => try = 1
  PROVE  Where'
<1>1. /\ cmd' = c /\ pc' = "echo" /\ tx' \in Seq(Messages)
      /\ Len(tx') = Len(tx) + 1 /\ tx'[Len(tx) + 1] = [c |-> c, arg |-> arg, at |-> r]
  BY ScipTypes
<1>2. Len(tx) = 0
  OBVIOUS
<1>3. Len(tx') = 1 /\ tx'[1] = [c |-> c, arg |-> arg, at |-> r]
  BY <1>1, <1>2
<1>4. Asked'
  BY <1>1, <1>3 DEF Asked
<1> QED BY <1>1, <1>4 DEF Where

LEMMA AllRatesTried ==
  ASSUME baudrate \in Rates, NEW r \in Rates
  PROVE  \E j \in 1 .. 3 : TryList[j] = r
<1>1. baudrate \in {19200, 38400, 115200} /\ r \in {19200, 38400, 115200}
  BY DEF Rates
<1>2. /\ TryList[1] = baudrate
      /\ TryList[2] = IF baudrate = 38400 THEN 19200 ELSE 38400
      /\ TryList[3] = IF baudrate = 115200 THEN 19200 ELSE 115200
  BY DEF TryList, Base
<1> QED BY <1>1, <1>2

LEMMA FirstRate ==
  ASSUME baudrate \in Rates
  PROVE  TryList[1] = baudrate
BY DEF TryList

LEMMA WhereTry ==
  ASSUME TypeOK, Unheard, Findable, Ways, Where, Try, UNCHANGED world
  PROVE  Where'
<1> USE DEF openVars, scipVars
<1>1. /\ pc = "try" /\ try \in 1 .. 3 /\ TryList[try] \in Rates /\ TryList' = TryList
      /\ SetBaudrate(TryList[try]) /\ Scip("QT", 0, TryList[try])
      /\ UNCHANGED <<sensor, type, baudrate, try>>
  BY TryListRates, TryListKept DEF Try, TypeOK
<1>2. /\ rx' \in Seq(Lines) /\ (rx' = rx \/ rx' = <<>>)
      /\ hostRate' = IF type = "ethernet" THEN hostRate ELSE TryList[try]
  BY <1>1, SetBaudrateTypes
<1>3. /\ tx = <<>> /\ sensor = world.sensor /\ sensor.mode # "absent"
      /\ try = 1 \/ (type # "ethernet" /\ Unreached(try - 1))
      /\ rx # <<>> => sensor.mode = "measuring"
      /\ sensor.mode = "measuring" => try = 1
  <2>1. (try = 1 /\ Untouched) \/ (try > 1 /\ Unreached(try - 1) /\ tx = <<>>)
    BY <1>1 DEF Where, Bound, InScip
  <2> QED BY <1>1, <2>1 DEF Untouched, Unreached, Findable
<1>4. cmd' = "QT" /\ pc' = "echo"
  BY <1>1 DEF Scip
<1>5. sensor.mode = "measuring" => Hears(type, sensor.rate, TryList[try])
  BY <1>1, <1>3, FirstRate DEF Ways, Findable, Calm, Hears, TypeOK
<1>6. CASE rx' = <<>> /\ Hears(type, sensor.rate, TryList[try])
  <2>1. SameRate'
    BY <1>1, <1>2, <1>6 DEF SameRate, Hears
  <2>2. ModeFits'
    BY <1>1, <1>3, <1>4 DEF ModeFits
  <2>3. "QT" \in Commands /\ 0 \in Rates \cup {0}
    BY DEF Commands
  <2>4. Hears(type, sensor.rate, TryList[try])
    BY <1>6
  <2> QED BY <1>1, <1>3, <1>6, <2>1, <2>2, <2>3, <2>4, Asks
<1>7. CASE rx' # <<>>
  <2>1. rx' = rx /\ sensor.mode = "measuring" /\ try = 1
    BY <1>2, <1>3, <1>7
  <2>2. rx'[1].k # "echo"
    <3>1. 1 \in DOMAIN rx
      BY <1>2, <1>7, <2>1, Taken, LenProperties
    <3> QED BY <2>1, <3>1 DEF Unheard
  <2>3. /\ tx' \in Seq(Messages) /\ Len(tx') = Len(tx) + 1
        /\ tx'[Len(tx) + 1] = [c |-> "QT", arg |-> 0, at |-> TryList[try]]
    BY <1>1, ScipTypes DEF Commands
  <2>4. Len(tx) = 0
    BY <1>3
  <2>5. Len(tx') = 1 /\ DOMAIN tx' = 1 .. 1 /\ tx'[1].c = "QT" /\ tx'[1].at = TryList[try]
    BY <2>3, <2>4, LenProperties
  <2>6. SameRate' /\ tx' # <<>>
    BY <1>1, <1>2, <1>5, <2>1, <2>5 DEF SameRate, Hears
  <2>7. Interrupted'
    BY <1>1, <1>4, <1>5, <2>1, <2>5, <2>6 DEF Interrupted
  <2> QED BY <1>4, <1>7, <2>2, <2>7 DEF Where
<1>8. CASE rx' = <<>> /\ ~Hears(type, sensor.rate, TryList[try])
  <2>1. type # "ethernet" /\ sensor.mode # "measuring" /\ TryList[try] # sensor.rate
    BY <1>5, <1>8 DEF Hears
  <2>2. /\ tx' \in Seq(Messages) /\ Len(tx') = Len(tx) + 1
        /\ tx'[Len(tx) + 1] = [c |-> "QT", arg |-> 0, at |-> TryList[try]]
    BY <1>1, ScipTypes DEF Commands
  <2>3. Len(tx) = 0
    BY <1>3
  <2>4. DOMAIN tx' = 1 .. 1 /\ tx'[1].at = TryList[try]
    BY <2>2, <2>3, LenProperties
  <2>5. \A j \in 1 .. try : TryList[j] # sensor.rate
    <3>1. ASSUME NEW j \in 1 .. try, j # try PROVE TryList[j] # sensor.rate
      <4>1. try # 1 /\ j \in 1 .. try - 1
        BY <1>1, <3>1
      <4> QED BY <1>3, <4>1 DEF Unreached
    <3> QED BY <2>1, <3>1
  <2>6. Unreached(try)'
    BY <1>1, <1>3, <1>8, <2>1, <2>4, <2>5 DEF Unreached
  <2> QED BY <1>4, <2>6 DEF Where
<1> QED BY <1>6, <1>7, <1>8

\* What scip_response leaves when the answer was read.
LEMMA WholeReply ==
  ASSUME TypeOK, Replied, pc = "scip_done"
  PROVE  /\ rx = <<>> /\ tx = <<>> /\ ret = "OK" /\ Obeyed
         /\ got[1] = Value(cmd, sensor.mode)
         /\ cmd = "PP" => Len(got) = 3 /\ got[3] = "DMIN"
<1>1. PICK v, answer : v = Value(cmd, sensor.mode) /\ answer = Reply(cmd, v)
  OBVIOUS
<1>2. /\ Len(answer) \in {3, 5} /\ (Len(answer) = 5 <=> cmd = "PP")
      /\ answer[2] = Text("stat", v)
      /\ cmd = "PP" => answer[4] = Text("par", "DMIN")
  <2>1. cmd \in Commands /\ v \in Statuses
    BY <1>1, ValueTypes DEF TypeOK
  <2> QED BY ONLY <1>1, <2>1, ReplyLines
<1>3. /\ rx = <<>> /\ tx = <<>> /\ ret = "OK" /\ Len(got) = Len(answer) - 2 /\ Obeyed
      /\ \A i \in 1 .. Len(got) : got[i] = answer[i + 1].v
  BY <1>1 DEF Replied, Reads
<1>4. got[1] = answer[2].v
  BY <1>2, <1>3
<1>5. cmd = "PP" => Len(got) = 3 /\ got[3] = answer[4].v
  BY <1>2, <1>3
<1>6. \A k, w : Text(k, w).v = w
  BY DEF Text
<1> QED BY <1>1, <1>2, <1>3, <1>4, <1>5, <1>6

LEMMA StillKept ==
  ASSUME NEW mode, Still(mode), UNCHANGED <<sensor, tx, rx, type, hostRate>>
  PROVE  Still(mode)'
BY DEF Still, SameRate

\* The answer to QT, or its absence, says what is at the other end.
LEMMA WhereAnswered ==
  ASSUME TypeOK, Placed, Findable, Ways, Where, UNCHANGED world,
         \/ AnsweredOldProtocol \/ AnsweredTimeStampMode \/ Answered
         \/ AnsweredWithData \/ TryNext
  PROVE  Where'
<1> USE DEF sensorVars, openVars, scipVars
<1>1. /\ pc = "scip_done" /\ cmd = "QT" /\ UNCHANGED <<sensor, rx, type, baudrate, hostRate>>
      /\ SameRate' = SameRate /\ TryList' = TryList
  BY TryListKept DEF AnsweredOldProtocol, AnsweredTimeStampMode, Answered, AnsweredWithData,
     TryNext, ScipDone, SameRate
<1>2. CASE Unreached(try) /\ tx = <<>> /\ ret = "NO_RESPONSE"
  <2>1. TryNext
    BY <1>2 DEF AnsweredOldProtocol, AnsweredTimeStampMode, Answered, AnsweredWithData
  <2>2. DrainWithQT("try") /\ try' = try + 1
    BY <1>2, <2>1 DEF TryNext, NextRate
  <2>3. type # "ethernet" /\ hostRate = TryList[try] /\ try \in 1 .. 3
    BY <1>1, <1>2 DEF Unreached, Placed, Trying, InScip, TypeOK
  <2>4. hostRate # sensor.rate
    BY <1>2, <2>3 DEF Unreached
  <2>5. /\ Len(tx) \in Nat /\ tx' \in Seq(Messages)
        /\ \/ tx' = tx
           \/ /\ Len(tx') = Len(tx) + 1
              /\ tx'[Len(tx) + 1] = [c |-> "QT", arg |-> 0, at |-> hostRate]
              /\ DOMAIN tx' = 1 .. Len(tx) + 1
    BY <2>2, DrainWithQTTypes
  <2>6. Len(tx) = 0
    BY <1>2
  <2>7. \A i \in DOMAIN tx' : tx'[i].at # sensor.rate
    <3>1. CASE tx' = tx
      BY <1>2, <3>1 DEF Unreached
    <3>2. CASE DOMAIN tx' = 1 .. 1 /\ tx'[1].at = hostRate
      BY <2>4, <3>2
    <3> QED BY <2>5, <2>6, <3>1, <3>2
  <2>8. try' > 1 /\ try' - 1 = try
    BY <2>2, <2>3
  <2>9. Unreached(try - 1)'
    BY <1>1, <1>2, <2>7, <2>8 DEF Unreached
  <2>10. CASE urg.is_sending
    <3>1. pc' = "drain" /\ resume' = "try"
      BY <2>2, <2>10 DEF DrainWithQT, Drain
    <3> QED BY <2>8, <2>9, <3>1 DEF Where, Bound
  <2>11. CASE ~urg.is_sending
    <3>1. ~urg.is_laser_on
      BY <1>1, <2>3, <2>11 DEF Ways, Searching, InScip
    <3>2. pc' = "try" /\ tx' = <<>>
      BY <1>2, <2>2, <2>11, <3>1 DEF DrainWithQT, Drain
    <3> QED BY <2>8, <2>9, <3>2 DEF Where, Bound
  <2> QED BY <2>10, <2>11
<1>3. CASE Interrupted /\ ret = "INVALID_RESPONSE"
  <2>1. AnsweredWithData
    BY <1>3 DEF AnsweredOldProtocol, AnsweredTimeStampMode, Answered, TryNext
  <2>2. urg.is_sending
    BY <1>1, <1>3 DEF Ways, Searching, InScip, Interrupted
  <2>3. pc' = "drain" /\ resume' = "change" /\ UNCHANGED <<try, cmd>>
        /\ tx' = Append(tx, [c |-> "QT", arg |-> 0, at |-> hostRate])
    BY <2>1, <2>2 DEF AnsweredWithData, DrainWithQT, Drain
  <2>4. /\ tx \in Seq(Messages) /\ [c |-> "QT", arg |-> 0, at |-> hostRate] \in Messages
    BY DEF TypeOK, Messages, Commands
  <2>5. /\ Len(tx) \in Nat /\ DOMAIN tx = 1 .. Len(tx) /\ DOMAIN tx' = 1 .. Len(tx) + 1
        /\ tx'[Len(tx) + 1] = [c |-> "QT", arg |-> 0, at |-> hostRate]
        /\ \A i \in 1 .. Len(tx) : tx'[i] = tx[i]
    BY ONLY <2>3, <2>4, Added
  <2>6. Hears(type, sensor.rate, hostRate)
    BY <1>3 DEF Interrupted, SameRate, Hears
  <2>7. \A i \in DOMAIN tx' : tx'[i].c = "QT" /\ Hears(type, sensor.rate, tx'[i].at)
    <3>1. ASSUME NEW i \in DOMAIN tx'
          PROVE  tx'[i].c = "QT" /\ Hears(type, sensor.rate, tx'[i].at)
      <4>1. CASE i = Len(tx) + 1
        BY <2>5, <2>6, <4>1
      <4>2. CASE i \in DOMAIN tx
        BY <1>3, <2>5, <4>2 DEF Interrupted
      <4> QED BY <2>5, <3>1, <4>1, <4>2
    <3> QED BY <3>1
  <2>8. tx' # <<>>
    BY <2>5
  <2>9. Interrupted'
    BY <1>1, <1>3, <2>3, <2>7, <2>8 DEF Interrupted
  <2> QED BY <2>3, <2>9 DEF Where
<1>4. CASE Replied
  <2>1. /\ rx = <<>> /\ tx = <<>> /\ ret = "OK" /\ Obeyed /\ got[1] = Value("QT", sensor.mode)
    BY <1>1, <1>4, WholeReply
  <2>2. sensor.mode \in {"ready", "tm", "scip1"} /\ SameRate
    BY <1>1, <2>1 DEF Obeyed
  <2>3. CASE AnsweredOldProtocol
    <3>1. Still("scip1")
      BY <2>1, <2>2, <2>3 DEF AnsweredOldProtocol, Value, Still
    <3>2. Still("scip1")'
      BY <2>3, <3>1, StillKept DEF AnsweredOldProtocol
    <3> QED BY <2>3, <3>2 DEF AnsweredOldProtocol, Drain, Where, Bound
  <2>4. CASE AnsweredTimeStampMode
    <3>1. sensor.mode = "tm" /\ Scip("TM2", 0, hostRate) /\ UNCHANGED try
      BY <2>1, <2>2, <2>4 DEF AnsweredTimeStampMode, Value
    <3>2. ModeFits'
      BY <1>1, <3>1 DEF ModeFits, Scip
    <3>3. Hears(type, sensor.rate, hostRate) /\ SameRate'
      BY <1>1, <2>2 DEF SameRate, Hears
    <3>4. "TM2" \in Commands /\ 0 \in Rates \cup {0} /\ hostRate \in Rates /\ rx' = <<>>
      BY <1>1, <2>1 DEF Commands, TypeOK
    <3> QED BY <1>1, <2>1, <3>1, <3>2, <3>3, <3>4, Asks
  <2>5. CASE Answered
    <3>1. Still("ready")
      BY <2>1, <2>2, <2>5 DEF Answered, Value, Still
    <3>2. Still("ready")'
      BY <2>5, <3>1, StillKept DEF Answered
    <3> QED BY <2>5, <3>2 DEF Answered, Where, Bound
  <2>6. got[1] \in {"00", "0E", "E"}
    BY <2>1 DEF Value
  <2> QED BY <2>1, <2>3, <2>4, <2>5, <2>6 DEF AnsweredWithData, TryNext
<1> QED BY <1>1, <1>2, <1>3, <1>4 DEF Where, Bound

\* From there on the sensor is still whenever the thread is between two commands.
LEMMA WhereConnects ==
  ASSUME TypeOK, Findable, Ways, Where, UNCHANGED world,
         \/ OldProtocol \/ SwitchedMode \/ ChangeNothing \/ change_sensor_baudrate
         \/ SensorChanged \/ Changed \/ Connected
  PROVE  Where'
<1> USE DEF sensorVars, openVars, scipVars
<1>0. "SCIP2.0" \in Commands /\ "SS" \in Commands /\ "PP" \in Commands /\ 0 \in Rates \cup {0}
      /\ hostRate \in Rates /\ baudrate \in Rates /\ baudrate \in Rates \cup {0}
  BY DEF Commands, TypeOK
<1>1. CASE OldProtocol
  <2>1. Still("scip1")
    BY <1>1 DEF OldProtocol, Where, Bound, InScip
  <2>2. SameRate' /\ Hears(type, sensor.rate, hostRate)
    BY <1>1, <2>1 DEF OldProtocol, Still, SameRate, Hears
  <2>3. ModeFits'
    BY <1>1, <2>1 DEF OldProtocol, Still, ModeFits, Scip
  <2>4. tx = <<>> /\ rx' = <<>> /\ sensor.mode # "measuring"
    BY <1>1, <2>1 DEF OldProtocol, Still
  <2>5. Scip("SCIP2.0", 0, hostRate) /\ UNCHANGED <<sensor, type, baudrate, try>>
    BY <1>1 DEF OldProtocol
  <2> QED BY <1>0, <2>2, <2>3, <2>4, <2>5, Asks
<1>2. CASE SwitchedMode
  <2>1. pc = "scip_done" /\ cmd \in {"SCIP2.0", "TM2"}
    BY <1>2 DEF SwitchedMode, ScipDone
  <2>2. Replied
    BY <2>1 DEF Where, Bound, Interrupted
  <2>3. Still("ready")
    BY <2>1, <2>2, WholeReply DEF Still, Obeyed
  <2>4. Still("ready")'
    BY <1>2, <2>3, StillKept DEF SwitchedMode
  <2> QED BY <1>2, <2>4 DEF SwitchedMode, Drain, Where, Bound
<1>3. CASE ChangeNothing \/ Changed
  <2>1. Still("ready")
    BY <1>3 DEF ChangeNothing, Changed, Where, Bound, InScip
  <2>2. Still("ready")'
    BY <1>3, <2>1, StillKept DEF ChangeNothing, Changed
  <2> QED BY <1>3, <2>2 DEF ChangeNothing, Changed, Where, Bound
<1>4. CASE change_sensor_baudrate
  <2>1. Still("ready")
    BY <1>4 DEF change_sensor_baudrate, Where, Bound, InScip
  <2>2. SameRate' /\ Hears(type, sensor.rate, hostRate)
    BY <1>4, <2>1 DEF change_sensor_baudrate, Still, SameRate, Hears
  <2>3. ModeFits'
    BY <1>4, <2>1 DEF change_sensor_baudrate, Still, ModeFits, Scip
  <2>4. tx = <<>> /\ rx' = <<>> /\ sensor.mode # "measuring"
    BY <1>4, <2>1 DEF change_sensor_baudrate, Still
  <2>5. Scip("SS", baudrate, hostRate) /\ UNCHANGED <<sensor, type, baudrate, try>>
    BY <1>4 DEF change_sensor_baudrate
  <2>6. type # "ethernet"
    BY <1>0, <1>4, FirstRate DEF change_sensor_baudrate, Ways
  <2> QED BY <1>0, <2>2, <2>3, <2>4, <2>5, <2>6, Asks
<1>5. CASE SensorChanged
  <2>1. pc = "scip_done" /\ cmd = "SS"
    BY <1>5 DEF SensorChanged, ScipDone
  <2>2. Replied
    BY <2>1 DEF Where, Bound, Interrupted
  <2>3. /\ rx = <<>> /\ tx = <<>> /\ sensor.mode = "ready" /\ type # "ethernet"
        /\ sensor.rate = baudrate
    BY <2>1, <2>2, WholeReply DEF Obeyed
  <2>4. hostRate' = baudrate /\ rx' = <<>>
    BY <1>0, <1>5, <2>3, SetBaudrateTypes DEF SensorChanged
  <2>5. Still("ready")'
    BY <1>5, <2>3, <2>4 DEF SensorChanged, Still, SameRate
  <2> QED BY <1>5, <2>5 DEF SensorChanged, Drain, Where, Bound
<1>6. CASE Connected
  <2>1. Still("ready")
    BY <1>6 DEF Connected, Where, Bound, InScip
  <2>2. SameRate' /\ Hears(type, sensor.rate, hostRate)
    BY <1>6, <2>1 DEF Connected, Still, SameRate, Hears
  <2>3. ModeFits'
    BY <1>6, <2>1 DEF Connected, Still, ModeFits, Scip
  <2>4. tx = <<>> /\ rx' = <<>> /\ sensor.mode # "measuring"
    BY <1>6, <2>1 DEF Connected, Still
  <2>5. Scip("PP", 0, hostRate) /\ UNCHANGED <<sensor, type, baudrate, try>>
    BY <1>6 DEF Connected
  <2> QED BY <1>0, <2>2, <2>3, <2>4, <2>5, Asks
<1> QED BY <1>1, <1>2, <1>3, <1>4, <1>5, <1>6

LEMMA WhereEnds ==
  ASSUME TypeOK, Findable, Ways, Where, UNCHANGED world,
         \/ Open \/ OpenFails \/ NotDetected \/ SensorNotChanged \/ ConnectFailed
         \/ receive_parameter
  PROVE  Where'
<1> USE DEF sensorVars, openVars, scipVars
<1>1. CASE Open
  <2>1. Untouched
    BY <1>1 DEF Open, Where, Bound, InScip
  <2>2. Untouched' /\ pc' = "try" /\ try' = 1
    BY <1>1, <2>1 DEF Open, Untouched
  <2> QED BY <2>2 DEF Where
<1>2. CASE OpenFails
  BY <1>2 DEF OpenFails, Where
<1>3. CASE NotDetected
  <2>1. pc = "try" /\ try > 3 /\ try \in 1 .. 4
    BY <1>3 DEF NotDetected, TypeOK
  <2>2. try - 1 = 3 /\ Unreached(try - 1)
    BY <2>1 DEF Where, Bound, InScip
  <2>3. \A j \in 1 .. 3 : TryList[j] # sensor.rate
    BY <2>2 DEF Unreached
  <2>4. sensor.rate \in Rates /\ baudrate \in Rates
    BY DEF TypeOK
  <2> QED BY <2>3, <2>4, AllRatesTried
<1>4. CASE SensorNotChanged
  <2>1. pc = "scip_done" /\ cmd = "SS" /\ ret # "OK"
    BY <1>4 DEF SensorNotChanged, ScipDone
  <2>2. Replied
    BY <2>1 DEF Where, Bound, Interrupted
  <2> QED BY <2>1, <2>2, WholeReply
<1>5. CASE ConnectFailed
  BY <1>5 DEF ConnectFailed, Where, Bound, InScip
<1>6. CASE receive_parameter
  <2>1. pc = "scip_done" /\ cmd = "PP"
    BY <1>6 DEF receive_parameter, ScipDone
  <2>2. Replied
    BY <2>1 DEF Where, Bound, Interrupted
  <2>3. ret = "OK" /\ Len(got) = 3 /\ got[3] = "DMIN"
    BY <2>1, <2>2, WholeReply
  <2>4. AllLines
    BY <2>3 DEF AllLines, Parameters
  <2>5. AllReceived
    <3>1. 3 \in DOMAIN got
      BY <2>3, LenProperties DEF TypeOK
    <3> QED BY <2>3, <3>1 DEF AllReceived
  <2>6. Parameter = "OK"
    BY <2>3, <2>4, <2>5 DEF Parameter
  <2>7. urg' = [urg EXCEPT !.is_active = TRUE, !.last_errno = "NO_ERROR"] /\ pc' = "done"
    BY <1>6, <2>6 DEF receive_parameter, OpenReturns
  <2>8. urg'.is_active
    BY <2>7 DEF TypeOK
  <2> QED BY <2>7, <2>8 DEF Where
<1> QED BY <1>1, <1>2, <1>3, <1>4, <1>5, <1>6

LEMMA WaysStep ==
  ASSUME TypeOK, Findable, Ways, Where, HostStep, UNCHANGED world
  PROVE  Ways'
<1> USE DEF sensorVars, openVars, scipVars
<1>1. CASE Open
  BY <1>1 DEF Open, Ways, Searching, Bound, InScip, TypeOK
<1>2. CASE OpenFails
  BY <1>2 DEF OpenFails, Ways, Searching, Bound, InScip, TypeOK
<1>3. CASE Try
  BY <1>3 DEF Try, Scip, Ways, Searching, Bound, InScip
<1>4. CASE ScipEcho \/ ScipStatus \/ ScipBody
  <2>1. /\ pc \in InScip /\ pc' \in InScip /\ UNCHANGED <<openVars, cmd, resume>>
    BY <1>4, ScipReads DEF InScip
  <2>2. urg'.is_sending = urg.is_sending /\ urg'.is_laser_on = urg.is_laser_on
    BY <1>4 DEF ScipEcho, ScipStatus, ScipBody, ScipReturns, ScipGoesOn, TypeOK
  <2> QED BY <2>1, <2>2 DEF Ways, Searching, Bound, InScip
<1>5. CASE ignore_receive_data
  <2>1. /\ pc = "drain" /\ pc' \in {"drain", resume}
        /\ UNCHANGED <<openVars, scipVars, resume>>
    BY <1>5, Drains
  <2>2. urg'.is_laser_on = urg.is_laser_on
    BY <1>5 DEF ignore_receive_data, TypeOK
  <2>3. resume = "try" => try > 1
    BY <2>1 DEF Where, Bound, InScip
  <2>4. resume \in Resumes
    BY DEF TypeOK, Resumes
  <2>5. Searching' => resume = "try"
    BY <2>1, <2>4 DEF Searching, Bound, InScip, Resumes
  <2>6. resume = "try" => Searching /\ ~urg.is_laser_on
    BY <2>1, <2>3 DEF Ways, Searching, Bound, TypeOK
  <2>7. pc' # "idle"
    BY <2>1 DEF Where, Bound, InScip
  <2>8. UNCHANGED <<type, baudrate, try>> /\ try' = try
    BY <2>1
  <2> QED BY <2>2, <2>3, <2>5, <2>6, <2>7, <2>8 DEF Ways
<1>6. CASE AnsweredWithData
  <2>1. (pc' = "change" /\ resume' = resume) \/ (pc' = "drain" /\ resume' = "change")
    BY <1>6, DrainWithQTTypes DEF AnsweredWithData
  <2> QED BY <1>6, <2>1 DEF AnsweredWithData, Ways, Searching, Bound, InScip
<1>7. CASE TryNext
  <2>1. pc = "scip_done" /\ cmd = "QT" /\ ret # "INVALID_RESPONSE" /\ try' = try + 1
    BY <1>7 DEF TryNext, ScipDone, NextRate
  <2>2. ~Replied
    <3>1. ASSUME Replied PROVE FALSE
      <4>1. ret = "OK" /\ got[1] \in {"00", "0E", "E"}
        BY <2>1, <3>1, WholeReply DEF Value
      <4> QED BY <1>7, <4>1 DEF TryNext
    <3> QED BY <3>1
  <2>3. Unreached(try) /\ ret = "NO_RESPONSE"
    BY <2>1, <2>2 DEF Where, Bound
  <2>4. DrainWithQT("try") /\ UNCHANGED <<type, baudrate>> /\ type # "ethernet" /\ try' > 1
    BY <1>7, <2>1, <2>3 DEF TryNext, Unreached, TypeOK
  <2>5. ~urg'.is_laser_on
    BY <2>4 DEF DrainWithQT, TypeOK
  <2>6. (pc' = "try" /\ resume' = resume) \/ (pc' = "drain" /\ resume' = "try")
    BY <2>4, DrainWithQTTypes
  <2>7. try' # 1
    BY <2>4
  <2> QED BY <2>4, <2>5, <2>6, <2>7 DEF Ways
<1>8. CASE \/ AnsweredOldProtocol \/ Answered \/ SwitchedMode \/ ChangeNothing
           \/ SensorChanged \/ Changed \/ NotDetected \/ SensorNotChanged \/ ConnectFailed
           \/ receive_parameter
  <2>1. UNCHANGED <<type, baudrate, try>>
    BY <1>8 DEF AnsweredOldProtocol, Answered, SwitchedMode, ChangeNothing, SensorChanged,
       Changed, NotDetected, SensorNotChanged, ConnectFailed, receive_parameter, OpenReturns
  <2>2. pc' # "idle" /\ ~Searching'
    BY <1>8 DEF AnsweredOldProtocol, Answered, SwitchedMode, ChangeNothing, SensorChanged,
       Changed, NotDetected, SensorNotChanged, ConnectFailed, receive_parameter, OpenReturns,
       Drain, Searching, Bound, InScip
  <2> QED BY <2>1, <2>2 DEF Ways
<1>9. CASE AnsweredTimeStampMode \/ OldProtocol \/ change_sensor_baudrate \/ Connected
  <2>1. UNCHANGED <<type, baudrate, try>> /\ pc' = "echo" /\ cmd' # "QT"
    BY <1>9 DEF AnsweredTimeStampMode, OldProtocol, change_sensor_baudrate, Connected, Scip
  <2> QED BY <2>1 DEF Ways, Searching, Bound
<1> QED BY <1>1, <1>2, <1>3, <1>4, <1>5, <1>6, <1>7, <1>8, <1>9 DEF HostStep

-----------------------------------------------------------------------------
LEMMA FindInit ==
  ASSUME Init
  PROVE  FindInv
<1>1. /\ pc = "idle" /\ try = 1 /\ baudrate = world.request /\ sensor = world.sensor
      /\ tx = <<>> /\ rx = <<>>
  BY DEF Init
<1>2. Ways
  BY <1>1 DEF Ways, Searching, Bound, InScip
<1>3. Where
  BY <1>1 DEF Where, Untouched
<1>4. world.sensor.mode = "absent" => sensor.mode = "absent"
  BY <1>1
<1> QED BY <1>2, <1>3, <1>4 DEF FindInv

LEMMA FindNext ==
  ASSUME OpenInv, FindInv, Next
  PROVE  FindInv'
<1>0. Findable' = Findable /\ UNCHANGED world
  BY DEF Next, Findable, Calm
<1>4. sensor.mode = "absent" => sensor' = sensor
  <2>1. HostStep => sensor' = sensor
    <3> USE DEF sensorVars
    <3>1. (ScipEcho \/ ScipStatus \/ ScipBody \/ ignore_receive_data) => sensor' = sensor
      BY DEF ScipEcho, ScipStatus, ScipBody, ignore_receive_data
    <3>2. (Open \/ OpenFails \/ Try \/ NotDetected) => sensor' = sensor
      <4>1. Open => sensor' = sensor
        BY DEF Open
      <4>2. OpenFails => sensor' = sensor
        BY DEF OpenFails
      <4>3. Try \/ NotDetected => sensor' = sensor
        BY DEF Try, NotDetected
      <4> QED BY <4>1, <4>2, <4>3
    <3>3. (\/ AnsweredOldProtocol \/ AnsweredTimeStampMode \/ Answered \/ AnsweredWithData
           \/ TryNext \/ OldProtocol \/ SwitchedMode) => sensor' = sensor
      BY DEF AnsweredOldProtocol, AnsweredTimeStampMode, Answered, AnsweredWithData, TryNext,
         OldProtocol, SwitchedMode
    <3>4. (\/ ChangeNothing \/ change_sensor_baudrate \/ SensorChanged \/ Changed
           \/ SensorNotChanged \/ ConnectFailed \/ Connected \/ receive_parameter)
            => sensor' = sensor
      BY DEF ChangeNothing, change_sensor_baudrate, SensorChanged, Changed, SensorNotChanged,
         ConnectFailed, Connected, receive_parameter, OpenReturns
    <3> QED BY <3>1, <3>2, <3>3, <3>4 DEF HostStep
  <2> QED BY <2>1 DEF Next, Environment, SensorCommand, SensorScan, LoseLine, DamageLine
<1> SUFFICES ASSUME Findable PROVE Ways' /\ Where'
  BY <1>0, <1>4 DEF FindInv
<1>1. TypeOK /\ Placed /\ Unheard /\ Ways /\ Where
  BY DEF OpenInv, FindInv
<1>2. CASE HostStep
  <2>1. Ways'
    BY <1>0, <1>1, <1>2, WaysStep
  <2>2. Where'
    BY <1>0, <1>1, <1>2, WhereTry, EchoIsRead, StatusIsRead, BodyIsRead, WhereDrain,
       WhereAnswered, WhereConnects, WhereEnds DEF HostStep
  <2> QED BY <2>1, <2>2
<1>3. CASE Environment(SensorCommand \/ SensorScan \/ LoseLine \/ DamageLine)
  <2>1. UNCHANGED hostVars /\ (SensorCommand \/ SensorScan \/ LoseLine \/ DamageLine)
    BY <1>3 DEF Environment
  <2>2. Where'
    BY <1>0, <1>1, <2>1, WhereEnvironment
  <2>3. Ways'
    BY <1>0, <1>1, <2>1 DEF Ways, Searching, Bound, hostVars, openVars, scipVars
  <2> QED BY <2>2, <2>3
<1> QED BY <1>2, <1>3 DEF Next

LEMMA FindStutter ==
  ASSUME FindInv, UNCHANGED vars
  PROVE  FindInv'
<1> USE DEF vars, sensorVars, openVars, scipVars
<1>0. Findable' = Findable
  BY DEF Findable, Calm
<1> SUFFICES ASSUME Findable PROVE Ways' /\ Where'
  BY <1>0 DEF FindInv
<1>1. Ways /\ Where
  BY DEF FindInv
<1>2. Ways'
  BY <1>1 DEF Ways, Searching, Bound
<1>3. /\ SameRate' = SameRate /\ TryList' = TryList /\ Obeyed' = Obeyed
      /\ ModeFits' = ModeFits
  BY DEF SameRate, TryList, Obeyed, ModeFits
<1>4. Asked' = Asked /\ Interrupted' = Interrupted /\ Untouched' = Untouched
      /\ \A mode : Still(mode)' = Still(mode)
      /\ \A n : Unreached(n)' = Unreached(n)
  BY <1>3 DEF Asked, Interrupted, Untouched, Still, Unreached
<1>5. Replied' = Replied
  BY <1>3 DEF Replied, Reads
<1>6. Where'
  BY <1>1, <1>4, <1>5 DEF Where, Bound
<1> QED BY <1>2, <1>6

\* On a line that loses nothing and answers in time, a sensor that is there is
\* found: at whatever rate, idle, in time stamp mode, speaking SCIP 1.1 or,
\* at the rate asked for, measuring, however many scans are unread, and on
\* every kind of connection.
THEOREM OpenAlwaysFinds == Spec => []FindsSensor
<1>1. Init => FindInv
  BY FindInit
<1>2. OpenInv /\ FindInv /\ [Next]_vars => FindInv'
  BY FindNext, FindStutter
<1>3. OpenInv /\ FindInv => FindsSensor
  <2> SUFFICES ASSUME OpenInv, FindInv, pc = "done", Calm, sensor.mode # "absent"
               PROVE  urg.is_active
    BY DEF FindsSensor
  <2>1. Ways /\ Where
    BY DEF FindInv, Findable
  <2> QED BY <2>1 DEF Where, Bound, InScip
<1> QED BY <1>1, <1>2, <1>3, OpenInvariant, PTL DEF Spec

=============================================================================
