-------------------------- MODULE ApplicationProofs --------------------------
(***************************************************************************)
(* What is proved of the programs around the driver: of PortSearch for     *)
(* every set of names, sensors and files and any number of searches and    *)
(* command lines, and of Pillars for every set of scans, every table of    *)
(* cosines and every setting of the bounds.                                *)
(*                                                                         *)
(* First what the folds of the community modules compute, on which both    *)
(* modules are built.  Then the searches for ports and the readers of the  *)
(* command line.  Then a scan on its way through the program: filtered,    *)
(* cut into pieces, drawn in colours, fitted by votes and sent in frames.  *)
(***************************************************************************)
EXTENDS PortSearch, Pillars, SequenceTheorems, FiniteSetTheorems, TLAPS

-----------------------------------------------------------------------------
(***************************************************************************)
(* Induction over the numbers, as a fact about sets: it follows from the   *)
(* library's theorem that a set of numbers has a least one.                *)
(***************************************************************************)
Less == {p \in Nat \X Nat : p[1] < p[2]}

\* A set that holds 0, and with each number the next one, holds them all.
LEMMA Induction ==
  ASSUME NEW S, 0 \in S, \A k \in Nat : k \in S => k + 1 \in S
  PROVE  \A k \in Nat : k \in S
<1> SUFFICES ASSUME Nat \ S # {}
             PROVE  FALSE
  OBVIOUS
<1>1. OpToRel(<, Nat) = Less
  BY DEF OpToRel, Less
<1>2. PICK least \in Nat \ S : \A k \in Nat \ S : <<k, least>> \notin Less
  BY <1>1, NatLessThanWellFounded, WFMin
<1>3. least # 0 /\ least - 1 \in Nat /\ <<least - 1, least>> \in Less
  BY <1>2 DEF Less
<1> QED BY <1>2, <1>3

-----------------------------------------------------------------------------
(***************************************************************************)
(* The folds of the community modules are functions on the sets of         *)
(* indices, defined by recursion on the greatest one.  Such a function     *)
(* exists when each step stays in a set D, and at 1..0, 1..1, 1..2 and so  *)
(* on it has what a loop has after no turn, one, two and so on.            *)
(***************************************************************************)
LEMMA MaxIs ==
  ASSUME NEW n \in Nat, NEW s \in SUBSET (1 .. n), s # {}
  PROVE  /\ Max(s) \in s
         /\ \A y \in s : Max(s) >= y
<1> DEFINE Good == {m \in Nat : \A t \in SUBSET (1 .. m) :
                                  t # {} => \E x \in t : \A y \in t : x >= y}
<1>1. 0 \in Good
  <2>1. 1 .. 0 = {}
    OBVIOUS
  <2> QED BY <2>1
<1>2. ASSUME NEW m \in Nat, m \in Good
      PROVE  m + 1 \in Good
  <2> SUFFICES ASSUME NEW t \in SUBSET (1 .. m + 1), t # {}
               PROVE  \E x \in t : \A y \in t : x >= y
    OBVIOUS
  <2>1. CASE m + 1 \in t
    <3>1. \A y \in t : m + 1 >= y
      OBVIOUS
    <3> QED BY <2>1, <3>1
  <2>2. CASE m + 1 \notin t
    <3>1. \A y \in t : y \in 1 .. m
      BY <2>2
    <3>2. t \in SUBSET (1 .. m)
      BY <3>1
    <3> QED BY <1>2, <3>2
  <2> QED BY <2>1, <2>2
<1> HIDE DEF Good
<1>3. n \in Good
  BY <1>1, <1>2, Induction
<1>4. \E x \in s : \A y \in s : x >= y
  BY <1>3 DEF Good
<1> QED BY <1>4 DEF Max

LEMMA MaxOfFirst ==
  ASSUME NEW n \in Nat, NEW k \in 1 .. n
  PROVE  /\ Max(1 .. k) = k /\ (1 .. k) \ {k} = 1 .. k - 1
         /\ 1 .. k # {} /\ 1 .. k \in SUBSET (1 .. n) /\ 1 .. k - 1 \in SUBSET (1 .. n)
<1>1. 1 .. k \in SUBSET (1 .. n) /\ k \in 1 .. k /\ 1 .. k # {}
  OBVIOUS
<1>2. Max(1 .. k) \in 1 .. k /\ Max(1 .. k) >= k
  BY <1>1, MaxIs
<1> QED BY <1>1, <1>2

Folds1(f, n, base, step) ==
  f = [s \in SUBSET (1 .. n) |->
         IF s = {} THEN base ELSE step[<<f[s \ {Max(s)}], Max(s)>>]]

LEMMA FoldExists ==
  ASSUME NEW n \in Nat, NEW D, NEW base \in D, NEW step \in [D \X (1 .. n) -> D]
  PROVE  \E f \in [SUBSET (1 .. n) -> D] : Folds1(f, n, base, step)
<1> DEFINE Fold(m) == \E f \in [SUBSET (1 .. m) -> D] : Folds1(f, m, base, step)
           Good == {m \in Nat : m <= n => Fold(m)}
<1>1. 0 \in Good
  <2> DEFINE f == [s \in SUBSET (1 .. 0) |-> base]
  <2>1. \A s \in SUBSET (1 .. 0) : s = {}
    OBVIOUS
  <2>2. f \in [SUBSET (1 .. 0) -> D] /\ Folds1(f, 0, base, step)
    BY <2>1 DEF Folds1
  <2> QED BY <2>2
<1>2. ASSUME NEW m \in Nat, m \in Good
      PROVE  m + 1 \in Good
  <2> SUFFICES ASSUME m + 1 <= n
               PROVE  Fold(m + 1)
    <3> HIDE DEF Fold
    <3> QED OBVIOUS
  <2>0. Fold(m)
    <3> HIDE DEF Fold
    <3> QED BY <1>2
  <2>1. PICK f \in [SUBSET (1 .. m) -> D] : Folds1(f, m, base, step)
    BY <2>0
  <2> DEFINE e == [s \in SUBSET (1 .. m + 1) |->
                     IF m + 1 \in s THEN step[<<f[s \ {m + 1}], m + 1>>] ELSE f[s]]
  <2>2. ASSUME NEW s \in SUBSET (1 .. m + 1), m + 1 \in s
        PROVE  /\ s # {} /\ Max(s) = m + 1 /\ s \ {m + 1} \in SUBSET (1 .. m)
               /\ s \ {m + 1} \in SUBSET (1 .. m + 1) /\ m + 1 \notin s \ {m + 1}
               /\ m + 1 \in 1 .. n /\ f[s \ {m + 1}] \in D
    <3>1. m + 1 \in Nat
      OBVIOUS
    <3>2. Max(s) = m + 1
      <4>1. Max(s) \in s /\ \A y \in s : Max(s) >= y
        BY <2>2, <3>1, MaxIs
      <4>2. Max(s) \in 1 .. m + 1 /\ Max(s) >= m + 1
        BY <2>2, <4>1
      <4> QED BY <4>2
    <3>3. s \ {m + 1} \in SUBSET (1 .. m)
      <4>1. \A y \in s \ {m + 1} : y \in 1 .. m
        OBVIOUS
      <4> QED BY <4>1
    <3> QED BY <2>1, <2>2, <3>2, <3>3
  <2>3. ASSUME NEW s \in SUBSET (1 .. m + 1), m + 1 \notin s
        PROVE  /\ s \in SUBSET (1 .. m)
               /\ s # {} => /\ Max(s) \in 1 .. m /\ s \ {Max(s)} \in SUBSET (1 .. m)
                            /\ m + 1 \notin s \ {Max(s)}
                            /\ s \ {Max(s)} \in SUBSET (1 .. m + 1)
    <3>1. s \in SUBSET (1 .. m)
      <4>1. \A y \in s : y \in 1 .. m
        BY <2>3
      <4> QED BY <4>1
    <3>2. s # {} => Max(s) \in s
      BY <3>1, MaxIs
    <3> QED BY <2>3, <3>1, <3>2
  <2>4. e \in [SUBSET (1 .. m + 1) -> D]
    <3> SUFFICES ASSUME NEW s \in SUBSET (1 .. m + 1)
                 PROVE  (IF m + 1 \in s THEN step[<<f[s \ {m + 1}], m + 1>>] ELSE f[s]) \in D
      OBVIOUS
    <3>1. CASE m + 1 \in s
      <4>1. <<f[s \ {m + 1}], m + 1>> \in D \X (1 .. n)
        BY <2>2, <3>1
      <4> QED BY <3>1, <4>1
    <3>2. CASE m + 1 \notin s
      BY <2>1, <2>3, <3>2
    <3> QED BY <3>1, <3>2
  <2>5. ASSUME NEW s \in SUBSET (1 .. m + 1)
        PROVE  e[s] = IF s = {} THEN base ELSE step[<<e[s \ {Max(s)}], Max(s)>>]
    <3>1. CASE m + 1 \in s
      <4>1. e[s] = step[<<f[s \ {m + 1}], m + 1>>] /\ e[s \ {m + 1}] = f[s \ {m + 1}]
        BY <2>2, <3>1
      <4> QED BY <2>2, <3>1, <4>1
    <3>2. CASE m + 1 \notin s
      <4>1. e[s] = f[s] /\ (s # {} => e[s \ {Max(s)}] = f[s \ {Max(s)}])
        BY <2>3, <3>2
      <4>2. f[s] = IF s = {} THEN base ELSE step[<<f[s \ {Max(s)}], Max(s)>>]
        BY <2>1, <2>3, <3>2 DEF Folds1
      <4> QED BY <4>1, <4>2
    <3> QED BY <3>1, <3>2
  <2>6. Folds1(e, m + 1, base, step)
    <3> HIDE DEF e
    <3> QED BY <2>4, <2>5 DEF Folds1
  <2> HIDE DEF e
  <2> QED BY <2>4, <2>6
<1> HIDE DEF Good
<1>3. n \in Good
  BY <1>1, <1>2, Induction
<1>4. Fold(n)
  <2> HIDE DEF Fold
  <2> QED BY <1>3 DEF Good
<1> QED BY <1>4

\* g[1 .. k] is step of g[1 .. k - 1], as long as that is in D.
Follows(g, n, D, base, step) ==
  /\ g[{}] = base
  /\ \A k \in 1 .. n : g[1 .. k - 1] \in D => g[1 .. k] = step[<<g[1 .. k - 1], k>>]

\* h has what the loop has after each turn, and in the end.
Loops(h, n, D, base, step, end) ==
  /\ h \in [0 .. n -> D] /\ h[0] = base /\ h[n] = end
  /\ \A k \in 1 .. n : h[k] = step[<<h[k - 1], k>>]

LEMMA LoopIs ==
  ASSUME NEW n \in Nat, NEW D, NEW base \in D, NEW step \in [D \X (1 .. n) -> D],
         NEW g, Follows(g, n, D, base, step)
  PROVE  \E h : Loops(h, n, D, base, step, g[1 .. n])
<1> DEFINE h == [k \in 0 .. n |-> g[1 .. k]]
           Good == {k \in Nat : k <= n => g[1 .. k] \in D}
<1>1. 1 .. 0 = {}
  OBVIOUS
<1> USE DEF Follows
<1>2. 0 \in Good
  BY <1>1
<1>3. ASSUME NEW k \in Nat, k \in Good
      PROVE  k + 1 \in Good
  <2> SUFFICES ASSUME k + 1 <= n
               PROVE  g[1 .. k + 1] \in D
    OBVIOUS
  <2>1. k + 1 \in 1 .. n /\ (k + 1) - 1 = k /\ g[1 .. k] \in D
    BY <1>3
  <2>2. g[1 .. k + 1] = step[<<g[1 .. k], k + 1>>]
    BY <2>1
  <2>3. <<g[1 .. k], k + 1>> \in D \X (1 .. n)
    BY <2>1
  <2> QED BY <2>2, <2>3
<1> HIDE DEF Good
<1>4. \A k \in 0 .. n : g[1 .. k] \in D
  <2>1. \A k \in Nat : k \in Good
    BY <1>2, <1>3, Induction
  <2> QED BY <2>1 DEF Good
<1>5. h \in [0 .. n -> D] /\ h[0] = base /\ h[n] = g[1 .. n]
  BY <1>1, <1>4
<1>6. ASSUME NEW k \in 1 .. n
      PROVE  h[k] = step[<<h[k - 1], k>>]
  <2>1. k \in 0 .. n /\ k - 1 \in 0 .. n
    OBVIOUS
  <2>2. h[k] = g[1 .. k] /\ h[k - 1] = g[1 .. k - 1] /\ g[1 .. k - 1] \in D
    BY <1>4, <2>1
  <2> QED BY <2>2
<1> HIDE DEF h
<1>7. Loops(h, n, D, base, step, g[1 .. n])
  BY <1>5, <1>6 DEF Loops
<1> QED BY <1>5, <1>7

-----------------------------------------------------------------------------
(***************************************************************************)
(* What urg_serial_find_port keeps of a list.                              *)
(***************************************************************************)
KeptSoFar(h, s, wanted, S) ==
  /\ h \in [0 .. Len(s) -> Seq(S)] /\ h[0] = <<>>
  /\ \A k \in 1 .. Len(s) :
       h[k] = IF s[k] \in wanted THEN Append(h[k - 1], s[k]) ELSE h[k - 1]

LEMMA KeptLoop ==
  ASSUME NEW S, NEW s \in Seq(S), NEW wanted
  PROVE  \E h : KeptSoFar(h, s, wanted, S) /\ Kept(s, wanted) = h[Len(s)]
<1> DEFINE n == Len(s)
           D == Seq(S)
           Keep(kept, x) == IF x \in wanted THEN Append(kept, x) ELSE kept
           step == [p \in D \X (1 .. n) |-> Keep(p[1], s[p[2]])]
           Eq(g) == g = [t \in SUBSET DOMAIN s |->
                           IF t = {} THEN <<>> ELSE Keep(g[t \ {Max(t)}], s[Max(t)])]
           iter == CHOOSE g : Eq(g)
<1>1. n \in Nat /\ DOMAIN s = 1 .. n /\ <<>> \in D /\ \A k \in 1 .. n : s[k] \in S
  BY LenProperties, ElementOfSeq, EmptySeq
<1>2. ASSUME NEW d \in D, NEW k \in 1 .. n
      PROVE  Keep(d, s[k]) \in D
  BY <1>1, AppendProperties
<1>3. step \in [D \X (1 .. n) -> D] /\ \A d \in D, k \in 1 .. n : step[<<d, k>>] = Keep(d, s[k])
  <2> HIDE DEF Keep, n, D
  <2> QED BY <1>2
<1> HIDE DEF Keep, step, n, D
<1>4. PICK f \in [SUBSET (1 .. n) -> D] : Folds1(f, n, <<>>, step)
  BY <1>1, <1>3, FoldExists
<1>5. Eq(f)
  <2>1. ASSUME NEW t \in SUBSET (1 .. n)
        PROVE  f[t] = IF t = {} THEN <<>> ELSE Keep(f[t \ {Max(t)}], s[Max(t)])
    <3>1. t # {} => Max(t) \in 1 .. n /\ t \ {Max(t)} \in SUBSET (1 .. n)
      BY <1>1, MaxIs
    <3>2. f[t] = IF t = {} THEN <<>> ELSE step[<<f[t \ {Max(t)}], Max(t)>>]
      BY <1>4 DEF Folds1
    <3> QED BY <1>3, <1>4, <3>1, <3>2
  <2> QED BY <1>1, <1>4, <2>1
<1>6. Eq(iter)
  <2> HIDE DEF Eq
  <2> QED BY <1>5
<1>7. Kept(s, wanted) = iter[1 .. n]
  BY <1>1 DEF Kept, FoldLeft, MapThenFoldSet, Keep
<1> HIDE DEF iter
<1>8. /\ iter[{}] = <<>>
      /\ \A k \in 1 .. n : iter[1 .. k] = Keep(iter[1 .. k - 1], s[k])
  <2>1. iter[{}] = <<>>
    BY <1>6
  <2>2. ASSUME NEW k \in 1 .. n
        PROVE  iter[1 .. k] = Keep(iter[1 .. k - 1], s[k])
    <3>1. /\ Max(1 .. k) = k /\ (1 .. k) \ {k} = 1 .. k - 1
          /\ 1 .. k # {} /\ 1 .. k \in SUBSET DOMAIN s
      BY <1>1, MaxOfFirst
    <3> QED BY <1>6, <3>1
  <2> QED BY <2>1, <2>2
<1>9. PICK h : Loops(h, n, D, <<>>, step, iter[1 .. n])
  <2>1. Follows(iter, n, D, <<>>, step)
    BY <1>3, <1>8 DEF Follows
  <2> QED BY <1>1, <1>3, <2>1, LoopIs
<1>10. ASSUME NEW k \in 1 .. n
       PROVE  h[k] = IF s[k] \in wanted THEN Append(h[k - 1], s[k]) ELSE h[k - 1]
  <2>1. k - 1 \in 0 .. n
    BY <1>1
  <2>2. h[k - 1] \in D /\ h[k] = step[<<h[k - 1], k>>]
    BY <1>9, <2>1 DEF Loops
  <2> QED BY <1>3, <2>2 DEF Keep
<1> QED BY <1>7, <1>9, <1>10 DEF Loops, KeptSoFar, n, D

LEMMA KeptIs ==
  ASSUME NEW S, NEW s \in Seq(S), NEW wanted
  PROVE  /\ Kept(s, wanted) \in Seq(S \cap wanted)
         /\ Range(Kept(s, wanted)) = Range(s) \cap wanted
         /\ IsInjective(s) => IsInjective(Kept(s, wanted))
<1> DEFINE n == Len(s)
<1>1. n \in Nat /\ DOMAIN s = 1 .. n /\ \A k \in 1 .. n : s[k] \in S
  BY LenProperties, ElementOfSeq
<1>2. PICK h : KeptSoFar(h, s, wanted, S) /\ Kept(s, wanted) = h[n]
  BY KeptLoop
<1> USE DEF KeptSoFar
<1> HIDE DEF n
<1> DEFINE Seen(k) == {s[i] : i \in 1 .. k}
           Inv(k) == /\ h[k] \in Seq(S \cap wanted)
                     /\ Range(h[k]) = Seen(k) \cap wanted
                     /\ IsInjective(s) => IsInjective(h[k])
           Good == {k \in Nat : k <= n => Inv(k)}
<1>3. 0 \in Good
  <2>1. h[0] \in Seq(S \cap wanted) /\ Range(h[0]) = {} /\ IsInjective(h[0])
    BY <1>2 DEF Range, IsInjective
  <2>2. Seen(0) = {}
    OBVIOUS
  <2> QED BY <2>1, <2>2
<1>4. ASSUME NEW k \in Nat, k \in Good
      PROVE  k + 1 \in Good
  <2> SUFFICES ASSUME k + 1 <= n
               PROVE  Inv(k + 1)
    <3> HIDE DEF Inv
    <3> QED OBVIOUS
  <2>1. Inv(k)
    <3> HIDE DEF Inv
    <3> QED BY <1>1, <1>4
  <2> DEFINE x == s[k + 1]
             r == h[k]
  <2>2. k + 1 \in 1 .. n /\ (k + 1) - 1 = k /\ x \in S
    BY <1>1
  <2>3. h[k + 1] = IF x \in wanted THEN Append(r, x) ELSE r
    BY <1>2, <2>2 DEF n
  <2>4. Seen(k + 1) = Seen(k) \cup {x}
    <3>1. 1 .. k + 1 = (1 .. k) \cup {k + 1}
      OBVIOUS
    <3> QED BY <3>1
  <2>5. CASE x \notin wanted
    BY <2>1, <2>3, <2>4, <2>5
  <2>6. CASE x \in wanted
    <3>1. /\ r \in Seq(S \cap wanted) /\ h[k + 1] = Append(r, x)
          /\ Len(r) \in Nat /\ DOMAIN r = 1 .. Len(r)
      BY <2>1, <2>3, <2>6, LenProperties
    <3>2. /\ h[k + 1] \in Seq(S \cap wanted) /\ Len(h[k + 1]) = Len(r) + 1
          /\ \A i \in 1 .. Len(r) : h[k + 1][i] = r[i]
          /\ h[k + 1][Len(r) + 1] = x
      BY <2>2, <2>6, <3>1, AppendProperties
    <3>3. DOMAIN h[k + 1] = (DOMAIN r) \cup {Len(r) + 1}
      BY <3>1, <3>2, LenProperties
    <3>4. Range(h[k + 1]) = Range(r) \cup {x}
      BY <3>1, <3>2, <3>3 DEF Range
    <3>5. Range(h[k + 1]) = Seen(k + 1) \cap wanted
      BY <2>1, <2>4, <2>6, <3>4
    <3>6. ASSUME IsInjective(s)
          PROVE  IsInjective(h[k + 1])
      <4>1. \A i \in 1 .. k : s[i] # x
        <5>1. \A i \in 1 .. k : i \in DOMAIN s /\ k + 1 \in DOMAIN s /\ i # k + 1
          BY <1>1, <2>2
        <5> QED BY <3>6, <5>1 DEF IsInjective
      <4>2. \A i \in 1 .. Len(r) : r[i] # x
        <5>1. x \notin Range(r)
          BY <2>1, <4>1
        <5> QED BY <3>1, <5>1 DEF Range
      <4>3. IsInjective(r)
        BY <2>1, <3>6
      <4>4. \A i, j \in DOMAIN r : r[i] = r[j] => i = j
        BY <4>3 DEF IsInjective
      <4>5. ASSUME NEW i \in DOMAIN h[k + 1], NEW j \in DOMAIN h[k + 1], h[k + 1][i] = h[k + 1][j]
            PROVE  i = j
        BY <3>1, <3>2, <3>3, <4>2, <4>4, <4>5
      <4> QED BY <4>5 DEF IsInjective
    <3> QED BY <3>2, <3>5, <3>6
  <2> QED BY <2>5, <2>6
<1>5. Inv(n)
  <2> HIDE DEF Good
  <2>1. n \in Good
    BY <1>1, <1>3, <1>4, Induction
  <2> HIDE DEF Inv
  <2> QED BY <1>1, <2>1 DEF Good
<1>6. Seen(n) = Range(s)
  BY <1>1 DEF Range
<1> QED BY <1>2, <1>5, <1>6

-----------------------------------------------------------------------------
(***************************************************************************)
(* sort_ports: the ports are exchanged, and one of a sensor comes first if *)
(* there is any.                                                           *)
(***************************************************************************)
Sorting(n) == [ports : [1 .. n -> Device], last : 1 .. n + 1]

SortedSoFar(h, n, ports) ==
  /\ h \in [0 .. n -> Sorting(n)] /\ h[0] = [ports |-> ports, last |-> 1]
  /\ \A k \in 1 .. n : h[k] = SortStep(h[k - 1], k)

LEMMA SortStepType ==
  ASSUME NEW n \in Nat, NEW s \in Sorting(n), NEW k \in 1 .. n
  PROVE  SortStep(s, k) \in Sorting(n)
<1>1. s.ports \in [1 .. n -> Device] /\ s.last \in 1 .. n + 1
  BY DEF Sorting
<1>2. CASE s.ports[k].urg /\ s.last < k
  <2>1. s.last \in 1 .. n /\ s.ports[k] \in Device /\ s.ports[s.last] \in Device
    BY <1>1, <1>2
  <2>2. swap_item(s.ports, k, s.last) \in [1 .. n -> Device]
    BY <1>1, <2>1 DEF swap_item
  <2>3. SortStep(s, k) = [ports |-> swap_item(s.ports, k, s.last), last |-> k + 1]
    BY <1>2 DEF SortStep
  <2> QED BY <2>2, <2>3 DEF Sorting
<1>3. CASE ~(s.ports[k].urg /\ s.last < k)
  BY <1>3 DEF SortStep
<1> QED BY <1>2, <1>3

LEMMA SortLoop ==
  ASSUME NEW n \in Nat, NEW ports \in [1 .. n -> Device]
  PROVE  \E h : SortedSoFar(h, n, ports) /\ sort_ports(ports) = h[n].ports
<1> DEFINE D == Sorting(n)
           base == [ports |-> ports, last |-> 1]
           seq == [i \in 1 .. Len(ports) |-> i]
           step == [p \in D \X (1 .. n) |-> SortStep(p[1], p[2])]
           Eq(g) == g = [t \in SUBSET DOMAIN seq |->
                           IF t = {} THEN base ELSE SortStep(g[t \ {Max(t)}], seq[Max(t)])]
           iter == CHOOSE g : Eq(g)
<1>1. Len(ports) = n /\ DOMAIN seq = 1 .. n /\ \A k \in 1 .. n : seq[k] = k
  OBVIOUS
<1>2. base \in D
  BY DEF Sorting
<1>3. step \in [D \X (1 .. n) -> D] /\ \A d \in D, k \in 1 .. n : step[<<d, k>>] = SortStep(d, k)
  <2> HIDE DEF D
  <2> QED BY SortStepType DEF D
<1> HIDE DEF step, D
<1>4. PICK f \in [SUBSET (1 .. n) -> D] : Folds1(f, n, base, step)
  <2> HIDE DEF base
  <2> QED BY <1>2, <1>3, FoldExists
<1>5. Eq(f)
  <2> HIDE DEF base, seq
  <2>1. ASSUME NEW t \in SUBSET (1 .. n)
        PROVE  f[t] = IF t = {} THEN base ELSE SortStep(f[t \ {Max(t)}], seq[Max(t)])
    <3>1. t # {} => Max(t) \in 1 .. n /\ t \ {Max(t)} \in SUBSET (1 .. n)
      BY MaxIs
    <3>2. f[t] = IF t = {} THEN base ELSE step[<<f[t \ {Max(t)}], Max(t)>>]
      BY <1>4 DEF Folds1
    <3> QED BY <1>1, <1>3, <1>4, <3>1, <3>2
  <2> QED BY <1>1, <1>4, <2>1
<1>6. Eq(iter)
  <2> HIDE DEF Eq
  <2> QED BY <1>5
<1>7. sort_ports(ports) = iter[1 .. n].ports
  BY <1>1 DEF sort_ports, FoldLeft, MapThenFoldSet
<1> HIDE DEF iter
<1>8. Follows(iter, n, D, base, step)
  <2> HIDE DEF base, seq
  <2>1. iter[{}] = base
    BY <1>6
  <2>2. ASSUME NEW k \in 1 .. n
        PROVE  iter[1 .. k] = SortStep(iter[1 .. k - 1], k)
    <3>1. /\ Max(1 .. k) = k /\ (1 .. k) \ {k} = 1 .. k - 1
          /\ 1 .. k # {} /\ 1 .. k \in SUBSET DOMAIN seq
      BY <1>1, MaxOfFirst
    <3> QED BY <1>1, <1>6, <3>1
  <2> QED BY <1>3, <2>1, <2>2 DEF Follows
<1>9. PICK h : Loops(h, n, D, base, step, iter[1 .. n])
  <2> HIDE DEF base
  <2> QED BY <1>2, <1>3, <1>8, LoopIs
<1>10. ASSUME NEW k \in 1 .. n
       PROVE  h[k] = SortStep(h[k - 1], k)
  <2>1. k - 1 \in 0 .. n
    OBVIOUS
  <2>2. h[k - 1] \in D /\ h[k] = step[<<h[k - 1], k>>]
    BY <1>9, <2>1 DEF Loops
  <2> QED BY <1>3, <2>2
<1> QED BY <1>7, <1>9, <1>10 DEF Loops, SortedSoFar, D

Exchanged(swapped, ports, n, from, to) ==
  /\ Range(swapped) = Range(ports)
  /\ IsInjective(ports) => IsInjective(swapped)
  /\ swapped[from] = ports[to] /\ swapped[to] = ports[from]
  /\ \A i \in (1 .. n) \ {from, to} : swapped[i] = ports[i]

LEMMA SwapIs ==
  ASSUME NEW n \in Nat, NEW S, NEW ports \in [1 .. n -> S], NEW from \in 1 .. n, NEW to \in 1 .. n
  PROVE  Exchanged(swap_item(ports, from, to), ports, n, from, to)
<1> DEFINE swapped == swap_item(ports, from, to)
<1>1. /\ swapped \in [1 .. n -> S]
      /\ swapped[from] = ports[to] /\ swapped[to] = ports[from]
      /\ \A i \in (1 .. n) \ {from, to} : swapped[i] = ports[i]
  BY DEF swap_item
<1> HIDE DEF swapped
<1> DEFINE pi == [i \in 1 .. n |-> IF i = from THEN to ELSE IF i = to THEN from ELSE i]
<1>2. /\ pi \in [1 .. n -> 1 .. n] /\ \A i \in 1 .. n : pi[pi[i]] = i
      /\ \A i \in 1 .. n : swapped[i] = ports[pi[i]]
  BY <1>1
<1> HIDE DEF pi
<1>3. Range(swapped) \subseteq Range(ports)
  BY <1>1, <1>2 DEF Range
<1>4. ASSUME NEW i \in 1 .. n
      PROVE  ports[i] \in Range(swapped)
  <2>1. pi[i] \in 1 .. n /\ swapped[pi[i]] = ports[i]
    BY <1>2
  <2> QED BY <1>1, <2>1 DEF Range
<1>5. Range(swapped) = Range(ports)
  BY <1>3, <1>4 DEF Range
<1>6. IsInjective(ports) => IsInjective(swapped)
  <2> SUFFICES ASSUME IsInjective(ports), NEW i \in 1 .. n, NEW j \in 1 .. n, swapped[i] = swapped[j]
               PROVE  i = j
    BY <1>1 DEF IsInjective
  <2>1. ports[pi[i]] = ports[pi[j]] /\ pi[i] \in 1 .. n /\ pi[j] \in 1 .. n
    BY <1>2
  <2>2. pi[i] = pi[j]
    BY <2>1 DEF IsInjective
  <2> QED BY <1>2, <2>2
<1> QED BY <1>1, <1>5, <1>6 DEF swapped, Exchanged

\* The same ports, once each; and the first is one of a sensor.
LEMMA SortIs ==
  ASSUME NEW n \in Nat, NEW ports \in [1 .. n -> Device]
  PROVE  /\ sort_ports(ports) \in [1 .. n -> Device]
         /\ Range(sort_ports(ports)) = Range(ports)
         /\ IsInjective(ports) => IsInjective(sort_ports(ports))
         /\ \A port \in Range(ports) : port.urg => n > 0 /\ sort_ports(ports)[1].urg
<1>1. PICK h : SortedSoFar(h, n, ports) /\ sort_ports(ports) = h[n].ports
  BY SortLoop
<1> DEFINE Inv(k) == LET p == h[k].ports
                         last == h[k].last
                     IN  /\ Range(p) = Range(ports)
                         /\ IsInjective(ports) => IsInjective(p)
                         /\ last <= k + 1
                         /\ last = 1 => \A j \in 2 .. k : ~p[j].urg
                         /\ last > 1 => p[1].urg
           Good == {k \in Nat : k <= n => Inv(k)}
<1>2. 0 \in Good
  BY <1>1 DEF SortedSoFar
<1>3. ASSUME NEW k \in Nat, k \in Good
      PROVE  k + 1 \in Good
  <2> SUFFICES ASSUME k + 1 <= n
               PROVE  Inv(k + 1)
    <3> HIDE DEF Inv
    <3> QED OBVIOUS
  <2>1. Inv(k)
    <3> HIDE DEF Inv
    <3> QED BY <1>3
  <2> DEFINE i == k + 1
             p == h[k].ports
             last == h[k].last
             q == h[i].ports
  <2>2. i \in 1 .. n /\ i - 1 = k /\ k \in 0 .. n
    OBVIOUS
  <2>3. h[k] \in Sorting(n) /\ h[i] = SortStep(h[k], i)
    BY <1>1, <2>2 DEF SortedSoFar
  <2>4. p \in [1 .. n -> Device] /\ last \in 1 .. n + 1
    BY <2>3 DEF Sorting
  <2>5. CASE p[i].urg /\ last < i
    <3>1. last \in 1 .. n /\ q = swap_item(p, i, last) /\ h[i].last = i + 1
      BY <2>2, <2>3, <2>4, <2>5 DEF SortStep
    <3>2. /\ Range(q) = Range(p) /\ (IsInjective(p) => IsInjective(q))
          /\ q[last] = p[i] /\ (\A j \in (1 .. n) \ {i, last} : q[j] = p[j])
      <4>1. p \in [1 .. n -> Device] /\ i \in 1 .. n /\ last \in 1 .. n /\ n \in Nat
        BY <2>2, <2>4, <3>1
      <4>2. Exchanged(swap_item(p, i, last), p, n, i, last)
        <5> HIDE DEF p, last, i
        <5> QED BY <4>1, SwapIs
      <4>3. q = swap_item(p, i, last)
        BY <3>1
      <4> HIDE DEF p, q, last, i
      <4> QED BY <4>2, <4>3 DEF Exchanged
    <3>3. q[1].urg
      <4>1. CASE last = 1
        BY <2>5, <3>2, <4>1
      <4>2. CASE last > 1
        <5>1. p[1].urg
          BY <2>1, <4>2
        <5>2. 1 \in (1 .. n) \ {i, last}
          <6> HIDE DEF i, last
          <6> QED BY <2>2, <2>4, <2>5, <4>2
        <5> QED BY <3>2, <5>1, <5>2
      <4> QED BY <2>4, <4>1, <4>2
    <3> QED BY <2>1, <3>1, <3>2, <3>3
  <2>6. CASE ~(p[i].urg /\ last < i)
    <3>1. h[i] = h[k]
      BY <2>3, <2>6 DEF SortStep
    <3>2. last = 1 => \A j \in 2 .. i : ~p[j].urg
      BY <2>1, <2>2, <2>6
    <3> QED BY <2>1, <2>4, <3>1, <3>2
  <2> QED BY <2>5, <2>6
<1>4. Inv(n)
  <2> HIDE DEF Good
  <2>1. n \in Good
    BY <1>2, <1>3, Induction
  <2> HIDE DEF Inv
  <2> QED BY <2>1 DEF Good
<1> DEFINE q == sort_ports(ports)
<1>5. /\ q \in [1 .. n -> Device] /\ q = h[n].ports
      /\ h[n].last \in 1 .. n + 1
  BY <1>1 DEF SortedSoFar, Sorting
<1>6. ASSUME NEW port \in Range(ports), port.urg
      PROVE  n > 0 /\ q[1].urg
  <2>1. PICK j \in 1 .. n : q[j] = port
    BY <1>4, <1>5 DEF Range
  <2>2. h[n].last = 1 => j = 1
    BY <1>4, <1>5, <1>6, <2>1
  <2>3. CASE h[n].last = 1
    BY <1>6, <2>1, <2>2, <2>3
  <2>4. CASE h[n].last > 1
    BY <1>4, <1>5, <2>1, <2>4
  <2> QED BY <1>5, <2>3, <2>4
<1> QED BY <1>4, <1>5, <1>6

-----------------------------------------------------------------------------
(***************************************************************************)
(* The searches.                                                           *)
(***************************************************************************)
\* A list without a port twice is as long as it has ports.
LEMMA OnceEach ==
  ASSUME NEW S, NEW s \in Seq(S), IsInjective(s)
  PROVE  Len(s) = Cardinality(Range(s))
<1>1. Len(s) \in Nat /\ DOMAIN s = 1 .. Len(s)
  BY LenProperties
<1>2. s \in Bijection(1 .. Len(s), Range(s))
  BY <1>1 DEF Bijection, Injection, Surjection, IsInjective, Range
<1> QED BY <1>1, <1>2, FS_CountingElements DEF ExistsBijection

LEMMA BoundedIsSeq ==
  ASSUME NEW S, NEW n \in Int, NEW s \in BoundedSeq(S, n)
  PROVE  s \in Seq(S)
<1>1. PICK m \in 0 .. n : s \in [1 .. m -> S]
  BY DEF BoundedSeq, SeqOf
<1> QED BY <1>1

LEMMA ListIs ==
  ASSUME NEW S, NEW ports \in Seq(S)
  PROVE  Range(find_ports(ports)) = {<<port.name, IF port.urg THEN 1 ELSE 0>> : port \in Range(ports)}
BY DEF find_ports, urg_serial_port_name, urg_serial_is_urg_port, Range

Searched == PortsKept /\ FirstIsSensor

LEMMA WindowsFinds == ASSUME FindPortsWindows PROVE Searched'
<1>1. PICK devices \in BoundedSeq(Device, MaxDevices) :
        LET ports == Kept(devices, WithPort)
        IN  /\ \A i, j \in DOMAIN ports : i # j => ports[i].name # ports[j].name
            /\ found' = FindInManager(devices)
            /\ present' = Range(ports)
  BY DEF FindPortsWindows
<1> DEFINE ports == Kept(devices, WithPort)
           n == Len(ports)
<1>2. devices \in Seq(Device)
  BY <1>1, PortsAssumption, BoundedIsSeq
<1>3. ports \in Seq(Device) /\ n \in Nat /\ DOMAIN ports = 1 .. n /\ ports \in [1 .. n -> Device]
  <2>1. ports \in Seq(Device \cap WithPort)
    BY <1>2, KeptIs
  <2>2. ports \in Seq(Device)
    BY <2>1
  <2> QED BY <2>2, LenProperties
<1>4. IsInjective(ports)
  BY <1>1, <1>3 DEF IsInjective
<1>5. found' = sort_ports(ports) /\ present' = Range(ports)
  BY <1>1 DEF FindInManager
<1> HIDE DEF ports, n
<1>6. /\ found' \in [1 .. n -> Device]
      /\ Range(found') = present'
      /\ IsInjective(found')
      /\ \A port \in present' : port.urg => n > 0 /\ found'[1].urg
  BY <1>3, <1>4, <1>5, SortIs
<1>7. found' \in Seq(Device) /\ DOMAIN found' = 1 .. n
  BY <1>3, <1>6
<1>8. PortsKept'
  BY <1>6, <1>7, OnceEach, ListIs DEF PortsKept
<1>9. FirstIsSensor'
  BY <1>3, <1>6, <1>7 DEF FirstIsSensor, urg_serial_is_urg_port
<1> QED BY <1>8, <1>9 DEF Searched

\* A list behind a list
LEMMA ListAfterList ==
  ASSUME NEW S, NEW s \in Seq(S), NEW t \in Seq(S), IsInjective(s), IsInjective(t),
         Range(s) \cap Range(t) = {}
  PROVE  /\ s \o t \in Seq(S) /\ IsInjective(s \o t)
         /\ Range(s \o t) = Range(s) \cup Range(t)
<1> DEFINE m == Len(s)
           n == Len(t)
           st == s \o t
<1>1. /\ m \in Nat /\ n \in Nat /\ DOMAIN s = 1 .. m /\ DOMAIN t = 1 .. n
  BY LenProperties
<1>2. /\ st \in Seq(S) /\ Len(st) = m + n /\ DOMAIN st = 1 .. m + n
      /\ \A i \in 1 .. m + n : st[i] = IF i <= m THEN s[i] ELSE t[i - m]
  BY ConcatProperties, LenProperties
<1> HIDE DEF m, n, st
<1>3. ASSUME NEW i \in 1 .. m + n
      PROVE  \/ i \in 1 .. m /\ st[i] = s[i] /\ s[i] \in Range(s)
             \/ i - m \in 1 .. n /\ st[i] = t[i - m] /\ t[i - m] \in Range(t)
  <2>1. CASE i <= m
    <3>1. i \in 1 .. m /\ st[i] = s[i]
      BY <1>1, <1>2, <2>1
    <3> QED BY <1>1, <3>1 DEF Range
  <2>2. CASE ~(i <= m)
    <3>1. i - m \in 1 .. n /\ st[i] = t[i - m]
      BY <1>1, <1>2, <2>2
    <3> QED BY <1>1, <3>1 DEF Range
  <2> QED BY <2>1, <2>2
<1>4. Range(st) \subseteq Range(s) \cup Range(t)
  BY <1>2, <1>3 DEF Range
<1>5. Range(s) \subseteq Range(st)
  <2>1. \A i \in 1 .. m : i \in 1 .. m + n /\ st[i] = s[i]
    BY <1>1, <1>2
  <2> QED BY <1>1, <1>2, <2>1 DEF Range
<1>6. Range(t) \subseteq Range(st)
  <2>1. \A i \in 1 .. n : i + m \in 1 .. m + n /\ st[i + m] = t[i]
    <3> TAKE i \in 1 .. n
    <3>1. i + m \in 1 .. m + n /\ ~(i + m <= m) /\ (i + m) - m = i
      BY <1>1
    <3> QED BY <1>2, <3>1
  <2> QED BY <1>1, <1>2, <2>1 DEF Range
<1>7. IsInjective(st)
  <2> SUFFICES ASSUME NEW i \in 1 .. m + n, NEW j \in 1 .. m + n, st[i] = st[j]
               PROVE  i = j
    BY <1>2 DEF IsInjective
  <2>1. \/ i \in 1 .. m /\ j \in 1 .. m /\ s[i] = s[j]
        \/ i - m \in 1 .. n /\ j - m \in 1 .. n /\ t[i - m] = t[j - m]
    BY <1>3
  <2>2. i - m = j - m => i = j
    BY <1>1
  <2> QED BY <1>1, <2>1, <2>2 DEF IsInjective
<1> QED BY <1>2, <1>4, <1>5, <1>6, <1>7 DEF st

File == [name : {1, 2} \X Files, urg : {FALSE}]

LEMMA FilesAre ==
  ASSUME NEW dir \in {1, 2}, NEW files \in Seq(Files), IsInjective(files)
  PROVE  LET list == FilesOf(dir, Kept(files, Matching))
         IN  /\ list \in Seq(File) /\ IsInjective(list)
             /\ \A file \in Range(list) : file.name[1] = dir
             /\ Range(list) = {file \in Range(FilesOf(dir, files)) : file.name[2][1] \in BaseNames}
<1> DEFINE kept == Kept(files, Matching)
           list == FilesOf(dir, kept)
           Entry(file) == [name |-> <<dir, file>>, urg |-> FALSE]
<1>1. /\ kept \in Seq(Files \cap Matching) /\ Range(kept) = Range(files) \cap Matching
      /\ IsInjective(kept)
  BY KeptIs
<1>2. /\ Len(kept) \in Nat /\ DOMAIN kept = 1 .. Len(kept)
      /\ \A i \in 1 .. Len(kept) : kept[i] \in Files
      /\ DOMAIN files = 1 .. Len(files) /\ \A i \in 1 .. Len(files) : files[i] \in Files
  BY <1>1, LenProperties, ElementOfSeq
<1> HIDE DEF kept
<1>3. /\ DOMAIN list = 1 .. Len(kept) /\ list = [i \in 1 .. Len(kept) |-> Entry(kept[i])]
      /\ \A i \in 1 .. Len(kept) : list[i] = Entry(kept[i])
  BY <1>2 DEF FilesOf
<1>4. list \in Seq(File)
  <2>1. \A i \in 1 .. Len(kept) : Entry(kept[i]) \in File
    BY <1>2 DEF File
  <2> HIDE DEF Entry, list
  <2> QED BY <1>2, <1>3, <2>1
<1>5. IsInjective(list)
  BY <1>1, <1>2, <1>3 DEF IsInjective
<1>6. Range(list) = {Entry(file) : file \in Range(kept)}
  BY <1>2, <1>3 DEF Range
<1>7. Range(FilesOf(dir, files)) = {Entry(file) : file \in Range(files)}
  BY <1>2 DEF Range, FilesOf
<1>8. \A file \in Range(files) : file \in Files
  BY <1>2 DEF Range
<1>9. Range(list) = {file \in Range(FilesOf(dir, files)) : file.name[2][1] \in BaseNames}
  BY <1>1, <1>6, <1>7, <1>8 DEF Matching
<1>10. \A file \in Range(list) : file.name[1] = dir
  BY <1>6
<1> QED BY <1>4, <1>5, <1>9, <1>10 DEF kept

LEMMA LinuxFinds == ASSUME FindPortsLinux PROVE Searched'
<1>1. PICK usb \in BoundedSeq(Files, MaxDevices - 1), dev \in BoundedSeq(Files, MaxDevices - 1) :
        /\ IsInjective(dev) /\ IsInjective(usb)
        /\ found' = FindInDirectories(<<dev, usb>>)
        /\ present' = {file \in Range(FilesOf(1, dev)) \cup Range(FilesOf(2, usb)) :
                         file.name[2][1] \in BaseNames}
  BY DEF FindPortsLinux
<1> DEFINE s == FilesOf(1, Kept(dev, Matching))
           t == FilesOf(2, Kept(usb, Matching))
<1>2. MaxDevices - 1 \in Int /\ dev \in Seq(Files) /\ usb \in Seq(Files)
  BY <1>1, PortsAssumption, BoundedIsSeq
<1>3. /\ s \in Seq(File) /\ IsInjective(s) /\ \A file \in Range(s) : file.name[1] = 1
      /\ Range(s) = {file \in Range(FilesOf(1, dev)) : file.name[2][1] \in BaseNames}
  BY <1>1, <1>2, FilesAre
<1>4. /\ t \in Seq(File) /\ IsInjective(t) /\ \A file \in Range(t) : file.name[1] = 2
      /\ Range(t) = {file \in Range(FilesOf(2, usb)) : file.name[2][1] \in BaseNames}
  BY <1>1, <1>2, FilesAre
<1>5. found' = s \o t
  BY <1>1 DEF FindInDirectories
<1>6. present' = Range(s) \cup Range(t)
  BY <1>1, <1>3, <1>4
<1> HIDE DEF s, t
<1>7. Range(s) \cap Range(t) = {}
  BY <1>3, <1>4
<1>8. found' \in Seq(File) /\ IsInjective(found') /\ Range(found') = present'
  BY <1>3, <1>4, <1>5, <1>6, <1>7, ListAfterList
<1>9. PortsKept'
  BY <1>8, OnceEach, ListIs DEF PortsKept
<1>10. \A port \in present' : ~port.urg
  <2>1. \A i \in DOMAIN found' : found'[i] \in File
    BY <1>8, LenProperties, ElementOfSeq
  <2> QED BY <1>8, <2>1 DEF Range, File
<1>11. FirstIsSensor'
  BY <1>10 DEF FirstIsSensor
<1> QED BY <1>9, <1>11 DEF Searched

LEMMA SearchedAlways == PortSpec => []Searched
<1>1. PortInit => Searched
  <2> SUFFICES ASSUME PortInit
               PROVE  Searched
    OBVIOUS
  <2>1. found = <<>> /\ present = {} /\ found \in Seq({})
    BY DEF PortInit
  <2>2. Range(find_ports(found)) = {}
    BY <2>1 DEF find_ports, Range
  <2>3. Len(found) = 0 /\ Cardinality(present) = 0
    BY <2>1, FS_EmptySet
  <2> QED BY <2>1, <2>2, <2>3 DEF Searched, PortsKept, FirstIsSensor
<1>2. Searched /\ [PortNext]_portVars => Searched'
  <2> SUFFICES ASSUME Searched, [PortNext]_portVars
               PROVE  Searched'
    OBVIOUS
  <2>1. CASE FindPortsWindows
    BY <2>1, WindowsFinds
  <2>2. CASE FindPortsLinux
    BY <2>2, LinuxFinds
  <2>3. CASE UNCHANGED <<found, present>>
    BY <2>3 DEF Searched, PortsKept, FirstIsSensor
  <2> QED BY <2>1, <2>2, <2>3 DEF PortNext, ReadArguments, portVars
<1> QED BY <1>1, <1>2, PTL DEF PortSpec

\* Every port of the machine is in the list once, under its own name and with
\* its own flag, for any number of devices, names and files, on Windows and on
\* Linux.
THEOREM PortsAlwaysKept == PortSpec => []PortsKept
<1>1. Searched => PortsKept
  BY DEF Searched
<1> QED BY <1>1, SearchedAlways, PTL

\* The first port of the list is one of a sensor when there is any.
THEOREM FirstAlwaysSensor == PortSpec => []FirstIsSensor
<1>1. Searched => FirstIsSensor
  BY DEF Searched
<1> QED BY <1>1, SearchedAlways, PTL

-----------------------------------------------------------------------------
(***************************************************************************)
(* The two readers of the command line.                                    *)
(***************************************************************************)
Spoken == Options \cup {"a", "b"}
Devices == Spoken \cup {"192.168.0.10", "default port"}
Connections == [type : {"ethernet", "serial"}, device : Devices, number : {10940, 115200}]
Reading == [chosen : Connections, skip : BOOLEAN]
Unread == [chosen |-> Chosen("serial", DefaultDevice("serial")), skip |-> FALSE]

\* One turn of the loop of open_urg_sensor
Read(s, arguments, i) ==
  IF s.skip \/ arguments[i] \notin Options THEN [s EXCEPT !.skip = FALSE]
  ELSE [chosen |-> Argument(s.chosen, arguments, i), skip |-> TRUE]

ReadSoFar(h, arguments) ==
  /\ h[0] = Unread
  /\ \A k \in 1 .. Len(arguments) : h[k] = Read(h[k - 1], arguments, k) /\ h[k - 1] \in Reading

LEMMA UnreadType == Unread \in Reading
BY DEF Unread, Reading, Connections, Devices, Spoken, Chosen, DefaultDevice

LEMMA ReadType ==
  ASSUME NEW arguments \in Seq(Spoken), NEW s \in Reading, NEW i \in 1 .. Len(arguments)
  PROVE  Read(s, arguments, i) \in Reading
<1>1. s.chosen \in Connections /\ s.skip \in BOOLEAN
  BY DEF Reading
<1>2. \A default \in Devices : Following(arguments, i, default) \in Devices
  <2>1. i < Len(arguments) => arguments[i + 1] \in Spoken
    BY ElementOfSeq, LenProperties
  <2> QED BY <2>1 DEF Following, Devices
<1>3. Chosen("ethernet", DefaultDevice("ethernet")) \in Connections
  BY DEF Chosen, DefaultDevice, Connections, Devices
<1>4. ASSUME NEW c \in Connections
      PROVE  [c EXCEPT !.device = Following(arguments, i, @)] \in Connections
  <2>1. c.device \in Devices
    BY DEF Connections
  <2>2. Following(arguments, i, c.device) \in Devices
    BY <1>2, <2>1
  <2> QED BY <2>2 DEF Connections
<1>5. Argument(s.chosen, arguments, i) \in Connections
  BY <1>1, <1>3, <1>4 DEF Argument
<1> QED BY <1>1, <1>5 DEF Read, Reading

LEMMA ReadLoop ==
  ASSUME NEW arguments \in Seq(Spoken)
  PROVE  \E h : ReadSoFar(h, arguments) /\ open_urg_sensor(arguments) = h[Len(arguments)].chosen
<1> DEFINE n == Len(arguments)
           D == Reading
           base == Unread
           seq == [i \in 1 .. n |-> i]
           step == [p \in D \X (1 .. n) |-> Read(p[1], arguments, p[2])]
           Eq(g) == g = [t \in SUBSET DOMAIN seq |->
                           IF t = {} THEN base ELSE Read(g[t \ {Max(t)}], arguments, seq[Max(t)])]
           iter == CHOOSE g : Eq(g)
<1>1. n \in Nat /\ DOMAIN seq = 1 .. n /\ \A k \in 1 .. n : seq[k] = k
  BY LenProperties
<1>2. base \in D
  BY UnreadType
<1>3. step \in [D \X (1 .. n) -> D] /\ \A d \in D, k \in 1 .. n : step[<<d, k>>] = Read(d, arguments, k)
  <2>1. \A d \in D, k \in 1 .. n : Read(d, arguments, k) \in D
    BY ReadType
  <2> HIDE DEF D, n
  <2> QED BY <2>1
<1>7. open_urg_sensor(arguments) = iter[1 .. n].chosen
  BY <1>1 DEF open_urg_sensor, FoldLeft, MapThenFoldSet, Read, Unread
<1> HIDE DEF step, D, base, n
<1>4. PICK f \in [SUBSET (1 .. n) -> D] : Folds1(f, n, base, step)
  BY <1>1, <1>2, <1>3, FoldExists
<1>5. Eq(f)
  <2> HIDE DEF seq
  <2>1. ASSUME NEW t \in SUBSET (1 .. n)
        PROVE  f[t] = IF t = {} THEN base ELSE Read(f[t \ {Max(t)}], arguments, seq[Max(t)])
    <3>1. t # {} => Max(t) \in 1 .. n /\ t \ {Max(t)} \in SUBSET (1 .. n)
      BY <1>1, MaxIs
    <3>2. f[t] = IF t = {} THEN base ELSE step[<<f[t \ {Max(t)}], Max(t)>>]
      BY <1>4 DEF Folds1
    <3> QED BY <1>1, <1>3, <1>4, <3>1, <3>2
  <2> QED BY <1>1, <1>4, <2>1
<1>6. Eq(iter)
  <2> HIDE DEF Eq
  <2> QED BY <1>5
<1> HIDE DEF iter
<1>8. Follows(iter, n, D, base, step)
  <2> HIDE DEF seq
  <2>1. iter[{}] = base
    BY <1>6
  <2>2. ASSUME NEW k \in 1 .. n
        PROVE  iter[1 .. k] = Read(iter[1 .. k - 1], arguments, k)
    <3>1. /\ Max(1 .. k) = k /\ (1 .. k) \ {k} = 1 .. k - 1
          /\ 1 .. k # {} /\ 1 .. k \in SUBSET DOMAIN seq
      BY <1>1, MaxOfFirst
    <3> QED BY <1>1, <1>6, <3>1
  <2> QED BY <1>3, <2>1, <2>2 DEF Follows
<1>9. PICK h : Loops(h, n, D, base, step, iter[1 .. n])
  BY <1>1, <1>2, <1>3, <1>8, LoopIs
<1>10. ASSUME NEW k \in 1 .. n
       PROVE  h[k] = Read(h[k - 1], arguments, k) /\ h[k - 1] \in D
  <2>1. k - 1 \in 0 .. n
    BY <1>1
  <2>2. h[k - 1] \in D /\ h[k] = step[<<h[k - 1], k>>]
    BY <1>9, <2>1 DEF Loops
  <2> QED BY <1>3, <2>2
<1> QED BY <1>7, <1>9, <1>10 DEF Loops, ReadSoFar, D, base, n

LEMMA OneAtMost ==
  ASSUME NEW n \in Nat, NEW S \in SUBSET (1 .. n), Cardinality(S) <= 1
  PROVE  \A i, j \in S : i = j
<1> SUFFICES ASSUME NEW i \in S, NEW j \in S, i # j
             PROVE  FALSE
  OBVIOUS
<1>1. IsFiniteSet(S)
  <2>1. IsFiniteSet(1 .. n)
    BY FS_Interval
  <2> QED BY <2>1, FS_Subset
<1>2. IsFiniteSet({i}) /\ Cardinality({i}) = 1
  BY FS_Singleton
<1>3. Cardinality({i} \cup {j}) = 2 /\ {i} \cup {j} \in SUBSET S
  BY <1>2, FS_AddElement
<1>4. Cardinality({i} \cup {j}) <= Cardinality(S)
  BY <1>1, <1>3, FS_Subset
<1>5. Cardinality(S) \in Nat
  BY <1>1, FS_CardinalityType
<1> QED BY <1>3, <1>4, <1>5

OptionsIn(arguments) == {i \in DOMAIN arguments : arguments[i] \in Options}

\* With one option at most, open_urg_sensor has what it reads there, or the
\* default.
LEMMA OpenReads ==
  ASSUME NEW arguments \in Seq(Spoken), Cardinality(OptionsIn(arguments)) <= 1
  PROVE  /\ OptionsIn(arguments) = {} => open_urg_sensor(arguments) = Unread.chosen
         /\ \A o \in OptionsIn(arguments) :
              open_urg_sensor(arguments) = Argument(Unread.chosen, arguments, o)
<1> DEFINE n == Len(arguments)
           options == OptionsIn(arguments)
<1>1. n \in Nat /\ DOMAIN arguments = 1 .. n /\ options \in SUBSET (1 .. n)
      /\ \A i \in 1 .. n : i \in options <=> arguments[i] \in Options
  BY LenProperties DEF OptionsIn
<1>2. \A i, j \in options : i = j
  BY <1>1, OneAtMost
<1>3. PICK h : ReadSoFar(h, arguments) /\ open_urg_sensor(arguments) = h[n].chosen
  BY ReadLoop
<1>4. h[0] = Unread /\ \A k \in 1 .. n : h[k] = Read(h[k - 1], arguments, k) /\ h[k - 1] \in Reading
  BY <1>3 DEF ReadSoFar
<1> HIDE DEF n, options
<1> DEFINE Inv(k) == /\ h[k].skip = IF k \in options THEN TRUE ELSE FALSE
                     /\ (\A o \in options : o > k) => h[k].chosen = Unread.chosen
                     /\ \A o \in options : o <= k => h[k].chosen = Argument(Unread.chosen, arguments, o)
           Good == {k \in Nat : k <= n => Inv(k)}
<1>5. 0 \in Good
  <2>1. h[0].skip = FALSE /\ h[0].chosen = Unread.chosen
    BY <1>4 DEF Unread
  <2>2. \A o \in options : ~(o <= 0)
    BY <1>1
  <2>3. h[0].skip = IF 0 \in options THEN TRUE ELSE FALSE
    <3>1. 0 \notin options
      BY <1>1
    <3> QED BY <2>1, <3>1
  <2>4. \A o \in options : o <= 0 => h[0].chosen = Argument(Unread.chosen, arguments, o)
    BY <2>2
  <2>5. Inv(0)
    BY <2>1, <2>3, <2>4
  <2> HIDE DEF Inv
  <2> QED BY <2>5
<1>6. ASSUME NEW k \in Nat, k \in Good
      PROVE  k + 1 \in Good
  <2> SUFFICES ASSUME k + 1 <= n
               PROVE  Inv(k + 1)
    <3> HIDE DEF Inv
    <3> QED OBVIOUS
  <2>1. Inv(k)
    <3> HIDE DEF Inv
    <3> QED BY <1>1, <1>6
  <2> DEFINE i == k + 1
  <2>2. i \in 1 .. n /\ i - 1 = k /\ i > 0
    BY <1>1
  <2>3. h[i] = Read(h[k], arguments, i) /\ h[k] \in Reading
    BY <1>4, <2>2
  <2>4. CASE i \in options
    <3>1. (\A o \in options : o = i) /\ arguments[i] \in Options
      BY <1>1, <1>2, <2>2, <2>4
    <3>2. k \notin options /\ h[k].skip = FALSE /\ h[k].chosen = Unread.chosen
      <4>1. k # i /\ (\A o \in options : o > k)
        BY <2>2, <3>1
      <4>2. k \notin options
        BY <3>1, <4>1
      <4>3. h[k].skip = FALSE
        BY <2>1, <4>2
      <4> QED BY <2>1, <4>1, <4>2, <4>3
    <3>3. h[i] = [chosen |-> Argument(Unread.chosen, arguments, i), skip |-> TRUE]
      BY <2>3, <3>1, <3>2 DEF Read
    <3>4. h[i].skip = TRUE /\ h[i].chosen = Argument(Unread.chosen, arguments, i)
      BY <3>3
    <3>5. \A o \in options : h[i].chosen = Argument(Unread.chosen, arguments, o)
      BY <3>1, <3>4
    <3>6. ~\A o \in options : o > i
      BY <2>2, <2>4
    <3>7. h[i].skip = IF i \in options THEN TRUE ELSE FALSE
      BY <2>4, <3>4
    <3> HIDE DEF i
    <3>8. Inv(i)
      BY ONLY <3>5, <3>6, <3>7
    <3> QED BY <3>8 DEF i
  <2>5. CASE i \notin options
    <3>1. arguments[i] \notin Options
      BY <1>1, <2>2, <2>5
    <3>2. h[i] = [h[k] EXCEPT !.skip = FALSE]
      BY <2>3, <3>1 DEF Read
    <3>3. h[i].skip = FALSE /\ h[i].chosen = h[k].chosen
      BY <2>3, <3>2 DEF Reading
    <3>4. \A o \in options : (o > i <=> o > k) /\ (o <= i <=> o <= k)
      BY <1>1, <2>2, <2>5
    <3> QED BY <2>1, <2>5, <3>3, <3>4
  <2> QED BY <2>4, <2>5
<1>7. Inv(n)
  <2> HIDE DEF Good
  <2>1. n \in Good
    BY <1>1, <1>5, <1>6, Induction
  <2> HIDE DEF Inv
  <2> QED BY <1>1, <2>1 DEF Good
<1>8. \A o \in options : o <= n
  BY <1>1
<1> QED BY <1>3, <1>7, <1>8 DEF options

LEMMA ReadersMeet ==
  ASSUME NEW arguments \in Seq(Spoken), Cardinality(OptionsIn(arguments)) <= 1
  PROVE  Connection_information(arguments) = open_urg_sensor(arguments)
<1> DEFINE options == OptionsIn(arguments)
           first == CHOOSE i \in options : \A j \in options : i <= j
<1>1. CASE options = {}
  <2>1. Connection_information(arguments) = Chosen("serial", DefaultDevice("serial"))
    BY <1>1 DEF Connection_information, OptionsIn
  <2> QED BY <1>1, <2>1, OpenReads DEF Unread
<1>2. CASE options # {}
  <2>1. Len(arguments) \in Nat /\ DOMAIN arguments = 1 .. Len(arguments)
    BY LenProperties
  <2>2. options \in SUBSET (1 .. Len(arguments)) /\ \A i, j \in options : i = j
    BY <2>1, OneAtMost DEF OptionsIn
  <2>3. first \in options /\ arguments[first] \in Options
    <3>1. \E i \in options : \A j \in options : i <= j
      BY <1>2, <2>2
    <3>2. first \in options
      BY <3>1
    <3> HIDE DEF first
    <3> QED BY <3>2 DEF OptionsIn
  <2> DEFINE type == TypeOf(arguments[first])
  <2>4. Connection_information(arguments)
          = Chosen(type, Following(arguments, first, DefaultDevice(type)))
    BY <1>2 DEF Connection_information, OptionsIn
  <2> HIDE DEF first, options
  <2>5. open_urg_sensor(arguments) = Argument(Unread.chosen, arguments, first)
    BY <2>3, OpenReads DEF options
  <2>6. Unread.chosen = Chosen("serial", DefaultDevice("serial"))
    BY DEF Unread
  <2> DEFINE option == arguments[first]
             c == Chosen("serial", DefaultDevice("serial"))
  <2>7. open_urg_sensor(arguments) = Argument(c, arguments, first) /\ option \in {"-e", "-s"}
    BY <2>3, <2>5, <2>6 DEF Options
  <2>8. CASE option = "-e"
    <3>1. type = "ethernet"
      BY <2>8 DEF TypeOf
    <3>2. Argument(c, arguments, first)
            = [Chosen("ethernet", DefaultDevice("ethernet")) EXCEPT
                 !.device = Following(arguments, first, DefaultDevice("ethernet"))]
      BY <2>8 DEF Argument, Chosen
    <3> HIDE DEF option
    <3> QED BY <2>4, <2>7, <3>1, <3>2 DEF Chosen
  <2>9. CASE option = "-s"
    <3>1. type = "serial"
      BY <2>9 DEF TypeOf
    <3>2. Argument(c, arguments, first)
            = [c EXCEPT !.device = Following(arguments, first, DefaultDevice("serial"))]
      BY <2>9 DEF Argument, Chosen
    <3> HIDE DEF option
    <3> QED BY <2>4, <2>7, <3>1, <3>2 DEF Chosen
  <2> QED BY <2>7, <2>8, <2>9
<1> QED BY <1>1, <1>2

\* With one option at most, Connection_information and open_urg_sensor make
\* the same connection of a command line of any length.
THEOREM ReadersAlwaysAgree == PortSpec => []ReadersAgree
<1> DEFINE Inv == chosen # <<>> => /\ argv \in Seq(Spoken)
                                   /\ chosen = <<Connection_information(argv), open_urg_sensor(argv)>>
<1>1. PortInit => Inv
  BY DEF PortInit
<1>2. Inv /\ [PortNext]_portVars => Inv'
  <2> SUFFICES ASSUME Inv, [PortNext]_portVars
               PROVE  Inv'
    OBVIOUS
  <2>1. CASE ReadArguments
    <3>1. argv' \in BoundedSeq(Spoken, MaxArguments)
      BY <2>1 DEF ReadArguments, Spoken
    <3>2. MaxArguments \in Int
      BY PortsAssumption
    <3>3. argv' \in Seq(Spoken)
      BY <3>1, <3>2, BoundedIsSeq
    <3> QED BY <2>1, <3>3 DEF ReadArguments
  <2>2. CASE UNCHANGED <<argv, chosen>>
    BY <2>2
  <2> QED BY <2>1, <2>2 DEF PortNext, FindPortsWindows, FindPortsLinux, portVars
<1>3. Inv => ReadersAgree
  BY ReadersMeet DEF ReadersAgree, OptionsIn
<1> QED BY <1>1, <1>2, <1>3, PTL DEF PortSpec

-----------------------------------------------------------------------------
(***************************************************************************)
(* The pillars: numbers.                                                   *)
(***************************************************************************)
LEMMA QuotientIs ==
  ASSUME NEW n \in Int, NEW d \in Nat \ {0}
  PROVE  /\ Quotient(n, d) \in Int
         /\ \A k \in Int : k * d <= n => k <= Quotient(n, d)
<1>1. CASE n < 0
  <2> DEFINE q == (-n) \div d
  <2>1. q \in Nat /\ d * q <= -n
    BY <1>1
  <2>2. Quotient(n, d) = -q
    BY <1>1 DEF Quotient
  <2>3. ASSUME NEW k \in Int, k * d <= n
        PROVE  k <= -q
    <3>1. CASE k >= -q + 1
      <4>1. (-k) * d = -(k * d) /\ -n <= (-k) * d
        BY <1>1, <2>3
      <4>2. q + (-k) \in Int /\ -k <= q - 1
        BY <2>1, <3>1
      <4> QED BY <2>1, <4>1, <4>2
    <3> QED BY <2>1, <3>1
  <2> QED BY <2>1, <2>2, <2>3
<1>2. CASE n >= 0
  BY <1>2 DEF Quotient
<1> QED BY <1>1, <1>2


-----------------------------------------------------------------------------
(***************************************************************************)
(* The filter.  The ten turns of the two loops sort five numbers.          *)
(***************************************************************************)
Exchanged2(s, i, j) == IF s[i] > s[j] THEN [s EXCEPT ![i] = s[j], ![j] = s[i]] ELSE s

Turns == << <<1, 2>>, <<1, 3>>, <<1, 4>>, <<1, 5>>, <<2, 3>>, <<2, 4>>, <<2, 5>>,
            <<3, 4>>, <<3, 5>>, <<4, 5>> >>

LEMMA TurnsAre ==
  /\ DOMAIN Turns = 1 .. 10
  /\ \A k \in 1 .. 10 : Turns[k][1] \in 1 .. 5 /\ Turns[k][2] \in 1 .. 5
<1>1. DOMAIN Turns = 1 .. 10
  BY DEF Turns
<1>2. ASSUME NEW k \in 1 .. 10
      PROVE  Turns[k][1] \in 1 .. 5 /\ Turns[k][2] \in 1 .. 5
  <2>1. k = 1 \/ k = 2 \/ k = 3 \/ k = 4 \/ k = 5 \/ k = 6 \/ k = 7 \/ k = 8 \/ k = 9 \/ k = 10
    OBVIOUS
  <2> QED BY <2>1 DEF Turns
<1> QED BY <1>1, <1>2

SortedLoop(h, s) ==
  /\ h \in [0 .. 10 -> [1 .. 5 -> Int]] /\ h[0] = s
  /\ \A k \in 1 .. 10 : h[k] = Exchanged2(h[k - 1], Turns[k][1], Turns[k][2])

LEMMA SortedLoops ==
  ASSUME NEW s \in [1 .. 5 -> Int]
  PROVE  \E h : SortedLoop(h, s) /\ Sorted(s) = h[10]
<1> DEFINE D == [1 .. 5 -> Int]
           Exchange(d, mn) == IF d[mn[1]] > d[mn[2]]
                              THEN [d EXCEPT ![mn[1]] = d[mn[2]], ![mn[2]] = d[mn[1]]] ELSE d
           step == [p \in D \X (1 .. 10) |-> Exchange(p[1], Turns[p[2]])]
           Eq(g) == g = [t \in SUBSET DOMAIN Turns |->
                           IF t = {} THEN s ELSE Exchange(g[t \ {Max(t)}], Turns[Max(t)])]
           iter == CHOOSE g : Eq(g)
<1>1. ASSUME NEW d \in D, NEW k \in 1 .. 10
      PROVE  Exchange(d, Turns[k]) \in D
  <2>1. Turns[k][1] \in 1 .. 5 /\ Turns[k][2] \in 1 .. 5
    BY TurnsAre
  <2> DEFINE i == Turns[k][1]
             j == Turns[k][2]
  <2>2. d[i] \in Int /\ d[j] \in Int
    BY <2>1
  <2> HIDE DEF i, j
  <2>3. [d EXCEPT ![i] = d[j], ![j] = d[i]] \in D
    BY <2>2
  <2> QED BY <2>3 DEF i, j
<1>2. step \in [D \X (1 .. 10) -> D] /\ \A d \in D, k \in 1 .. 10 : step[<<d, k>>] = Exchange(d, Turns[k])
  <2> HIDE DEF Exchange, D
  <2> QED BY <1>1
<1>3. s \in D /\ 10 \in Nat
  OBVIOUS
<1> HIDE DEF Exchange, step, D
<1>4. PICK f \in [SUBSET (1 .. 10) -> D] : Folds1(f, 10, s, step)
  BY <1>2, <1>3, FoldExists
<1>5. Eq(f)
  <2>1. ASSUME NEW t \in SUBSET (1 .. 10)
        PROVE  f[t] = IF t = {} THEN s ELSE Exchange(f[t \ {Max(t)}], Turns[Max(t)])
    <3>1. t # {} => Max(t) \in 1 .. 10 /\ t \ {Max(t)} \in SUBSET (1 .. 10)
      BY <1>3, MaxIs
    <3>2. f[t] = IF t = {} THEN s ELSE step[<<f[t \ {Max(t)}], Max(t)>>]
      BY <1>4 DEF Folds1
    <3> QED BY <1>2, <1>4, <3>1, <3>2
  <2> QED BY <1>4, <2>1, TurnsAre
<1>6. Eq(iter)
  <2> HIDE DEF Eq
  <2> QED BY <1>5
<1>7. Sorted(s) = iter[1 .. 10]
  BY TurnsAre DEF Sorted, FoldLeft, MapThenFoldSet, Exchange, Turns
<1> HIDE DEF iter
<1>8. /\ iter[{}] = s
      /\ \A k \in 1 .. 10 : iter[1 .. k] = Exchange(iter[1 .. k - 1], Turns[k])
  <2>1. iter[{}] = s
    BY <1>6
  <2>2. ASSUME NEW k \in 1 .. 10
        PROVE  iter[1 .. k] = Exchange(iter[1 .. k - 1], Turns[k])
    <3>1. /\ Max(1 .. k) = k /\ (1 .. k) \ {k} = 1 .. k - 1
          /\ 1 .. k # {} /\ 1 .. k \in SUBSET DOMAIN Turns
      BY <1>3, MaxOfFirst, TurnsAre
    <3> QED BY <1>6, <3>1
  <2> QED BY <2>1, <2>2
<1>9. PICK h : Loops(h, 10, D, s, step, iter[1 .. 10])
  <2>1. Follows(iter, 10, D, s, step)
    BY <1>2, <1>8 DEF Follows
  <2> QED BY <1>2, <1>3, <2>1, LoopIs
<1>10. ASSUME NEW k \in 1 .. 10
       PROVE  h[k] = Exchanged2(h[k - 1], Turns[k][1], Turns[k][2])
  <2>1. k - 1 \in 0 .. 10
    OBVIOUS
  <2>2. h[k - 1] \in D /\ h[k] = step[<<h[k - 1], k>>]
    BY <1>9, <2>1 DEF Loops
  <2> QED BY <1>2, <2>2 DEF Exchange, Exchanged2
<1> QED BY <1>7, <1>9, <1>10 DEF Loops, SortedLoop, D

\* Every number of s is one of r.
Holds(r, s) == \A k \in 1 .. 5 : \E j \in 1 .. 5 : s[k] = r[j]

\* r has s's numbers, each in a place of its own
Rearranged(r, s, p) ==
  /\ r \in [1 .. 5 -> Int] /\ p \in [1 .. 5 -> 1 .. 5]
  /\ \A k \in 1 .. 5 : r[k] = s[p[k]]
  /\ \A k \in 1 .. 5 : \E j \in 1 .. 5 : p[j] = k

\* e is r, or r with two places exchanged, and these are in order.
Turned(r, e, i, j) ==
  /\ e[i] <= e[j]
  /\ \A k \in 1 .. 5 : k # i /\ k # j => e[k] = r[k]
  /\ \/ e[i] = r[i] /\ e[j] = r[j]
     \/ e[i] = r[j] /\ e[j] = r[i]

LEMMA ExchangeIs ==
  ASSUME NEW s \in [1 .. 5 -> Int], NEW r, NEW p, Rearranged(r, s, p),
         NEW i \in 1 .. 5, NEW j \in 1 .. 5, i # j
  PROVE  /\ \E q : Rearranged(Exchanged2(r, i, j), s, q)
         /\ Turned(r, Exchanged2(r, i, j), i, j)
<1> DEFINE e == Exchanged2(r, i, j)
           q == IF r[i] > r[j] THEN [p EXCEPT ![i] = p[j], ![j] = p[i]] ELSE p
<1>1. r \in [1 .. 5 -> Int] /\ p \in [1 .. 5 -> 1 .. 5]
  BY DEF Rearranged
<1>2. CASE r[i] > r[j]
  <2>1. e = [r EXCEPT ![i] = r[j], ![j] = r[i]] /\ q = [p EXCEPT ![i] = p[j], ![j] = p[i]]
    BY <1>2 DEF Exchanged2
  <2> HIDE DEF e, q
  <2>2. e \in [1 .. 5 -> Int] /\ q \in [1 .. 5 -> 1 .. 5]
        /\ e[i] = r[j] /\ e[j] = r[i] /\ q[i] = p[j] /\ q[j] = p[i]
        /\ \A k \in 1 .. 5 : k # i /\ k # j => e[k] = r[k] /\ q[k] = p[k]
    BY <1>1, <2>1
  <2>3. \A k \in 1 .. 5 : e[k] = s[q[k]]
    BY <2>2 DEF Rearranged
  <2>4. ASSUME NEW k \in 1 .. 5
        PROVE  \E m \in 1 .. 5 : q[m] = k
    <3>1. PICK m \in 1 .. 5 : p[m] = k
      BY DEF Rearranged
    <3> QED BY <2>2, <3>1
  <2>5. Rearranged(e, s, q)
    BY <2>2, <2>3, <2>4 DEF Rearranged
  <2> QED BY <1>1, <1>2, <2>2, <2>5 DEF e, Turned
<1>3. CASE ~(r[i] > r[j])
  <2>1. e = r
    BY <1>3 DEF Exchanged2
  <2>2. r[i] <= r[j]
    BY <1>1, <1>3
  <2> QED BY <2>1, <2>2 DEF Turned
<1> QED BY <1>2, <1>3

\* The third of five sorted numbers is their median.
LEMMA SortedIs ==
  ASSUME NEW s \in [1 .. 5 -> Int]
  PROVE  \E p : /\ Rearranged(Sorted(s), s, p)
                /\ Sorted(s)[1] <= Sorted(s)[3] /\ Sorted(s)[2] <= Sorted(s)[3]
                /\ Sorted(s)[3] <= Sorted(s)[4] /\ Sorted(s)[3] <= Sorted(s)[5]
<1>1. PICK h : SortedLoop(h, s) /\ Sorted(s) = h[10]
  BY SortedLoops
<1> DEFINE Some(r) == \E p : Rearranged(r, s, p)
<1>2. Some(s)
  <2> DEFINE p == [k \in 1 .. 5 |-> k]
  <2>1. Rearranged(s, s, p)
    BY DEF Rearranged
  <2> HIDE DEF p
  <2> QED BY <2>1
<1>3. /\ h[0] = s
      /\ h[1] = Exchanged2(h[0], 1, 2) /\ h[2] = Exchanged2(h[1], 1, 3)
      /\ h[3] = Exchanged2(h[2], 1, 4) /\ h[4] = Exchanged2(h[3], 1, 5)
      /\ h[5] = Exchanged2(h[4], 2, 3) /\ h[6] = Exchanged2(h[5], 2, 4)
      /\ h[7] = Exchanged2(h[6], 2, 5) /\ h[8] = Exchanged2(h[7], 3, 4)
      /\ h[9] = Exchanged2(h[8], 3, 5) /\ h[10] = Exchanged2(h[9], 4, 5)
  <2>1. \A k \in 1 .. 10 : h[k] = Exchanged2(h[k - 1], Turns[k][1], Turns[k][2])
    BY <1>1 DEF SortedLoop
  <2>2. /\ Turns[1] = <<1, 2>> /\ Turns[2] = <<1, 3>> /\ Turns[3] = <<1, 4>> /\ Turns[4] = <<1, 5>>
        /\ Turns[5] = <<2, 3>> /\ Turns[6] = <<2, 4>> /\ Turns[7] = <<2, 5>>
        /\ Turns[8] = <<3, 4>> /\ Turns[9] = <<3, 5>> /\ Turns[10] = <<4, 5>>
    BY DEF Turns
  <2> QED BY <1>1, <2>1, <2>2 DEF SortedLoop
<1>4. ASSUME NEW r, Some(r), NEW i \in 1 .. 5, NEW j \in 1 .. 5, i # j
      PROVE  Some(Exchanged2(r, i, j)) /\ Turned(r, Exchanged2(r, i, j), i, j)
  <2>1. PICK p : Rearranged(r, s, p)
    BY <1>4
  <2>2. \E q : Rearranged(Exchanged2(r, i, j), s, q)
    BY <1>4, <2>1, ExchangeIs
  <2>3. Turned(r, Exchanged2(r, i, j), i, j)
    BY <1>4, <2>1, ExchangeIs
  <2> QED BY <2>2, <2>3
<1> HIDE DEF Some
<1>5. Some(h[1]) /\ Turned(h[0], h[1], 1, 2)
  BY <1>2, <1>3, <1>4
<1>6. Some(h[2]) /\ Turned(h[1], h[2], 1, 3)
  BY <1>3, <1>4, <1>5
<1>7. Some(h[3]) /\ Turned(h[2], h[3], 1, 4)
  BY <1>3, <1>4, <1>6
<1>8. Some(h[4]) /\ Turned(h[3], h[4], 1, 5)
  BY <1>3, <1>4, <1>7
<1>9. Some(h[5]) /\ Turned(h[4], h[5], 2, 3)
  BY <1>3, <1>4, <1>8
<1>10. Some(h[6]) /\ Turned(h[5], h[6], 2, 4)
  BY <1>3, <1>4, <1>9
<1>11. Some(h[7]) /\ Turned(h[6], h[7], 2, 5)
  BY <1>3, <1>4, <1>10
<1>12. Some(h[8]) /\ Turned(h[7], h[8], 3, 4)
  BY <1>3, <1>4, <1>11
<1>13. Some(h[9]) /\ Turned(h[8], h[9], 3, 5)
  BY <1>3, <1>4, <1>12
<1>14. Some(h[10]) /\ Turned(h[9], h[10], 4, 5)
  BY <1>3, <1>4, <1>13
<1>15. \A n \in 0 .. 10 : \A k \in 1 .. 5 : h[n][k] \in Int
  BY <1>1 DEF SortedLoop
<1> USE DEF Turned
<1>16. h[4][1] <= h[4][2] /\ h[4][1] <= h[4][3] /\ h[4][1] <= h[4][4] /\ h[4][1] <= h[4][5]
  BY <1>5, <1>6, <1>7, <1>8, <1>15
<1>17. /\ h[7][2] <= h[7][3] /\ h[7][2] <= h[7][4] /\ h[7][2] <= h[7][5]
       /\ h[7][1] <= h[7][2]
  BY <1>9, <1>10, <1>11, <1>15, <1>16
<1>18. /\ h[9][3] <= h[9][4] /\ h[9][3] <= h[9][5] /\ h[9][2] <= h[9][3] /\ h[9][1] <= h[9][2]
  BY <1>12, <1>13, <1>15, <1>17
<1>19. /\ h[10][3] <= h[10][4] /\ h[10][3] <= h[10][5]
       /\ h[10][2] <= h[10][3] /\ h[10][1] <= h[10][3]
  BY <1>14, <1>15, <1>18
<1> QED BY <1>1, <1>14, <1>19 DEF Some

\* At most two of five places hold less than the median, and at most two more.
LEMMA TwoAtMost ==
  ASSUME NEW a, NEW b, NEW S, S \subseteq {a, b}
  PROVE  Cardinality(S) <= 2
<1>1. IsFiniteSet({a, b}) /\ Cardinality({a, b}) <= 2
  <2>1. IsFiniteSet({a}) /\ Cardinality({a}) = 1 /\ {a, b} = {a} \cup {b}
    BY FS_Singleton
  <2> QED BY <2>1, FS_AddElement
<1> QED BY <1>1, FS_Subset, FS_CardinalityType

LEMMA MedianIs ==
  ASSUME NEW s \in Seq(Nat), NEW i \in 1 .. Len(s) - 4
  PROVE  /\ \E j \in i .. i + 4 : s[j] = Filtered(s)[i]
         /\ Cardinality({j \in i .. i + 4 : s[j] < Filtered(s)[i]}) <= 2
         /\ Cardinality({j \in i .. i + 4 : s[j] > Filtered(s)[i]}) <= 2
<1> DEFINE five == SubSeq(s, i, i + 4)
           r == Sorted(five)
<1>1. Len(s) \in Nat /\ DOMAIN s = 1 .. Len(s) /\ \A j \in 1 .. Len(s) : s[j] \in Nat
  BY LenProperties, ElementOfSeq
<1>2. five \in [1 .. 5 -> Int] /\ \A k \in 1 .. 5 : five[k] = s[i + k - 1]
  <2>1. i \in 1 .. Len(s) + 1 /\ i + 4 \in i - 1 .. Len(s)
    BY <1>1
  <2>2. /\ five \in Seq(Nat) /\ Len(five) = 5
        /\ \A k \in 1 .. 5 : five[k] = s[i + k - 1]
    BY <2>1, SubSeqProperties
  <2> HIDE DEF five
  <2>3. five \in [1 .. 5 -> Nat]
    BY <2>2, LenProperties
  <2>4. five \in [1 .. 5 -> Int]
    BY <2>3
  <2> QED BY <2>2, <2>4
<1> HIDE DEF five
<1>3. PICK p : /\ Rearranged(r, five, p) /\ r[1] <= r[3] /\ r[2] <= r[3]
               /\ r[3] <= r[4] /\ r[3] <= r[5]
  BY <1>2, SortedIs
<1>4. Filtered(s)[i] = r[3]
  BY <1>1 DEF Filtered, five
<1> HIDE DEF r
<1>5. /\ \A k \in 1 .. 5 : r[k] = five[p[k]] /\ p[k] \in 1 .. 5 /\ r[k] \in Int
      /\ \A k \in 1 .. 5 : \E j \in 1 .. 5 : p[j] = k
  BY <1>3 DEF Rearranged
<1>6. ASSUME NEW j \in i .. i + 4
      PROVE  \E k \in 1 .. 5 : r[k] = s[j] /\ j = i + p[k] - 1
  <2>1. j - i + 1 \in 1 .. 5 /\ i + (j - i + 1) - 1 = j
    OBVIOUS
  <2>2. PICK k \in 1 .. 5 : p[k] = j - i + 1
    BY <1>5, <2>1
  <2>3. r[k] = five[j - i + 1] /\ five[j - i + 1] = s[j] /\ j = i + p[k] - 1
    BY <1>2, <1>5, <2>1, <2>2
  <2> QED BY <2>3
<1>7. \E j \in i .. i + 4 : s[j] = r[3]
  <2> DEFINE k == p[3]
  <2>1. k \in 1 .. 5 /\ r[3] = five[k]
    BY <1>5
  <2>2. ASSUME NEW m \in 1 .. 5
        PROVE  i + m - 1 \in i .. i + 4
    OBVIOUS
  <2> HIDE DEF k
  <2>3. five[k] = s[i + k - 1]
    BY <1>2, <2>1
  <2>4. i + k - 1 \in i .. i + 4
    BY <2>1, <2>2
  <2> QED BY <2>1, <2>3, <2>4
<1> DEFINE a == r[1]
           b == r[2]
           c == r[3]
           d == r[4]
           e == r[5]
<1>8. /\ a \in Int /\ b \in Int /\ c \in Int /\ d \in Int /\ e \in Int
      /\ a <= c /\ b <= c /\ c <= d /\ c <= e
  BY <1>3, <1>5
<1>9. {j \in i .. i + 4 : s[j] < r[3]} \subseteq {i + p[1] - 1, i + p[2] - 1}
  <2> SUFFICES ASSUME NEW j \in i .. i + 4, s[j] < r[3]
               PROVE  j \in {i + p[1] - 1, i + p[2] - 1}
    OBVIOUS
  <2>1. PICK k \in 1 .. 5 : r[k] = s[j] /\ j = i + p[k] - 1
    BY <1>6
  <2> DEFINE x == r[k]
  <2>2. /\ x < c /\ k \in {1, 2, 3, 4, 5}
        /\ (k = 3 => x = c) /\ (k = 4 => x = d) /\ (k = 5 => x = e)
    BY <2>1
  <2> HIDE DEF x, a, b, c, d, e
  <2>3. k # 3 /\ k # 4 /\ k # 5
    BY <1>8, <2>2
  <2> QED BY <2>1, <2>2, <2>3
<1>10. {j \in i .. i + 4 : s[j] > r[3]} \subseteq {i + p[4] - 1, i + p[5] - 1}
  <2> SUFFICES ASSUME NEW j \in i .. i + 4, s[j] > r[3]
               PROVE  j \in {i + p[4] - 1, i + p[5] - 1}
    OBVIOUS
  <2>1. PICK k \in 1 .. 5 : r[k] = s[j] /\ j = i + p[k] - 1
    BY <1>6
  <2> DEFINE x == r[k]
  <2>2. /\ x > c /\ k \in {1, 2, 3, 4, 5}
        /\ (k = 1 => x = a) /\ (k = 2 => x = b) /\ (k = 3 => x = c)
    BY <2>1
  <2> HIDE DEF x, a, b, c, d, e
  <2>3. k # 1 /\ k # 2 /\ k # 3
    BY <1>8, <2>2
  <2> QED BY <2>1, <2>2, <2>3
<1> QED BY <1>4, <1>7, <1>9, <1>10, TwoAtMost

\* The angles of the middle: from the third on.
Steps(s) == [i \in DOMAIN s |-> i]

LEMMA MiddleIs ==
  ASSUME NEW s \in Seq(Nat)
  PROVE  Middle(Steps(s)) = [i \in 1 .. Len(s) - 4 |-> i + 2]
<1>1. Len(s) \in Nat /\ DOMAIN s = 1 .. Len(s) /\ Len(Steps(s)) = Len(s)
      /\ DOMAIN Steps(s) = 1 .. Len(s) /\ Steps(s) \in Seq(Nat)
  <2>1. Len(s) \in Nat /\ DOMAIN s = 1 .. Len(s)
    BY LenProperties
  <2>2. Steps(s) = [i \in 1 .. Len(s) |-> i]
    BY <2>1 DEF Steps
  <2> QED BY <2>1, <2>2
<1>2. Middle(Steps(s)) = [i \in 1 .. Len(s) - 4 |-> Steps(s)[i + 2]]
  BY <1>1 DEF Middle
<1>3. \A i \in 1 .. Len(s) - 4 : Steps(s)[i + 2] = i + 2
  BY <1>1 DEF Steps
<1> QED BY <1>2, <1>3

-----------------------------------------------------------------------------
(***************************************************************************)
(* What the vectors hold, by the last call: the scan as it was read or     *)
(* filtered, its pieces as they were cut from it, the image as it was      *)
(* drawn from them, and the arcs that were fitted to them.                 *)
(***************************************************************************)
ScanHeld ==
  /\ data \in Seq(Nat)
  /\ phase = "read" => RadarRho = data /\ RadarTheta = Steps(data)
  /\ phase = "filtered" => RadarRho = Filtered(data) /\ RadarTheta = Middle(Steps(data))

LEMMA ScanHeldInit == Init => ScanHeld
BY DEF Init, ScanHeld

LEMMA ScanHeldStep ==
  ASSUME ScanHeld, [Next]_vars
  PROVE  ScanHeld'
<1>1. CASE RadarRead
  <2>1. data' \in Seq(Nat)
    BY <1>1, PillarsAssumption DEF RadarRead
  <2>2. RadarRho' = data' /\ RadarTheta' = Steps(data') /\ phase' = "read"
    <3>1. Steps(data') \in Seq(Nat)
      <4>1. DOMAIN data' = 1 .. Len(data') /\ Len(data') \in Nat
        BY <2>1, LenProperties
      <4> QED BY <4>1 DEF Steps
    <3>2. Steps(data') = [i \in DOMAIN data' |-> i]
      BY DEF Steps
    <3> QED BY <1>1, <2>1, <3>1, <3>2, ConcatEmptySeq DEF RadarRead, Cleared
  <2> QED BY <2>1, <2>2 DEF ScanHeld
<1>2. CASE MedFilter
  BY <1>2 DEF MedFilter, ScanHeld
<1>3. CASE BreakRadarRho
  BY <1>3 DEF BreakRadarRho, ScanHeld, scan
<1>4. CASE CreateRadarImage
  BY <1>4 DEF CreateRadarImage, ScanHeld, scan
<1>5. CASE FitArc
  BY <1>5 DEF FitArc, ScanHeld, scan
<1>6. CASE DFCOMPush
  BY <1>6 DEF DFCOMPush, ScanHeld, scan
<1>7. CASE DFCOMPop
  BY <1>7 DEF DFCOMPop, ScanHeld, scan
<1>8. CASE CreateRadarImageself
  BY <1>8, PillarsAssumption DEF CreateRadarImageself, ScanHeld
<1>9. CASE UNCHANGED vars
  BY <1>9 DEF vars, ScanHeld
<1> QED BY <1>1, <1>2, <1>3, <1>4, <1>5, <1>6, <1>7, <1>8, <1>9 DEF Next

LEMMA FilteredIsMedian ==
  ASSUME ScanHeld
  PROVE  FilteredScan
<1> SUFFICES ASSUME phase = "filtered"
             PROVE  /\ Len(RadarTheta) = Len(RadarRho)
                    /\ RadarTheta = [i \in 1 .. Len(data) - 4 |-> i + 2]
                    /\ \A i \in DOMAIN RadarRho :
                         LET near == RadarTheta[i] - 2 .. RadarTheta[i] + 2
                         IN  /\ \E j \in near : data[j] = RadarRho[i]
                             /\ Cardinality({j \in near : data[j] < RadarRho[i]}) <= 2
                             /\ Cardinality({j \in near : data[j] > RadarRho[i]}) <= 2
  BY DEF FilteredScan
<1>1. /\ data \in Seq(Nat) /\ RadarRho = Filtered(data)
      /\ RadarTheta = [i \in 1 .. Len(data) - 4 |-> i + 2]
  BY MiddleIs DEF ScanHeld
<1>2. Len(data) \in Nat /\ DOMAIN RadarRho = 1 .. Len(data) - 4
  BY <1>1, LenProperties DEF Filtered
<1>3. Len(RadarTheta) = Len(RadarRho)
  <2> DEFINE n == IF Len(data) < 4 THEN 0 ELSE Len(data) - 4
  <2>1. n \in Nat /\ 1 .. Len(data) - 4 = 1 .. n
    BY <1>2
  <2> HIDE DEF n
  <2>2. RadarTheta = [i \in 1 .. n |-> i + 2]
    BY <1>1, <2>1
  <2>3. RadarRho = [i \in 1 .. n |-> Sorted(SubSeq(data, i, i + 4))[3]]
    BY <1>1, <2>1 DEF Filtered
  <2> QED BY <2>1, <2>2, <2>3
<1>4. ASSUME NEW i \in DOMAIN RadarRho
      PROVE  /\ \E j \in RadarTheta[i] - 2 .. RadarTheta[i] + 2 : data[j] = RadarRho[i]
             /\ Cardinality({j \in RadarTheta[i] - 2 .. RadarTheta[i] + 2 :
                               data[j] < RadarRho[i]}) <= 2
             /\ Cardinality({j \in RadarTheta[i] - 2 .. RadarTheta[i] + 2 :
                               data[j] > RadarRho[i]}) <= 2
  <2>1. i \in 1 .. Len(data) - 4 /\ RadarTheta[i] = i + 2 /\ i \in Int
    BY <1>1, <1>2
  <2> DEFINE near == RadarTheta[i] - 2 .. RadarTheta[i] + 2
             m == RadarRho[i]
  <2>2. near = i .. i + 4
    BY <2>1
  <2>3. m = Filtered(data)[i]
    BY <1>1
  <2> HIDE DEF near, m
  <2>4. /\ \E j \in near : data[j] = m
        /\ Cardinality({j \in near : data[j] < m}) <= 2
        /\ Cardinality({j \in near : data[j] > m}) <= 2
    BY <1>1, <2>1, <2>2, <2>3, MedianIs
  <2> QED BY <2>4 DEF near, m
<1> QED BY <1>1, <1>3, <1>4

\* After the filter every distance is a median of five neighbours at the angle
\* of the middle one, whatever scans were read before.
THEOREM FilteredAlways == Spec => []FilteredScan
<1>1. ScanHeld /\ [Next]_vars => ScanHeld'
  BY ScanHeldStep
<1>2. ScanHeld => FilteredScan
  BY FilteredIsMedian
<1> QED BY <1>1, <1>2, ScanHeldInit, PTL DEF Spec

-----------------------------------------------------------------------------
(***************************************************************************)
(* The pieces.                                                             *)
(***************************************************************************)
Pushed(s, t, mark, k) == IF Jumps(s, k) THEN <<t[k], mark>> ELSE <<t[k]>>

BrokenSoFar(h, s, t, mark, S) ==
  /\ h \in [0 .. Len(s) -> Seq(S)] /\ h[0] = <<>>
  /\ \A k \in 1 .. Len(s) : h[k] = h[k - 1] \o Pushed(s, t, mark, k)

BrokenInTheEnd(h, s, t, mark, S) ==
  BrokenSoFar(h, s, t, mark, S) /\ Broken(s, t, mark) = h[Len(s)] \o <<mark>>

LEMMA BrokenLoop ==
  ASSUME NEW s \in Seq(Nat), NEW S, NEW t \in Seq(S), Len(t) = Len(s), NEW mark \in S
  PROVE  \E h : BrokenInTheEnd(h, s, t, mark, S)
<1> DEFINE n == Len(s)
           D == Seq(S)
           seq == [i \in DOMAIN s |-> i]
           Push(pushed, i) == pushed \o (IF Jumps(s, i) THEN <<t[i], mark>> ELSE <<t[i]>>)
           step == [p \in D \X (1 .. n) |-> Push(p[1], p[2])]
           Eq(g) == g = [u \in SUBSET DOMAIN seq |->
                           IF u = {} THEN <<>> ELSE Push(g[u \ {Max(u)}], seq[Max(u)])]
           iter == CHOOSE g : Eq(g)
<1>1. /\ n \in Nat /\ DOMAIN seq = 1 .. n /\ <<>> \in D
      /\ \A k \in 1 .. n : t[k] \in S /\ seq[k] = k
  <2>1. n \in Nat /\ DOMAIN s = 1 .. n /\ DOMAIN t = 1 .. n
    BY LenProperties
  <2> QED BY <2>1, ElementOfSeq, EmptySeq
<1>2. ASSUME NEW d \in D, NEW k \in 1 .. n
      PROVE  Push(d, k) \in D
  <2>1. t[k] \in S
    BY <1>1
  <2>2. <<t[k], mark>> \in D /\ <<t[k]>> \in D
    BY <2>1
  <2>3. (IF Jumps(s, k) THEN <<t[k], mark>> ELSE <<t[k]>>) \in D
    BY <2>2
  <2> QED BY <2>3, ConcatProperties
<1>3. step \in [D \X (1 .. n) -> D] /\ \A d \in D, k \in 1 .. n : step[<<d, k>>] = Push(d, k)
  <2> HIDE DEF Push, n, D
  <2> QED BY <1>2
<1> HIDE DEF Push, step, n, D, seq
<1>4. PICK f \in [SUBSET (1 .. n) -> D] : Folds1(f, n, <<>>, step)
  BY <1>1, <1>3, FoldExists
<1>5. Eq(f)
  <2>1. ASSUME NEW u \in SUBSET (1 .. n)
        PROVE  f[u] = IF u = {} THEN <<>> ELSE Push(f[u \ {Max(u)}], seq[Max(u)])
    <3>1. u # {} => Max(u) \in 1 .. n /\ u \ {Max(u)} \in SUBSET (1 .. n)
      BY <1>1, MaxIs
    <3>2. f[u] = IF u = {} THEN <<>> ELSE step[<<f[u \ {Max(u)}], Max(u)>>]
      BY <1>4 DEF Folds1
    <3> QED BY <1>1, <1>3, <1>4, <3>1, <3>2
  <2> QED BY <1>1, <1>4, <2>1
<1>6. Eq(iter)
  <2> HIDE DEF Eq
  <2> QED BY <1>5
<1>7. Broken(s, t, mark) = iter[1 .. n] \o <<mark>>
  BY <1>1 DEF Broken, FoldLeft, MapThenFoldSet, Push, seq
<1> HIDE DEF iter
<1>8. /\ iter[{}] = <<>>
      /\ \A k \in 1 .. n : iter[1 .. k] = Push(iter[1 .. k - 1], k)
  <2>1. iter[{}] = <<>>
    BY <1>6
  <2>2. ASSUME NEW k \in 1 .. n
        PROVE  iter[1 .. k] = Push(iter[1 .. k - 1], k)
    <3>1. /\ Max(1 .. k) = k /\ (1 .. k) \ {k} = 1 .. k - 1
          /\ 1 .. k # {} /\ 1 .. k \in SUBSET DOMAIN seq
      BY <1>1, MaxOfFirst
    <3> QED BY <1>1, <1>6, <3>1
  <2> QED BY <2>1, <2>2
<1>9. PICK h : Loops(h, n, D, <<>>, step, iter[1 .. n])
  <2>1. Follows(iter, n, D, <<>>, step)
    BY <1>3, <1>8 DEF Follows
  <2> QED BY <1>1, <1>3, <2>1, LoopIs
<1>10. ASSUME NEW k \in 1 .. n
       PROVE  h[k] = h[k - 1] \o Pushed(s, t, mark, k)
  <2>1. k - 1 \in 0 .. n
    BY <1>1
  <2>2. h[k - 1] \in D /\ h[k] = step[<<h[k - 1], k>>]
    BY <1>9, <2>1 DEF Loops
  <2> QED BY <1>3, <2>2 DEF Push, Pushed
<1> QED BY <1>7, <1>9, <1>10 DEF Loops, BrokenSoFar, BrokenInTheEnd, n, D

\* A scan is cut into the places of its points, 0 for a separator: each cut
\* sequence holds the values at these places.
Cut(s) == Broken(s, Steps(s), 0)

Marked(c, t, mark) == [p \in DOMAIN c |-> IF c[p] = 0 THEN mark ELSE t[c[p]]]

Markable(P, S, t, mark) == mark \in S /\ \A i \in P : i # 0 => t[i] \in S

MarkedAs(m, w, S, t, mark) ==
  /\ m \in Seq(S) /\ Len(m) = Len(w)
  /\ \A i \in 1 .. Len(w) : m[i] = IF w[i] = 0 THEN mark ELSE t[w[i]]

LEMMA MarkedIs ==
  ASSUME NEW P, NEW S, NEW t, NEW mark, Markable(P, S, t, mark), NEW w \in Seq(P)
  PROVE  MarkedAs(Marked(w, t, mark), w, S, t, mark)
<1> DEFINE n == Len(w)
           m == Marked(w, t, mark)
<1>1. n \in Nat /\ DOMAIN w = 1 .. n /\ \A i \in 1 .. n : w[i] \in P
  BY LenProperties, ElementOfSeq
<1> HIDE DEF n
<1>2. m = [i \in 1 .. n |-> IF w[i] = 0 THEN mark ELSE t[w[i]]]
  BY <1>1 DEF Marked
<1> HIDE DEF m
<1>3. m \in [1 .. n -> S]
  BY <1>1, <1>2 DEF Markable
<1>4. m \in Seq(S)
  BY <1>1, <1>3, SeqDef
<1>5. Len(m) \in Nat /\ 1 .. Len(m) = 1 .. n
  BY <1>3, <1>4, LenProperties
<1>6. Len(m) = n
  BY <1>1, <1>5
<1> QED BY <1>2, <1>4, <1>6 DEF n, m, MarkedAs

LEMMA MarkedConcat ==
  ASSUME NEW P, NEW S, NEW t, NEW mark, Markable(P, S, t, mark),
         NEW x \in Seq(P), NEW y \in Seq(P)
  PROVE  Marked(x, t, mark) \o Marked(y, t, mark) = Marked(x \o y, t, mark)
<1> DEFINE xy == x \o y
           mx == Marked(x, t, mark)
           my == Marked(y, t, mark)
           mxy == Marked(xy, t, mark)
           z == mx \o my
           a == Len(x)
           b == Len(y)
<1>1. /\ xy \in Seq(P) /\ Len(xy) = a + b /\ a \in Nat /\ b \in Nat
      /\ \A i \in 1 .. a + b : xy[i] = IF i <= a THEN x[i] ELSE y[i - a]
  BY ConcatProperties, LenProperties
<1> HIDE DEF xy
<1>2. MarkedAs(mx, x, S, t, mark) /\ MarkedAs(my, y, S, t, mark) /\ MarkedAs(mxy, xy, S, t, mark)
  BY <1>1, MarkedIs
<1> HIDE DEF mx, my, mxy
<1>3. /\ mx \in Seq(S) /\ Len(mx) = a /\ my \in Seq(S) /\ Len(my) = b
      /\ \A i \in 1 .. a : mx[i] = IF x[i] = 0 THEN mark ELSE t[x[i]]
      /\ \A i \in 1 .. b : my[i] = IF y[i] = 0 THEN mark ELSE t[y[i]]
  BY <1>2 DEF MarkedAs
<1>4. /\ mxy \in Seq(S) /\ Len(mxy) = a + b
      /\ \A i \in 1 .. a + b : mxy[i] = IF xy[i] = 0 THEN mark ELSE t[xy[i]]
  BY <1>1, <1>2 DEF MarkedAs
<1> HIDE DEF a, b
<1>5. /\ z \in Seq(S) /\ Len(z) = Len(mx) + Len(my)
      /\ \A i \in 1 .. Len(mx) + Len(my) : z[i] = IF i <= Len(mx) THEN mx[i] ELSE my[i - Len(mx)]
  <2>1. mx \in Seq(S) /\ my \in Seq(S)
    BY <1>3
  <2> QED BY <2>1, ConcatProperties
<1> HIDE DEF z
<1>6. ASSUME NEW i \in 1 .. a + b
      PROVE  z[i] = mxy[i]
  <2>1. CASE i <= a
    <3>1. i \in 1 .. a /\ z[i] = mx[i] /\ xy[i] = x[i]
      BY <1>1, <1>3, <1>5, <2>1
    <3> QED BY <1>3, <1>4, <3>1
  <2>2. CASE ~(i <= a)
    <3>1. i - a \in 1 .. b /\ z[i] = my[i - a] /\ xy[i] = y[i - a]
      BY <1>1, <1>3, <1>5, <2>2
    <3> QED BY <1>3, <1>4, <3>1
  <2> QED BY <2>1, <2>2
<1>7. Len(z) = a + b /\ a + b \in Nat
  BY <1>1, <1>3, <1>5
<1>8. z = mxy
  BY <1>4, <1>5, <1>6, <1>7, SeqEqual
<1> QED BY <1>8 DEF z, mx, my, mxy, xy

LEMMA BrokenIsMarked ==
  ASSUME NEW s \in Seq(Nat), NEW S, NEW t \in Seq(S), Len(t) = Len(s), NEW mark \in S
  PROVE  /\ Broken(s, t, mark) = Marked(Cut(s), t, mark)
         /\ Cut(s) \in Seq(0 .. Len(s))
<1> DEFINE n == Len(s)
           P == 0 .. n
<1>1. n \in Nat /\ DOMAIN s = 1 .. n /\ DOMAIN t = 1 .. n /\ \A k \in 1 .. n : t[k] \in S
  BY LenProperties, ElementOfSeq
<1>2. Steps(s) \in Seq(P) /\ Len(Steps(s)) = n /\ (\A k \in 1 .. n : Steps(s)[k] = k) /\ 0 \in P
  <2>1. Steps(s) = [k \in 1 .. n |-> k]
    BY <1>1 DEF Steps
  <2>2. \A k \in 1 .. n : k \in P
    BY <1>1
  <2> HIDE DEF n, P
  <2>3. Steps(s) \in [1 .. n -> P]
    BY <2>1, <2>2
  <2> QED BY <1>1, <2>1, <2>3 DEF P
<1>3. PICK c : BrokenInTheEnd(c, s, Steps(s), 0, P)
  <2> HIDE DEF P
  <2> QED BY <1>2, BrokenLoop
<1>4. PICK h : BrokenInTheEnd(h, s, t, mark, S)
  BY BrokenLoop
<1> HIDE DEF n
<1>5. /\ c \in [0 .. n -> Seq(P)] /\ h \in [0 .. n -> Seq(S)] /\ c[0] = <<>> /\ h[0] = <<>>
      /\ \A k \in 1 .. n : /\ c[k] = c[k - 1] \o Pushed(s, Steps(s), 0, k)
                           /\ h[k] = h[k - 1] \o Pushed(s, t, mark, k)
  BY <1>3, <1>4 DEF BrokenSoFar, BrokenInTheEnd, n
<1> HIDE DEF P
<1> DEFINE Good == {k \in Nat : k <= n => h[k] = Marked(c[k], t, mark)}
<1>6. 0 \in Good
  BY <1>5 DEF Marked
<1>7. ASSUME NEW x \in Seq(P), NEW y \in Seq(P)
      PROVE  /\ Marked(x, t, mark) \o Marked(y, t, mark) = Marked(x \o y, t, mark)
             /\ x \o y \in Seq(P)
  <2>1. Markable(P, S, t, mark)
    BY <1>1 DEF Markable, P
  <2> QED BY <2>1, MarkedConcat, ConcatProperties
<1>8. ASSUME NEW k \in 1 .. n
      PROVE  /\ Pushed(s, Steps(s), 0, k) \in Seq(P)
             /\ Pushed(s, t, mark, k) = Marked(Pushed(s, Steps(s), 0, k), t, mark)
  <2>1. Steps(s)[k] = k /\ k \in P /\ k # 0
    BY <1>1, <1>2 DEF P, n
  <2>2. CASE Jumps(s, k)
    <3>1. Pushed(s, Steps(s), 0, k) = <<k, 0>> /\ Pushed(s, t, mark, k) = <<t[k], mark>>
      BY <2>1, <2>2 DEF Pushed
    <3>2. Marked(<<k, 0>>, t, mark) = <<t[k], mark>>
      BY <2>1 DEF Marked
    <3>3. <<k, 0>> \in Seq(P)
      BY <1>2, <2>1
    <3> QED BY <3>1, <3>2, <3>3
  <2>3. CASE ~Jumps(s, k)
    <3>1. Pushed(s, Steps(s), 0, k) = <<k>> /\ Pushed(s, t, mark, k) = <<t[k]>>
      BY <2>1, <2>3 DEF Pushed
    <3>2. Marked(<<k>>, t, mark) = <<t[k]>>
      BY <2>1 DEF Marked
    <3>3. <<k>> \in Seq(P)
      BY <2>1
    <3> QED BY <3>1, <3>2, <3>3
  <2> QED BY <2>2, <2>3
<1>9. ASSUME NEW k \in Nat, k \in Good
      PROVE  k + 1 \in Good
  <2> SUFFICES ASSUME k + 1 <= n
               PROVE  h[k + 1] = Marked(c[k + 1], t, mark)
    OBVIOUS
  <2>1. k + 1 \in 1 .. n /\ (k + 1) - 1 = k /\ k \in 0 .. n /\ h[k] = Marked(c[k], t, mark)
    BY <1>1, <1>9
  <2>2. c[k] \in Seq(P)
    BY <1>5, <2>1
  <2>3. /\ c[k + 1] = c[k] \o Pushed(s, Steps(s), 0, k + 1)
        /\ h[k + 1] = h[k] \o Pushed(s, t, mark, k + 1)
    BY <1>5, <2>1
  <2> QED BY <1>7, <1>8, <2>1, <2>2, <2>3
<1> HIDE DEF Good
<1>10. h[n] = Marked(c[n], t, mark) /\ c[n] \in Seq(P)
  <2>1. n \in Good
    BY <1>1, <1>6, <1>9, Induction
  <2> QED BY <1>1, <1>5, <2>1 DEF Good
<1>11. <<mark>> = Marked(<<0>>, t, mark) /\ <<0>> \in Seq(P)
  BY <1>2 DEF Marked
<1>12. Broken(s, t, mark) = h[n] \o <<mark>> /\ Cut(s) = c[n] \o <<0>>
  BY <1>3, <1>4 DEF BrokenInTheEnd, Cut, n
<1>13. /\ Marked(c[n], t, mark) \o Marked(<<0>>, t, mark) = Marked(c[n] \o <<0>>, t, mark)
       /\ c[n] \o <<0>> \in Seq(P)
  BY <1>7, <1>10, <1>11
<1>14. Broken(s, t, mark) = Marked(Cut(s), t, mark) /\ Cut(s) \in Seq(P)
  BY <1>10, <1>11, <1>12, <1>13
<1> QED BY <1>14 DEF P, n

-----------------------------------------------------------------------------
(***************************************************************************)
(* The arrays of points that are fitted: the points are in reach, and each *)
(* array has more than Few of them.                                        *)
(***************************************************************************)
Reach == -Far .. Far
Arrays == {a \in Seq(Reach \X Reach) : Len(a) > Few}

LEMMA Times ==
  ASSUME NEW a \in Int, NEW b \in Int, a <= b, NEW n \in Nat
  PROVE  a * n <= b * n
<1>1. (b - a) * n >= 0 /\ (b - a) * n = b * n - a * n /\ a * n \in Int /\ b * n \in Int
  OBVIOUS
<1> QED BY <1>1

LEMMA QuotientWithin ==
  ASSUME NEW n \in Int, NEW d \in Nat \ {0}, NEW k \in Nat, n <= k * d, -(k * d) <= n
  PROVE  Quotient(n, d) \in -k .. k
<1>1. ASSUME NEW m \in Nat, m <= k * d
      PROVE  m \div d \in 0 .. k
  <2> DEFINE q == m \div d
  <2>1. q \in Nat /\ q * d <= m
    OBVIOUS
  <2> HIDE DEF q
  <2>2. CASE q >= k + 1
    <3>1. (k + 1) * d <= q * d
      BY <2>1, <2>2, Times
    <3>2. (k + 1) * d = k * d + d /\ k * d \in Int /\ q * d \in Int
      BY <2>1
    <3> QED BY <1>1, <2>1, <3>1, <3>2
  <2>3. CASE q <= k
    BY <2>1, <2>3 DEF q
  <2> QED BY <2>1, <2>2, <2>3
<1>2. k * d \in Nat
  OBVIOUS
<1>3. CASE n < 0
  <2>1. -n \in Nat /\ -n <= k * d
    BY <1>2, <1>3
  <2> DEFINE q == (-n) \div d
  <2>2. q \in 0 .. k
    BY <1>1, <2>1
  <2>3. Quotient(n, d) = -q
    BY <1>3 DEF Quotient
  <2> HIDE DEF q
  <2> QED BY <2>2, <2>3
<1>4. CASE n >= 0
  <2> DEFINE q == n \div d
  <2>1. q \in 0 .. k
    BY <1>1, <1>4
  <2>2. Quotient(n, d) = q
    BY <1>4 DEF Quotient
  <2> HIDE DEF q
  <2> QED BY <2>1, <2>2
<1> QED BY <1>3, <1>4

LEMMA PointIs ==
  ASSUME NEW rho \in 0 .. Far, NEW theta,
         Cosine[theta] \in -Unit .. Unit, Sine[theta] \in -Unit .. Unit
  PROVE  Point(rho, theta) \in Reach \X Reach
<1>1. Unit \in Nat \ {0} /\ Far \in Nat
  BY PillarsAssumption
<1>2. ASSUME NEW c \in -Unit .. Unit
      PROVE  ToInt(rho * c) \in Reach
  <2> DEFINE n == rho * c
  <2>1. c \in Int /\ c <= Unit /\ -Unit <= c /\ rho \in Nat /\ rho <= Far
    BY <1>1
  <2>2. c * rho <= Unit * rho /\ (-Unit) * rho <= c * rho
    BY <1>1, <2>1, Times
  <2>3. rho * Unit <= Far * Unit
    BY <1>1, <2>1, Times
  <2>4. /\ n = c * rho /\ Unit * rho = rho * Unit /\ (-Unit) * rho = -(rho * Unit)
        /\ n \in Int /\ rho * Unit \in Int /\ Far * Unit \in Int
    BY <1>1, <2>1
  <2>5. n \in Int /\ n <= Far * Unit /\ -(Far * Unit) <= n
    BY <2>2, <2>3, <2>4
  <2> HIDE DEF n
  <2>6. Quotient(n, Unit) \in -Far .. Far
    BY <1>1, <2>5, QuotientWithin
  <2> QED BY <2>6 DEF n, ToInt, Reach
<1> QED BY <1>2 DEF Point

\* The sequences that FitArc goes through: a distance is at a step of a scan.
Seen(rhos, thetas) ==
  /\ rhos \in Seq(Int)
  /\ \A i \in 1 .. Len(rhos) :
       rhos[i] >= 0 => Cosine[thetas[i]] \in -Unit .. Unit /\ Sine[thetas[i]] \in -Unit .. Unit

PieceStates == [points : Seq(Reach \X Reach), fits : Seq(Arrays)]

PieceStep(rhos, thetas, s, i) ==
  IF rhos[i] < 0 THEN NextPiece(s)
  ELSE IF rhos[i] > Near /\ rhos[i] < Far
  THEN [s EXCEPT !.points = Append(@, Point(rhos[i], thetas[i]))] ELSE s

LEMMA PieceStepType ==
  ASSUME NEW rhos, NEW thetas, Seen(rhos, thetas), NEW s \in PieceStates, NEW i \in 1 .. Len(rhos)
  PROVE  PieceStep(rhos, thetas, s, i) \in PieceStates
<1>1. s.points \in Seq(Reach \X Reach) /\ s.fits \in Seq(Arrays)
  BY DEF PieceStates
<1>2. rhos[i] \in Int
  BY ElementOfSeq DEF Seen
<1>3. CASE rhos[i] < 0
  <2>1. CASE Len(s.points) > Few /\ Len(s.points) < Many
    <3>1. s.points \in Arrays
      BY <1>1, <2>1 DEF Arrays
    <3>2. Append(s.fits, s.points) \in Seq(Arrays)
      BY <1>1, <3>1, AppendProperties
    <3>3. NextPiece(s) = [points |-> <<>>, fits |-> Append(s.fits, s.points)]
      BY <2>1 DEF NextPiece
    <3>4. <<>> \in Seq(Reach \X Reach)
      BY EmptySeq
    <3> QED BY <1>3, <3>2, <3>3, <3>4 DEF PieceStep, PieceStates
  <2>2. CASE ~(Len(s.points) > Few /\ Len(s.points) < Many)
    <3>1. NextPiece(s) = [points |-> <<>>, fits |-> s.fits]
      BY <2>2 DEF NextPiece
    <3>2. <<>> \in Seq(Reach \X Reach)
      BY EmptySeq
    <3> QED BY <1>1, <1>3, <3>1, <3>2 DEF PieceStep, PieceStates
  <2> QED BY <2>1, <2>2
<1>4. CASE ~(rhos[i] < 0) /\ rhos[i] > Near /\ rhos[i] < Far
  <2>1. Far \in Nat
    BY PillarsAssumption
  <2>2. rhos[i] >= 0 /\ rhos[i] \in 0 .. Far
    BY <1>2, <1>4, <2>1
  <2>3. Cosine[thetas[i]] \in -Unit .. Unit /\ Sine[thetas[i]] \in -Unit .. Unit
    BY <2>2 DEF Seen
  <2>4. Point(rhos[i], thetas[i]) \in Reach \X Reach
    BY <2>2, <2>3, PointIs
  <2> DEFINE p == Append(s.points, Point(rhos[i], thetas[i]))
  <2>5. p \in Seq(Reach \X Reach)
    BY <1>1, <2>4, AppendProperties
  <2>6. PieceStep(rhos, thetas, s, i) = [s EXCEPT !.points = p]
    BY <1>4 DEF PieceStep
  <2> HIDE DEF p
  <2> QED BY <2>5, <2>6 DEF PieceStates
<1>5. CASE ~(rhos[i] < 0) /\ ~(rhos[i] > Near /\ rhos[i] < Far)
  BY <1>5 DEF PieceStep
<1> QED BY <1>3, <1>4, <1>5

PiecesSoFar(h, rhos, thetas) ==
  /\ h \in [0 .. Len(rhos) -> PieceStates] /\ h[0] = [points |-> <<>>, fits |-> <<>>]
  /\ \A k \in 1 .. Len(rhos) : h[k] = PieceStep(rhos, thetas, h[k - 1], k)

PiecesInTheEnd(h, rhos, thetas) ==
  PiecesSoFar(h, rhos, thetas) /\ Pieces(rhos, thetas) = h[Len(rhos)].fits

LEMMA PiecesLoop ==
  ASSUME NEW rhos, NEW thetas, Seen(rhos, thetas)
  PROVE  \E h : PiecesInTheEnd(h, rhos, thetas)
<1> DEFINE n == Len(rhos)
           D == PieceStates
           base == [points |-> <<>>, fits |-> <<>>]
           seq == [i \in DOMAIN rhos |-> i]
           Step(s, i) == IF rhos[i] < 0 THEN NextPiece(s)
                         ELSE IF rhos[i] > Near /\ rhos[i] < Far
                         THEN [s EXCEPT !.points = Append(@, Point(rhos[i], thetas[i]))] ELSE s
           step == [p \in D \X (1 .. n) |-> Step(p[1], p[2])]
           Eq(g) == g = [u \in SUBSET DOMAIN seq |->
                           IF u = {} THEN base ELSE Step(g[u \ {Max(u)}], seq[Max(u)])]
           iter == CHOOSE g : Eq(g)
<1>1. /\ n \in Nat /\ DOMAIN seq = 1 .. n /\ base \in D
      /\ \A k \in 1 .. n : seq[k] = k
  <2>1. n \in Nat /\ DOMAIN rhos = 1 .. n
    BY LenProperties DEF Seen
  <2>2. base \in D
    <3>1. <<>> \in Seq(Reach \X Reach) /\ <<>> \in Seq(Arrays)
      BY EmptySeq
    <3> QED BY <3>1 DEF PieceStates
  <2> QED BY <2>1, <2>2
<1>2. ASSUME NEW d \in D, NEW k \in 1 .. n
      PROVE  Step(d, k) \in D
  BY PieceStepType DEF PieceStep
<1>3. step \in [D \X (1 .. n) -> D] /\ \A d \in D, k \in 1 .. n : step[<<d, k>>] = Step(d, k)
  <2> HIDE DEF Step, n, D
  <2> QED BY <1>2
<1> HIDE DEF Step, step, n, D, seq, base
<1>4. PICK f \in [SUBSET (1 .. n) -> D] : Folds1(f, n, base, step)
  BY <1>1, <1>3, FoldExists
<1>5. Eq(f)
  <2>1. ASSUME NEW u \in SUBSET (1 .. n)
        PROVE  f[u] = IF u = {} THEN base ELSE Step(f[u \ {Max(u)}], seq[Max(u)])
    <3>1. u # {} => Max(u) \in 1 .. n /\ u \ {Max(u)} \in SUBSET (1 .. n)
      BY <1>1, MaxIs
    <3>2. f[u] = IF u = {} THEN base ELSE step[<<f[u \ {Max(u)}], Max(u)>>]
      BY <1>4 DEF Folds1
    <3> QED BY <1>1, <1>3, <1>4, <3>1, <3>2
  <2> QED BY <1>1, <1>4, <2>1
<1>6. Eq(iter)
  <2> HIDE DEF Eq
  <2> QED BY <1>5
<1>7. Pieces(rhos, thetas) = iter[1 .. n].fits
  BY <1>1 DEF Pieces, FoldLeft, MapThenFoldSet, Step, seq, base
<1> HIDE DEF iter
<1>8. /\ iter[{}] = base
      /\ \A k \in 1 .. n : iter[1 .. k] = Step(iter[1 .. k - 1], k)
  <2>1. iter[{}] = base
    BY <1>6
  <2>2. ASSUME NEW k \in 1 .. n
        PROVE  iter[1 .. k] = Step(iter[1 .. k - 1], k)
    <3>1. /\ Max(1 .. k) = k /\ (1 .. k) \ {k} = 1 .. k - 1
          /\ 1 .. k # {} /\ 1 .. k \in SUBSET DOMAIN seq
      BY <1>1, MaxOfFirst
    <3> QED BY <1>1, <1>6, <3>1
  <2> QED BY <2>1, <2>2
<1>9. PICK h : Loops(h, n, D, base, step, iter[1 .. n])
  <2>1. Follows(iter, n, D, base, step)
    BY <1>3, <1>8 DEF Follows
  <2> QED BY <1>1, <1>3, <2>1, LoopIs
<1>10. ASSUME NEW k \in 1 .. n
       PROVE  h[k] = PieceStep(rhos, thetas, h[k - 1], k)
  <2>1. k - 1 \in 0 .. n
    BY <1>1
  <2>2. h[k - 1] \in D /\ h[k] = step[<<h[k - 1], k>>]
    BY <1>9, <2>1 DEF Loops
  <2> QED BY <1>3, <2>2 DEF Step, PieceStep
<1> QED BY <1>7, <1>9, <1>10 DEF Loops, PiecesSoFar, PiecesInTheEnd, n, D, base

LEMMA PiecesAreArrays ==
  ASSUME NEW rhos, NEW thetas, Seen(rhos, thetas)
  PROVE  Pieces(rhos, thetas) \in Seq(Arrays)
<1>1. PICK h : PiecesInTheEnd(h, rhos, thetas)
  BY PiecesLoop
<1>2. Len(rhos) \in 0 .. Len(rhos)
  BY LenProperties DEF Seen
<1>3. h[Len(rhos)] \in PieceStates /\ Pieces(rhos, thetas) = h[Len(rhos)].fits
  BY <1>1, <1>2 DEF PiecesInTheEnd, PiecesSoFar
<1> QED BY <1>3 DEF PieceStates

-----------------------------------------------------------------------------
(***************************************************************************)
(* The table of the votes.                                                 *)
(***************************************************************************)
Places == (-Radius * Unit .. Radius * Unit) \X (-Radius * Unit .. Radius * Unit)

LEMMA ConstantsAre ==
  /\ Unit \in Nat \ {0} /\ Radius \in Nat /\ halfWindow \in Nat /\ Far \in Nat /\ Few \in Nat
  /\ Circle \in Seq(Places) /\ Len(Circle) \in Nat \ {0} /\ DOMAIN Circle = 1 .. Len(Circle)
  /\ \A k \in 1 .. Len(Circle) : Circle[k] \in Places
<1>1. Circle \in Seq(Places) /\ Circle # <<>>
  BY PillarsAssumption DEF Places
<1>2. Len(Circle) \in Nat /\ Len(Circle) # 0
  BY <1>1, EmptySeq, LenProperties
<1>3. Unit \in Nat \ {0} /\ Radius \in Nat /\ halfWindow \in Nat /\ Far \in Nat /\ Few \in Nat
  BY PillarsAssumption
<1> QED BY <1>1, <1>2, <1>3, LenProperties, ElementOfSeq

\* A coordinate of a centre is at most a radius and one from the point's.
Span == -(Far + Radius + 1) .. Far + Radius + 1

LEMMA RoundedIs ==
  ASSUME NEW x \in Reach, NEW c \in -Radius * Unit .. Radius * Unit
  PROVE  /\ Rounded(x * Unit - c) \in Span
         /\ Rounded(x * Unit - c) >= x - Radius
<1> DEFINE n == x * Unit - c + Unit \div 2
           k == Far + Radius + 1
<1>0. Unit \in Nat \ {0} /\ Radius \in Nat /\ Far \in Nat /\ x \in Int /\ c \in Int
      /\ x <= Far /\ -Far <= x /\ k \in Nat
  BY ConstantsAre DEF Reach
<1>1. c <= Radius * Unit /\ -Radius * Unit <= c /\ -Radius * Unit = -(Radius * Unit)
  BY <1>0
<1>2. x * Unit <= Far * Unit /\ (-Far) * Unit <= x * Unit /\ (-Far) * Unit = -(Far * Unit)
  BY <1>0, Times
<1>3. k * Unit = Far * Unit + Radius * Unit + Unit /\ (x - Radius) * Unit = x * Unit - Radius * Unit
  BY <1>0
<1>4. Unit \div 2 \in Nat /\ Unit \div 2 <= Unit
  BY <1>0
<1>5. x * Unit \in Int /\ Far * Unit \in Int /\ Radius * Unit \in Int /\ k * Unit \in Int
      /\ (x - Radius) * Unit \in Int
  BY <1>0
<1>6. n \in Int /\ n <= k * Unit /\ -(k * Unit) <= n /\ (x - Radius) * Unit <= n
  <2> DEFINE a == x * Unit
             b == Far * Unit
             r == Radius * Unit
             h == Unit \div 2
  <2>1. k * Unit = b + r + Unit /\ (x - Radius) * Unit = a - r /\ n = a - c + h
    BY <1>3
  <2>2. a <= b /\ -b <= a /\ c <= r /\ -r <= c /\ h \in Nat /\ h <= Unit
        /\ a \in Int /\ b \in Int /\ r \in Int
    BY <1>1, <1>2, <1>4, <1>5
  <2> HIDE DEF a, b, r, h, n, k
  <2> QED BY <1>0, <2>1, <2>2
<1> HIDE DEF n
<1>7. Quotient(n, Unit) \in -k .. k
  <2> HIDE DEF k
  <2> QED BY <1>0, <1>6, QuotientWithin
<1>8. x - Radius <= Quotient(n, Unit)
  <2>1. x - Radius \in Int
    BY <1>0
  <2> QED BY <1>0, <1>6, <2>1, QuotientIs
<1>9. Rounded(x * Unit - c) = Quotient(n, Unit)
  BY DEF Rounded, ToInt, n
<1> QED BY <1>0, <1>7, <1>8, <1>9 DEF Span

LEMMA VoteIs ==
  ASSUME NEW point \in Reach \X Reach, NEW place \in Places
  PROVE  Vote(point, place) \in Span \X Span /\ Vote(point, place)[1] >= point[1] - Radius
<1>1. /\ point[1] \in Reach /\ point[2] \in Reach
      /\ place[1] \in -Radius * Unit .. Radius * Unit
      /\ place[2] \in -Radius * Unit .. Radius * Unit
  BY DEF Places
<1>2. /\ Rounded(point[1] * Unit - place[1]) \in Span
      /\ Rounded(point[1] * Unit - place[1]) >= point[1] - Radius
      /\ Rounded(point[2] * Unit - place[2]) \in Span
  BY <1>1, RoundedIs
<1> QED BY <1>2 DEF Vote

\* The votes in the order of the loops
Nth(n) == (n - 1) \div Len(Circle) + 1
Kth(n) == ((n - 1) % Len(Circle)) + 1

LEMMA NthKth ==
  ASSUME NEW m \in Nat
  PROVE  /\ \A n \in 1 .. m * Len(Circle) :
              /\ Nth(n) \in 1 .. m /\ Kth(n) \in 1 .. Len(Circle)
              /\ n = (Nth(n) - 1) * Len(Circle) + Kth(n)
         /\ \A i \in 1 .. m, k \in 1 .. Len(Circle) :
              /\ (i - 1) * Len(Circle) + k \in 1 .. m * Len(Circle)
              /\ Nth((i - 1) * Len(Circle) + k) = i /\ Kth((i - 1) * Len(Circle) + k) = k
<1> DEFINE L == Len(Circle)
<1>1. L \in Nat \ {0}
  BY ConstantsAre
<1> HIDE DEF L
<1>2. ASSUME NEW n \in 1 .. m * L
      PROVE  /\ (n - 1) \div L + 1 \in 1 .. m /\ ((n - 1) % L) + 1 \in 1 .. L
             /\ n = ((n - 1) \div L + 1 - 1) * L + ((n - 1) % L) + 1
  <2> DEFINE q == (n - 1) \div L
             r == (n - 1) % L
  <2>1. n - 1 \in Nat /\ m * L \in Nat /\ n - 1 < m * L
    BY <1>1
  <2>2. q \in Nat /\ r \in 0 .. L - 1 /\ n - 1 = L * q + r
    BY <1>1, <2>1
  <2> HIDE DEF q, r
  <2>3. CASE q >= m
    <3>1. m * L <= q * L /\ q * L = L * q /\ q * L \in Int
      BY <1>1, <2>2, <2>3, Times
    <3> QED BY <1>1, <2>1, <2>2, <3>1
  <2>4. CASE q < m
    <3>1. q + 1 \in 1 .. m /\ r + 1 \in 1 .. L
      BY <1>1, <2>2, <2>4
    <3>2. q + 1 - 1 = q /\ q * L = L * q /\ q * L \in Int
      BY <1>1, <2>2
    <3>3. n = (q + 1 - 1) * L + r + 1
      BY <1>1, <2>1, <2>2, <3>2
    <3> QED BY <3>1, <3>3 DEF q, r
  <2> QED BY <2>2, <2>3, <2>4
<1>3. ASSUME NEW i \in 1 .. m, NEW k \in 1 .. L
      PROVE  LET n == (i - 1) * L + k
             IN  /\ n \in 1 .. m * L
                 /\ (n - 1) \div L + 1 = i /\ ((n - 1) % L) + 1 = k
  <2> DEFINE n == (i - 1) * L + k
             q == (n - 1) \div L
             r == (n - 1) % L
  <2>1. i - 1 \in Nat /\ i - 1 <= m - 1 /\ m - 1 \in Nat
    OBVIOUS
  <2>2. (i - 1) * L \in Nat /\ (i - 1) * L <= (m - 1) * L /\ (m - 1) * L = m * L - L /\ m * L \in Int
    BY <1>1, <2>1, Times
  <2>3. n \in 1 .. m * L
    <3> DEFINE a == (i - 1) * L
               b == m * L
    <3>1. a \in Nat /\ a <= b - L /\ b \in Int /\ n = a + k
      BY <2>2
    <3> HIDE DEF a, b, n
    <3>2. n \in 1 .. b
      BY <1>1, <3>1
    <3> QED BY <3>2 DEF b
  <2>4. q \in Nat /\ r \in 0 .. L - 1 /\ n - 1 = L * q + r
    BY <1>1, <2>2, <2>3
  <2>5. (i - 1 - q) * L = r - (k - 1)
    <3>1. (i - 1 - q) * L = (i - 1) * L - q * L /\ q * L = L * q /\ q * L \in Int
      BY <1>1, <2>1, <2>4
    <3> QED BY <1>1, <2>2, <2>4, <3>1
  <2>6. q \in Int /\ r \in Int /\ i - 1 - q \in Int /\ r - (k - 1) < L /\ -L < r - (k - 1)
    BY <1>1, <2>4
  <2> HIDE DEF q, r, n
  <2>7. CASE i - 1 - q >= 1
    <3>1. 1 * L <= (i - 1 - q) * L
      BY <1>1, <2>6, <2>7, Times
    <3> QED BY <1>1, <2>5, <2>6, <3>1
  <2>8. CASE i - 1 - q <= -1
    <3>1. (i - 1 - q) * L <= (-1) * L
      BY <1>1, <2>6, <2>8, Times
    <3> QED BY <1>1, <2>5, <2>6, <3>1
  <2>9. CASE i - 1 = q
    <3>1. r = k - 1
      BY <1>1, <2>5, <2>6, <2>9
    <3> QED BY <2>3, <2>6, <2>9, <3>1 DEF q, r, n
  <2> QED BY <2>1, <2>6, <2>7, <2>8, <2>9
<1> QED BY <1>2, <1>3 DEF L, Nth, Kth

LEMMA CentresAre ==
  ASSUME NEW points \in Arrays
  PROVE  /\ Centres(points) \in Seq(Span \X Span)
         /\ Len(Centres(points)) = Len(points) * Len(Circle) /\ Len(Centres(points)) # 0
         /\ \A n \in 1 .. Len(points) * Len(Circle) :
              Centres(points)[n] = Vote(points[Nth(n)], Circle[Kth(n)])
<1> DEFINE m == Len(points)
           L == Len(Circle)
           s == Centres(points)
<1>1. m \in Nat /\ m # 0 /\ L \in Nat \ {0} /\ \A i \in 1 .. m : points[i] \in Reach \X Reach
  <2>1. points \in Seq(Reach \X Reach) /\ Len(points) > Few
    BY DEF Arrays
  <2>2. m \in Nat /\ \A i \in 1 .. m : points[i] \in Reach \X Reach
    BY <2>1, LenProperties, ElementOfSeq
  <2> QED BY <2>1, <2>2, ConstantsAre
<1>2. m * L \in Nat /\ m * L # 0
  BY <1>1
<1>3. s = [n \in 1 .. m * L |-> Vote(points[Nth(n)], Circle[Kth(n)])]
  BY DEF Centres, Nth, Kth
<1> HIDE DEF s
<1>4. ASSUME NEW n \in 1 .. m * L
      PROVE  Vote(points[Nth(n)], Circle[Kth(n)]) \in Span \X Span
  <2>1. Nth(n) \in 1 .. m /\ Kth(n) \in 1 .. L
    BY <1>1, NthKth
  <2>2. points[Nth(n)] \in Reach \X Reach /\ Circle[Kth(n)] \in Places
    BY <1>1, <2>1, ConstantsAre
  <2> QED BY <2>2, VoteIs
<1> DEFINE N == m * L
<1> HIDE DEF N
<1>5. s \in [1 .. N -> Span \X Span]
  BY <1>3, <1>4 DEF N
<1>6. s \in Seq(Span \X Span) /\ N \in Nat
  BY <1>2, <1>5, SeqDef DEF N
<1>7. Len(s) = N
  <2>1. Len(s) \in Nat /\ 1 .. Len(s) = 1 .. N
    BY <1>5, <1>6, LenProperties
  <2> QED BY <1>6, <2>1
<1> QED BY <1>2, <1>3, <1>6, <1>7 DEF N, s

-----------------------------------------------------------------------------
(***************************************************************************)
(* The bounds of one coordinate: they fit the first j centres.             *)
(***************************************************************************)
BoundSet == [low : Int, high : Int]

BoundsLoop(h, centres, k, start, slack, window) ==
  /\ h \in [0 .. Len(centres) -> BoundSet] /\ h[0] = [low |-> start, high |-> start]
  /\ \A n \in 1 .. Len(centres) : h[n] = Wider(h[n - 1], centres[n][k], slack, window)

BoundsInTheEnd(h, centres, k, start, slack, window) ==
  /\ BoundsLoop(h, centres, k, start, slack, window)
  /\ Bounds(centres, k, start, slack, window) = h[Len(centres)]

LEMMA WiderType ==
  ASSUME NEW bound \in BoundSet, NEW v \in Int, NEW slack \in Nat, NEW window \in Nat
  PROVE  Wider(bound, v, slack, window) \in BoundSet
BY DEF Wider, BoundSet

LEMMA SpanIsInt == \A x \in Span : x \in Int
BY ConstantsAre DEF Span

LEMMA BoundsLoops ==
  ASSUME NEW centres \in Seq(Span \X Span), NEW k \in 1 .. 2, NEW start \in Int,
         NEW slack \in Nat, NEW window \in Nat
  PROVE  \E h : BoundsInTheEnd(h, centres, k, start, slack, window)
<1> DEFINE n == Len(centres)
           D == BoundSet
           base == [low |-> start, high |-> start]
           Step(bound, c) == Wider(bound, c[k], slack, window)
           step == [p \in D \X (1 .. n) |-> Step(p[1], centres[p[2]])]
           Eq(g) == g = [u \in SUBSET DOMAIN centres |->
                           IF u = {} THEN base ELSE Step(g[u \ {Max(u)}], centres[Max(u)])]
           iter == CHOOSE g : Eq(g)
<1>1. /\ n \in Nat /\ DOMAIN centres = 1 .. n /\ base \in D
      /\ \A i \in 1 .. n : centres[i][k] \in Int
  <2>1. n \in Nat /\ DOMAIN centres = 1 .. n
    BY LenProperties
  <2>2. ASSUME NEW i \in 1 .. n
        PROVE  centres[i][k] \in Int
    <3>1. centres[i] \in Span \X Span
      BY ElementOfSeq
    <3>2. k = 1 \/ k = 2
      OBVIOUS
    <3> QED BY <3>1, <3>2, SpanIsInt
  <2> QED BY <2>1, <2>2 DEF BoundSet
<1>2. ASSUME NEW d \in D, NEW i \in 1 .. n
      PROVE  Step(d, centres[i]) \in D
  BY <1>1, WiderType
<1>3. /\ step \in [D \X (1 .. n) -> D]
      /\ \A d \in D, i \in 1 .. n : step[<<d, i>>] = Step(d, centres[i])
  <2> HIDE DEF Step, n, D
  <2> QED BY <1>2
<1> HIDE DEF Step, step, n, D, base
<1>4. PICK f \in [SUBSET (1 .. n) -> D] : Folds1(f, n, base, step)
  BY <1>1, <1>3, FoldExists
<1>5. Eq(f)
  <2>1. ASSUME NEW u \in SUBSET (1 .. n)
        PROVE  f[u] = IF u = {} THEN base ELSE Step(f[u \ {Max(u)}], centres[Max(u)])
    <3>1. u # {} => Max(u) \in 1 .. n /\ u \ {Max(u)} \in SUBSET (1 .. n)
      BY <1>1, MaxIs
    <3>2. f[u] = IF u = {} THEN base ELSE step[<<f[u \ {Max(u)}], Max(u)>>]
      BY <1>4 DEF Folds1
    <3> QED BY <1>3, <1>4, <3>1, <3>2
  <2> QED BY <1>1, <1>4, <2>1
<1>6. Eq(iter)
  <2> HIDE DEF Eq
  <2> QED BY <1>5
<1>7. Bounds(centres, k, start, slack, window) = iter[1 .. n]
  BY <1>1 DEF Bounds, FoldLeft, MapThenFoldSet, Step, base
<1> HIDE DEF iter
<1>8. /\ iter[{}] = base
      /\ \A i \in 1 .. n : iter[1 .. i] = Step(iter[1 .. i - 1], centres[i])
  <2>1. iter[{}] = base
    BY <1>6
  <2>2. ASSUME NEW i \in 1 .. n
        PROVE  iter[1 .. i] = Step(iter[1 .. i - 1], centres[i])
    <3>1. /\ Max(1 .. i) = i /\ (1 .. i) \ {i} = 1 .. i - 1
          /\ 1 .. i # {} /\ 1 .. i \in SUBSET DOMAIN centres
      BY <1>1, MaxOfFirst
    <3> QED BY <1>6, <3>1
  <2> QED BY <2>1, <2>2
<1>9. PICK h : Loops(h, n, D, base, step, iter[1 .. n])
  <2>1. Follows(iter, n, D, base, step)
    BY <1>3, <1>8 DEF Follows
  <2> QED BY <1>1, <1>3, <2>1, LoopIs
<1>10. ASSUME NEW i \in 1 .. n
       PROVE  h[i] = Wider(h[i - 1], centres[i][k], slack, window)
  <2>1. i - 1 \in 0 .. n
    BY <1>1
  <2>2. h[i - 1] \in D /\ h[i] = step[<<h[i - 1], i>>]
    BY <1>9, <2>1 DEF Loops
  <2> QED BY <1>3, <2>2 DEF Step
<1> QED BY <1>7, <1>9, <1>10 DEF Loops, BoundsLoop, BoundsInTheEnd, n, D, base

\* One value v within the bounds
Within(bound, v, slack, window) ==
  /\ v <= bound.high /\ bound.low <= v + window
  /\ slack <= 1 => bound.low <= v
  /\ slack <= window => v + slack <= bound.high

Widest == Far + Radius + 1 + halfWindow

\* The bounds after j values that make no room for more than Widest
Fit(bound, centres, k, j, start, slack, window) ==
  /\ bound \in BoundSet /\ bound.low <= start /\ start <= bound.high
  /\ -Widest <= bound.low /\ bound.high <= Widest
  /\ \A n \in 1 .. j : Within(bound, centres[n][k], slack, window)
  /\ j > 0 /\ centres[1][k] + slack > start => centres[1][k] + window <= bound.high

\* What one more value makes of the bounds
Widens(wider, bound, v, slack, window) ==
  /\ wider \in BoundSet /\ wider.low <= bound.low /\ bound.high <= wider.high
  /\ Within(wider, v, slack, window)
  /\ wider.low = bound.low \/ wider.low = v - window
  /\ wider.high = bound.high \/ wider.high = v + window
  /\ v + slack > bound.high => wider.high = v + window

LEMMA WiderIs ==
  ASSUME NEW bound \in BoundSet, NEW v \in Int, NEW slack \in Nat, NEW window \in Nat,
         slack <= window + 1, bound.low <= bound.high,
         NEW wider, wider = Wider(bound, v, slack, window)
  PROVE  Widens(wider, bound, v, slack, window)
<1>0. bound.low \in Int /\ bound.high \in Int /\ wider \in BoundSet
  BY WiderType DEF BoundSet
<1> USE DEF Widens, Within
<1>1. CASE v + slack > bound.high
  <2>1. wider = [bound EXCEPT !.high = v + window]
    BY <1>1 DEF Wider
  <2>2. wider.high = v + window /\ wider.low = bound.low
    BY <2>1 DEF BoundSet
  <2> QED BY <1>0, <1>1, <2>2
<1>2. CASE ~(v + slack > bound.high) /\ v - window < bound.low
  <2>1. wider = [bound EXCEPT !.low = v - window]
    BY <1>2 DEF Wider
  <2>2. wider.low = v - window /\ wider.high = bound.high
    BY <2>1 DEF BoundSet
  <2> QED BY <1>0, <1>2, <2>2
<1>3. CASE ~(v + slack > bound.high) /\ ~(v - window < bound.low)
  <2>1. wider = bound
    BY <1>3 DEF Wider
  <2> QED BY <1>0, <1>3, <2>1
<1> QED BY <1>1, <1>2, <1>3

\* What was within the bounds still is when they are wider.
LEMMA WithinGrows ==
  ASSUME NEW bound, bound.low \in Int, bound.high \in Int,
         NEW wider, wider.low \in Int, wider.high \in Int,
         wider.low <= bound.low, bound.high <= wider.high,
         NEW v \in Int, NEW slack \in Nat, NEW window \in Nat, Within(bound, v, slack, window)
  PROVE  Within(wider, v, slack, window)
BY DEF Within

LEMMA BoundsFit ==
  ASSUME NEW centres \in Seq(Span \X Span), NEW k \in 1 .. 2, NEW start \in Span,
         NEW slack \in Nat, NEW window \in 0 .. halfWindow, slack <= window + 1
  PROVE  Fit(Bounds(centres, k, start, slack, window), centres, k, Len(centres), start, slack, window)
<1> DEFINE N == Len(centres)
<1>1. N \in Nat /\ start \in Int /\ window \in Nat /\ Widest \in Nat /\ start <= Widest /\ -Widest <= start
  BY LenProperties, ConstantsAre DEF Span, Widest
<1>2. PICK h : BoundsInTheEnd(h, centres, k, start, slack, window)
  BY <1>1, BoundsLoops
<1>3. /\ h[0] = [low |-> start, high |-> start]
      /\ \A n \in 1 .. N : h[n] = Wider(h[n - 1], centres[n][k], slack, window)
      /\ \A n \in 0 .. N : h[n] \in BoundSet
      /\ Bounds(centres, k, start, slack, window) = h[N]
  BY <1>2 DEF BoundsInTheEnd, BoundsLoop
<1>4. ASSUME NEW n \in 1 .. N
      PROVE  /\ centres[n][k] \in Int
             /\ centres[n][k] + window <= Widest /\ -Widest <= centres[n][k] - window
  <2>1. centres[n] \in Span \X Span
    BY ElementOfSeq
  <2>2. k = 1 \/ k = 2
    OBVIOUS
  <2>3. centres[n][k] \in Span
    BY <2>1, <2>2
  <2> DEFINE v == centres[n][k]
  <2> HIDE DEF v
  <2>4. v \in Span
    BY <2>3 DEF v
  <2>5. v \in Int /\ v + window <= Widest /\ -Widest <= v - window
    BY <2>4, <1>1, ConstantsAre DEF Span, Widest
  <2> QED BY <2>5 DEF v
<1> HIDE DEF N
<1> DEFINE Good == {j \in Nat : j <= N => Fit(h[j], centres, k, j, start, slack, window)}
<1>5. 0 \in Good
  BY <1>1, <1>3 DEF Fit, BoundSet
<1>6. ASSUME NEW j \in Nat, j \in Good
      PROVE  j + 1 \in Good
  <2> SUFFICES ASSUME j + 1 <= N
               PROVE  Fit(h[j + 1], centres, k, j + 1, start, slack, window)
    OBVIOUS
  <2>1. j + 1 \in 1 .. N /\ (j + 1) - 1 = j /\ Fit(h[j], centres, k, j, start, slack, window)
    BY <1>1, <1>6
  <2> DEFINE bound == h[j]
             wider == h[j + 1]
             v == centres[j + 1][k]
  <2>2. wider = Wider(bound, v, slack, window)
    BY <1>3, <2>1
  <2>3. v \in Int /\ v + window <= Widest /\ -Widest <= v - window
    BY <1>4, <2>1
  <2>4. /\ bound \in BoundSet /\ bound.low <= start /\ start <= bound.high
        /\ -Widest <= bound.low /\ bound.high <= Widest
        /\ \A n \in 1 .. j : Within(bound, centres[n][k], slack, window)
        /\ j > 0 /\ centres[1][k] + slack > start => centres[1][k] + window <= bound.high
    BY <2>1 DEF Fit
  <2>40. j = 0 => bound.high = start /\ v = centres[1][k]
    BY <1>3
  <2> HIDE DEF bound, wider, v
  <2>5. bound.low \in Int /\ bound.high \in Int /\ bound.low <= bound.high
    BY <1>1, <2>4 DEF BoundSet
  <2>6. /\ wider \in BoundSet /\ wider.low <= bound.low /\ bound.high <= wider.high
        /\ Within(wider, v, slack, window)
        /\ wider.low = bound.low \/ wider.low = v - window
        /\ wider.high = bound.high \/ wider.high = v + window
        /\ v + slack > bound.high => wider.high = v + window
    <3>1. bound \in BoundSet
      BY <2>4
    <3>2. Widens(wider, bound, v, slack, window)
      BY <1>1, <2>2, <2>3, <2>5, <3>1, WiderIs
    <3> QED BY <3>2 DEF Widens
  <2>7. wider.low \in Int /\ wider.high \in Int
    BY <2>6 DEF BoundSet
  <2>8. ASSUME NEW n \in 1 .. j + 1
        PROVE  Within(wider, centres[n][k], slack, window)
    <3>1. CASE n = j + 1
      BY <2>6, <3>1 DEF v
    <3>2. CASE n # j + 1
      <4>1. n \in 1 .. j /\ n \in 1 .. N
        BY <1>1, <2>1, <3>2
      <4>2. Within(bound, centres[n][k], slack, window) /\ centres[n][k] \in Int
        BY <1>4, <2>4, <4>1
      <4>3. wider.low <= bound.low /\ bound.high <= wider.high
        BY <2>6
      <4> QED BY <1>1, <2>5, <2>7, <4>2, <4>3, WithinGrows
    <3> QED BY <3>1, <3>2
  <2>9. ASSUME centres[1][k] + slack > start
        PROVE  centres[1][k] + window <= wider.high
    <3>1. 1 \in 1 .. N /\ centres[1][k] \in Int
      BY <1>1, <1>4, <2>1
    <3>2. CASE j = 0
      <4>1. v + slack > bound.high
        BY <2>9, <2>40, <3>2
      <4> QED BY <1>1, <2>3, <2>6, <2>7, <2>40, <3>2, <4>1
    <3>3. CASE j # 0
      <4>1. centres[1][k] + window <= bound.high
        BY <2>4, <2>9, <3>3
      <4> QED BY <1>1, <2>5, <2>6, <2>7, <3>1, <4>1
    <3> QED BY <3>2, <3>3
  <2>10. wider.low <= start /\ start <= wider.high /\ -Widest <= wider.low /\ wider.high <= Widest
    BY <1>1, <2>3, <2>4, <2>5, <2>6, <2>7
  <2>11. Fit(wider, centres, k, j + 1, start, slack, window)
    BY <2>6, <2>8, <2>9, <2>10 DEF Fit
  <2> QED BY <2>11 DEF wider
<1> HIDE DEF Good
<1>7. N \in Good
  BY <1>1, <1>5, <1>6, Induction
<1> QED BY <1>1, <1>3, <1>7 DEF Good, N

-----------------------------------------------------------------------------
(***************************************************************************)
(* The two tables, and that the centres have cells of their own in them.   *)
(***************************************************************************)
\* Where the centre lies in the table, in columns and rows
Column(table, c) == c[1] + table.window - table.minA
Row(table, c) == c[2] + table.window - table.minB

Apart(table, centres) ==
  /\ table.aScale \in Nat \ {0} /\ table.bScale \in Nat \ {0}
  /\ table.minA \in Int /\ table.minB \in Int /\ table.window \in 0 .. halfWindow
  /\ -Widest <= table.minA /\ table.minA + table.aScale - 1 <= Widest
  /\ -Widest <= table.minB /\ table.minB + table.bScale - 1 <= Widest
  /\ \A n \in 1 .. Len(centres) :
       /\ Column(table, centres[n]) \in table.window .. table.window + table.aScale - 1
       /\ Row(table, centres[n]) \in 0 .. table.bScale - 1
  \* The first centre does not run over.
  /\ Column(table, centres[1]) < table.aScale
  /\ table.window < table.aScale

LEMMA ArrayIs ==
  ASSUME NEW points \in Arrays
  PROVE  /\ points[1][1] \in Span /\ points[1][1] - Radius \in Span
         /\ Centres(points)[1][1] >= points[1][1] - Radius
<1>1. 1 \in 1 .. Len(points) /\ points[1] \in Reach \X Reach
  <2>1. points \in Seq(Reach \X Reach) /\ Len(points) > Few
    BY DEF Arrays
  <2>2. Len(points) \in Nat /\ 1 \in 1 .. Len(points)
    BY <2>1, LenProperties, ConstantsAre
  <2> QED BY <2>1, <2>2, ElementOfSeq
<1>2. Circle[1] \in Places /\ 1 \in 1 .. Len(points) * Len(Circle)
      /\ Nth(1) = 1 /\ Kth(1) = 1
  <2>1. Len(points) \in Nat /\ 1 \in 1 .. Len(Circle)
    BY LenProperties, ConstantsAre DEF Arrays
  <2>2. (1 - 1) * Len(Circle) + 1 = 1
    BY ConstantsAre
  <2> QED BY <1>1, <2>1, <2>2, NthKth, ConstantsAre
<1>3. Centres(points)[1] = Vote(points[1], Circle[1])
  BY <1>2, CentresAre
<1>4. points[1][1] \in Reach
  BY <1>1
<1>5. points[1][1] \in Span /\ points[1][1] - Radius \in Span
  BY <1>4, ConstantsAre DEF Reach, Span
<1> QED BY <1>1, <1>2, <1>3, <1>5, VoteIs

LEMMA TableIs ==
  ASSUME NEW points \in Arrays, NEW slack \in 0 .. 1, NEW window \in 0 .. halfWindow,
         slack = 0 => window = 0
  PROVE  Apart(Table(points, slack, window), Centres(points))
<1> DEFINE centres == Centres(points)
           x == points[1][1]
           a == Bounds(centres, 1, x - Radius, slack, window)
           b == Bounds(centres, 2, x, window, window)
           table == Table(points, slack, window)
           N == Len(centres)
<1>1. /\ centres \in Seq(Span \X Span) /\ N \in Nat /\ N # 0
      /\ \A n \in 1 .. N : centres[n] \in Span \X Span
  BY CentresAre, LenProperties, ElementOfSeq
<1>2. x \in Span /\ x - Radius \in Span /\ centres[1][1] >= x - Radius
  BY ArrayIs
<1>3. x \in Int /\ Radius \in Nat /\ Widest \in Nat /\ halfWindow \in Nat
  BY <1>2, SpanIsInt, ConstantsAre DEF Widest
<1>4. slack \in Nat /\ window \in Nat /\ slack <= window + 1 /\ window <= window + 1
  OBVIOUS
<1> HIDE DEF centres, x, N
<1>5. Fit(a, centres, 1, N, x - Radius, slack, window)
  BY <1>1, <1>2, <1>4, BoundsFit DEF N
<1>6. Fit(b, centres, 2, N, x, window, window)
  BY <1>1, <1>2, <1>4, BoundsFit DEF N
<1>7. table = [minA |-> a.low, minB |-> b.low, aScale |-> Scale(a), bScale |-> Scale(b),
               window |-> window]
  BY DEF Table, centres, x
<1> HIDE DEF a, b, table
<1>8. /\ a.low \in Int /\ a.high \in Int /\ b.low \in Int /\ b.high \in Int
      /\ a.low <= x - Radius /\ x - Radius <= a.high /\ b.low <= x /\ x <= b.high
      /\ -Widest <= a.low /\ a.high <= Widest /\ -Widest <= b.low /\ b.high <= Widest
  BY <1>5, <1>6 DEF Fit, BoundSet
<1>9. /\ table.minA = a.low /\ table.minB = b.low /\ table.window = window
      /\ table.aScale = a.high - a.low + 1 /\ table.bScale = b.high - b.low + 1
  BY <1>7 DEF Scale
<1>10. ASSUME NEW n \in 1 .. N
       PROVE  /\ centres[n][1] \in Int /\ centres[n][2] \in Int
              /\ Column(table, centres[n]) \in window .. window + table.aScale - 1
              /\ Row(table, centres[n]) \in 0 .. table.bScale - 1
  <2> DEFINE v == centres[n][1]
             w == centres[n][2]
  <2>1. v \in Int /\ w \in Int
    BY <1>1, SpanIsInt
  <2>2. Within(a, v, slack, window) /\ Within(b, w, window, window)
    BY <1>5, <1>6 DEF Fit
  <2>3. /\ Column(table, centres[n]) = v + window - a.low
        /\ Row(table, centres[n]) = w + window - b.low
    BY <1>9 DEF Column, Row
  <2> HIDE DEF v, w
  <2>4. v <= a.high /\ a.low <= v /\ w + window <= b.high /\ b.low <= w + window
    BY <1>4, <2>2 DEF Within
  <2>5. /\ v + window - a.low \in window .. window + table.aScale - 1
        /\ w + window - b.low \in 0 .. table.bScale - 1
    BY <1>4, <1>8, <1>9, <2>1, <2>4
  <2> QED BY <2>1, <2>3, <2>5 DEF v, w
<1>11. Column(table, centres[1]) < table.aScale /\ window < table.aScale
  <2> DEFINE v == centres[1][1]
  <2>1. 1 \in 1 .. N /\ v \in Int
    BY <1>1, <1>10
  <2>2. Column(table, centres[1]) = v + window - a.low
    BY <1>9 DEF Column
  <2>3. v + slack > x - Radius => v + window <= a.high
    BY <1>1, <1>5 DEF Fit
  <2>4. v <= a.high
    BY <1>5, <2>1 DEF Fit, Within
  <2>5. v >= x - Radius
    BY <1>2
  <2> HIDE DEF v
  <2>6. v + window <= a.high
    BY <1>3, <1>4, <1>8, <2>1, <2>3, <2>4, <2>5
  <2> QED BY <1>3, <1>4, <1>8, <1>9, <2>1, <2>2, <2>5, <2>6
<1>12. table.aScale \in Nat \ {0} /\ table.bScale \in Nat \ {0}
  BY <1>3, <1>8, <1>9
<1>13. table.minA + table.aScale - 1 <= Widest /\ table.minB + table.bScale - 1 <= Widest
  BY <1>3, <1>8, <1>9
<1> QED BY <1>1, <1>8, <1>9, <1>10, <1>11, <1>12, <1>13 DEF Apart, N, centres, table

\* Rows of A places are apart as soon as the columns differ by less than a row.
LEMMA RowsApart ==
  ASSUME NEW A \in Nat \ {0}, NEW p \in Int, NEW q \in Int, NEW r \in Int, NEW s \in Int,
         p - q < A, q - p < A, r * A + p = s * A + q
  PROVE  p = q /\ r = s
<1>1. (r - s) * A = q - p
  <2>1. (r - s) * A = r * A - s * A /\ r * A \in Int /\ s * A \in Int
    OBVIOUS
  <2> QED BY <2>1
<1>2. CASE r - s >= 1
  <2>1. 1 * A <= (r - s) * A
    BY <1>2, Times
  <2> QED BY <1>1, <2>1
<1>3. CASE r - s <= -1
  <2>1. (r - s) * A <= (-1) * A
    BY <1>3, Times
  <2> QED BY <1>1, <2>1
<1>4. CASE r = s
  <2>1. (r - s) * A = 0
    BY <1>4
  <2> QED BY <1>1, <1>4, <2>1
<1> QED BY <1>2, <1>3, <1>4

LEMMA CellIs ==
  ASSUME NEW table, NEW c
  PROVE  Cell(table, c) = Row(table, c) * table.aScale + c[1] + table.window - table.minA
BY Zenon DEF Cell, Row

\* Everything about the cells of the votes
Counted(table, centres) ==
  /\ \A n \in 1 .. Len(centres) :
       /\ Column(table, centres[n]) \in Nat /\ Row(table, centres[n]) \in Nat
       /\ Cell(table, centres[n])
            = Row(table, centres[n]) * table.aScale + Column(table, centres[n])
       /\ Cell(table, centres[n]) \in Nat
       /\ Column(table, centres[n]) < table.aScale => Cell(table, centres[n]) < Size(table)
  /\ \A n, m \in 1 .. Len(centres) :
       Cell(table, centres[n]) = Cell(table, centres[m]) => centres[n] = centres[m]

LEMMA CellsAre ==
  ASSUME NEW centres \in Seq(Span \X Span), NEW table, Apart(table, centres)
  PROVE  Counted(table, centres)
<1> DEFINE N == Len(centres)
           A == table.aScale
           B == table.bScale
           w == table.window
           minA == table.minA
           minB == table.minB
<1>1. A \in Nat \ {0} /\ B \in Nat \ {0} /\ w \in Nat /\ minA \in Int /\ minB \in Int
  BY ConstantsAre DEF Apart
<1>2. ASSUME NEW n \in 1 .. N
      PROVE  /\ centres[n] = <<centres[n][1], centres[n][2]>>
             /\ centres[n][1] \in Int /\ centres[n][2] \in Int
             /\ Column(table, centres[n]) = centres[n][1] + w - minA
             /\ Row(table, centres[n]) = centres[n][2] + w - minB
             /\ Column(table, centres[n]) \in w .. w + A - 1
             /\ Row(table, centres[n]) \in 0 .. B - 1
  <2>1. centres[n] \in Span \X Span
    BY ElementOfSeq
  <2>2. Column(table, centres[n]) \in w .. w + A - 1 /\ Row(table, centres[n]) \in 0 .. B - 1
    BY DEF Apart
  <2> QED BY <2>1, <2>2, SpanIsInt DEF Column, Row
<1>3. ASSUME NEW n \in 1 .. N
      PROVE  /\ Column(table, centres[n]) \in Nat /\ Row(table, centres[n]) \in Nat
             /\ Cell(table, centres[n]) = Row(table, centres[n]) * A + Column(table, centres[n])
             /\ Cell(table, centres[n]) \in Nat
             /\ Column(table, centres[n]) < A => Cell(table, centres[n]) < Size(table)
  <2> DEFINE c == centres[n]
             p == Column(table, c)
             r == Row(table, c)
             x == c[1]
             rA == r * A
  <2>1. Cell(table, c) = rA + x + w - minA
    <3>1. Cell(table, centres[n])
            = Row(table, centres[n]) * table.aScale + centres[n][1] + table.window - table.minA
      BY CellIs
    <3> QED BY <3>1
  <2>2. p \in Nat /\ r \in Nat /\ r <= B - 1 /\ p = x + w - minA /\ x \in Int
    <3>1. p \in w .. w + A - 1 /\ r \in 0 .. B - 1 /\ p = x + w - minA /\ x \in Int
      BY <1>2
    <3> HIDE DEF p, r, x, A, B, w, minA
    <3> QED BY <1>1, <3>1
  <2>3. Size(table) = A * B
    BY DEF Size
  <2> HIDE DEF p, r, x, A, B, w, minA, c
  <2>4. rA \in Nat /\ rA <= (B - 1) * A /\ (B - 1) * A = A * B - A /\ A * B \in Int
    BY <1>1, <2>2, Times
  <2> HIDE DEF rA
  <2>5. Cell(table, c) = rA + p
    BY <1>1, <2>1, <2>2, <2>4
  <2>6. rA + p \in Nat /\ (p < A => rA + p < A * B)
    <3> DEFINE AB == A * B
    <3>1. rA <= AB - A /\ AB \in Int
      BY <2>4
    <3> HIDE DEF AB
    <3>2. rA + p \in Nat /\ (p < A => rA + p < AB)
      BY <1>1, <2>2, <2>4, <3>1
    <3> QED BY <3>2 DEF AB
  <2> QED BY <2>2, <2>3, <2>5, <2>6 DEF p, r, A, c, rA
<1>4. ASSUME NEW n \in 1 .. N, NEW m \in 1 .. N, Cell(table, centres[n]) = Cell(table, centres[m])
      PROVE  centres[n] = centres[m]
  <2> DEFINE p == Column(table, centres[n])
             q == Column(table, centres[m])
             r == Row(table, centres[n])
             s == Row(table, centres[m])
  <2>1. r * A + p = s * A + q /\ p \in Nat /\ q \in Nat /\ r \in Nat /\ s \in Nat
    BY <1>3, <1>4
  <2>2. /\ p = centres[n][1] + w - minA /\ q = centres[m][1] + w - minA
        /\ r = centres[n][2] + w - minB /\ s = centres[m][2] + w - minB
        /\ centres[n][1] \in Int /\ centres[m][1] \in Int
        /\ centres[n][2] \in Int /\ centres[m][2] \in Int
        /\ centres[n] = <<centres[n][1], centres[n][2]>>
        /\ centres[m] = <<centres[m][1], centres[m][2]>>
    BY <1>2
  <2>3. p \in w .. w + A - 1 /\ q \in w .. w + A - 1
    BY <1>2
  <2> HIDE DEF p, q, r, s, A, w, minA, minB
  <2>4. p - q < A /\ q - p < A
    BY <1>1, <2>1, <2>3
  <2>5. p = q /\ r = s
    <3>1. p \in Int /\ q \in Int /\ r \in Int /\ s \in Int /\ A \in Nat \ {0}
      BY <1>1, <2>1
    <3>2. r * A + p = s * A + q
      BY <2>1
    <3> QED BY <2>4, <3>1, <3>2, RowsApart
  <2>6. centres[n][1] = centres[m][1] /\ centres[n][2] = centres[m][2]
    BY <1>1, <2>2, <2>5
  <2> QED BY <2>2, <2>6
<1> HIDE DEF N, A, B, w, minA, minB
<1> QED BY <1>3, <1>4 DEF Counted, N, A

LEMMA TablesCount ==
  ASSUME NEW points \in Arrays
  PROVE  /\ Apart(Table(points, 1, halfWindow), Centres(points))
         /\ Counted(Table(points, 1, halfWindow), Centres(points))
         /\ Apart(Table(points, 0, 0), Centres(points))
         /\ Counted(Table(points, 0, 0), Centres(points))
<1>1. halfWindow \in 0 .. halfWindow /\ 0 \in 0 .. halfWindow /\ 1 \in 0 .. 1 /\ 0 \in 0 .. 1
  BY ConstantsAre
<1>2. Apart(Table(points, 1, halfWindow), Centres(points)) /\ Apart(Table(points, 0, 0), Centres(points))
  BY <1>1, TableIs
<1> QED BY <1>2, CentresAre, CellsAre

LEMMA ArraysApart ==
  ASSUME NEW points \in Arrays
  PROVE  LET centres == Range(Centres(points))
             wide == Table(points, 1, halfWindow)
             narrow == Table(points, 0, 0)
         IN  /\ \A c, d \in centres : Cell(wide, c) = Cell(wide, d) => c = d
             /\ \A c, d \in centres : Cell(narrow, c) = Cell(narrow, d) => c = d
             /\ \A c \in centres : Cell(wide, c) >= 0 /\ Cell(narrow, c) \in 0 .. Size(narrow) - 1
<1> DEFINE s == Centres(points)
           wide == Table(points, 1, halfWindow)
           narrow == Table(points, 0, 0)
<1>1. DOMAIN s = 1 .. Len(s)
  BY CentresAre, LenProperties
<1>2. Counted(wide, s) /\ Apart(narrow, s) /\ Counted(narrow, s)
  BY TablesCount
<1>3. narrow.window = 0
  BY DEF Table
<1> HIDE DEF s, wide, narrow
<1>4. \A c \in Range(s) : \E n \in 1 .. Len(s) : c = s[n]
  BY <1>1 DEF Range
<1>5. ASSUME NEW c \in Range(s)
      PROVE  Cell(wide, c) >= 0 /\ Cell(narrow, c) \in 0 .. Size(narrow) - 1
  <2>1. PICK n \in 1 .. Len(s) : c = s[n]
    BY <1>4
  <2>2. Cell(wide, c) \in Nat /\ Cell(narrow, c) \in Nat
        /\ (Column(narrow, c) < narrow.aScale => Cell(narrow, c) < Size(narrow))
    BY <1>2, <2>1 DEF Counted
  <2>3. Column(narrow, c) \in 0 .. 0 + narrow.aScale - 1 /\ narrow.aScale \in Nat
        /\ narrow.bScale \in Nat
    BY <1>2, <1>3, <2>1 DEF Apart
  <2>4. Size(narrow) \in Int
    BY <2>3 DEF Size
  <2> QED BY <2>2, <2>3, <2>4
<1>6. ASSUME NEW c \in Range(s), NEW d \in Range(s)
      PROVE  /\ Cell(wide, c) = Cell(wide, d) => c = d
             /\ Cell(narrow, c) = Cell(narrow, d) => c = d
  <2>1. PICK n, m \in 1 .. Len(s) : c = s[n] /\ d = s[m]
    BY <1>4
  <2> QED BY <1>2, <2>1 DEF Counted
<1> QED BY <1>5, <1>6 DEF s, wide, narrow

-----------------------------------------------------------------------------
(***************************************************************************)
(* What is cut, and what is fitted.                                        *)
(***************************************************************************)
\* A distance for every angle, and every angle a step of the table
Angled(rhos, thetas) ==
  /\ rhos \in Seq(Nat) /\ thetas \in Seq(Nat) /\ Len(thetas) = Len(rhos)
  /\ \A i \in 1 .. Len(thetas) :
       Cosine[thetas[i]] \in -Unit .. Unit /\ Sine[thetas[i]] \in -Unit .. Unit

PiecesHeld ==
  /\ Angled(RadarRho, RadarTheta)
  /\ phase \in {"read", "filtered"} => data \in Scans
  /\ phase \in {"broken", "drawn", "fitted", "pushed"} =>
       /\ RadarRho # <<>>
       /\ BreakedRadarRho = Broken(RadarRho, RadarRho, Separator)
       /\ BreakedRadarTheta = Broken(RadarRho, RadarTheta, SeparatorAngle)
  /\ phase \in {"fitted", "pushed"} =>
       fits = Pieces(BreakedRadarRho, BreakedRadarTheta) /\ FittedArc = Arcs(fits)

LEMMA ScanAngled ==
  ASSUME NEW s \in Scans
  PROVE  /\ s \in Seq(Nat) /\ Angled(s, Steps(s))
         /\ Angled(Filtered(s), Middle(Steps(s)))
<1> DEFINE n == Len(s)
           m == IF n < 4 THEN 0 ELSE n - 4
<1>1. s \in Seq(Nat) /\ n \in Nat /\ DOMAIN s = 1 .. n /\ \A i \in 1 .. n : s[i] \in Nat
  <2>1. s \in Seq(Nat)
    BY PillarsAssumption
  <2> QED BY <2>1, LenProperties, ElementOfSeq
<1>2. \A i \in 1 .. n : Cosine[i] \in -Unit .. Unit /\ Sine[i] \in -Unit .. Unit
  BY <1>1, PillarsAssumption
<1>3. m \in Nat /\ 1 .. n - 4 = 1 .. m /\ \A i \in 1 .. m : i + 2 \in 1 .. n
  BY <1>1
<1> HIDE DEF n, m
<1>4. Steps(s) = [i \in 1 .. n |-> i]
  BY <1>1 DEF Steps
<1>5. Angled(s, Steps(s))
  <2>1. Steps(s) \in Seq(Nat) /\ Len(Steps(s)) = n /\ \A i \in 1 .. n : Steps(s)[i] = i
    BY <1>1, <1>4
  <2> QED BY <1>1, <1>2, <2>1 DEF Angled, n
<1>6. Middle(Steps(s)) = [i \in 1 .. m |-> i + 2]
  BY <1>1, <1>3, MiddleIs DEF n
<1>7. ASSUME NEW i \in 1 .. m
      PROVE  Filtered(s)[i] \in Nat
  <2>1. i \in 1 .. Len(s) - 4
    BY <1>3 DEF n
  <2>2. PICK j \in i .. i + 4 : s[j] = Filtered(s)[i]
    BY <1>1, <2>1, MedianIs
  <2>3. j \in 1 .. n
    BY <1>1, <2>1 DEF n
  <2> QED BY <1>1, <2>2, <2>3
<1>8. Filtered(s) = [i \in 1 .. m |-> Filtered(s)[i]]
  BY <1>3 DEF Filtered, n
<1>9. Filtered(s) \in Seq(Nat) /\ Len(Filtered(s)) = m
  <2> DEFINE f == Filtered(s)
  <2> HIDE DEF f
  <2>1. f = [i \in 1 .. m |-> f[i]] /\ \A i \in 1 .. m : f[i] \in Nat
    BY <1>7, <1>8 DEF f
  <2>2. f \in [1 .. m -> Nat]
    BY <2>1
  <2>3. f \in Seq(Nat) /\ Len(f) = m
    BY <1>3, <2>2
  <2> QED BY <2>3 DEF f
<1>10. /\ Middle(Steps(s)) \in Seq(Nat) /\ Len(Middle(Steps(s))) = m
       /\ \A i \in 1 .. m : Middle(Steps(s))[i] \in 1 .. n
  BY <1>3, <1>6
<1>11. Angled(Filtered(s), Middle(Steps(s)))
  BY <1>2, <1>9, <1>10 DEF Angled
<1> QED BY <1>1, <1>5, <1>11

\* The vectors that FitArc goes through: the cut places give the values.
CutHolds(r, t, c, rhos, thetas) ==
  /\ r \in Seq(Int) /\ Len(r) = Len(c) /\ Len(c) \in Nat
  /\ \A p \in 1 .. Len(c) :
       /\ c[p] \in 0 .. Len(rhos)
       /\ r[p] = IF c[p] = 0 THEN -1 ELSE rhos[c[p]]
       /\ t[p] = IF c[p] = 0 THEN SeparatorAngle ELSE thetas[c[p]]

LEMMA CutValues ==
  ASSUME NEW rhos, NEW thetas, Angled(rhos, thetas)
  PROVE  CutHolds(Broken(rhos, rhos, Separator), Broken(rhos, thetas, SeparatorAngle),
                  Cut(rhos), rhos, thetas)
<1> DEFINE c == Cut(rhos)
           r == Broken(rhos, rhos, Separator)
           t == Broken(rhos, thetas, SeparatorAngle)
           n == Len(rhos)
<1>1. /\ rhos \in Seq(Nat) /\ rhos \in Seq(Int) /\ thetas \in Seq(Nat) /\ Len(thetas) = n
      /\ \A i \in 1 .. n : rhos[i] \in Int
  <2>1. rhos \in Seq(Nat) /\ thetas \in Seq(Nat) /\ Len(thetas) = n
    BY DEF Angled
  <2>2. \A i \in 1 .. n : rhos[i] \in Nat
    BY <2>1, ElementOfSeq
  <2>3. Nat \subseteq Int
    OBVIOUS
  <2>4. rhos \in Seq(Int)
    BY <2>1, <2>3, SeqMonotonic
  <2> QED BY <2>1, <2>2, <2>4
<1>2. Separator \in Int /\ SeparatorAngle \in Nat /\ Separator = -1
  BY DEF Separator, SeparatorAngle
<1>3. r = Marked(c, rhos, Separator) /\ c \in Seq(0 .. n)
  <2> HIDE DEF c, n
  <2> QED BY <1>1, <1>2, BrokenIsMarked DEF c, n
<1>4. t = Marked(c, thetas, SeparatorAngle)
  BY <1>1, <1>2, BrokenIsMarked
<1> HIDE DEF c, r, t, n
<1>5. Len(c) \in Nat /\ DOMAIN c = 1 .. Len(c) /\ \A p \in 1 .. Len(c) : c[p] \in 0 .. n
  BY <1>3, LenProperties, ElementOfSeq
<1>6. /\ r \in Seq(Int) /\ Len(r) = Len(c)
      /\ \A p \in 1 .. Len(c) : r[p] = IF c[p] = 0 THEN -1 ELSE rhos[c[p]]
  <2>1. Markable(0 .. n, Int, rhos, Separator)
    BY <1>1, <1>2 DEF Markable
  <2>2. MarkedAs(r, c, Int, rhos, Separator)
    BY <1>3, <2>1, MarkedIs
  <2> QED BY <1>2, <2>2 DEF MarkedAs
<1>7. \A p \in 1 .. Len(c) : t[p] = IF c[p] = 0 THEN SeparatorAngle ELSE thetas[c[p]]
  BY <1>4, <1>5 DEF Marked
<1>8. CutHolds(r, t, c, rhos, thetas)
  BY <1>5, <1>6, <1>7 DEF CutHolds, n
<1> QED BY <1>8 DEF c, r, t

LEMMA BrokenSeen ==
  ASSUME NEW rhos, NEW thetas, Angled(rhos, thetas)
  PROVE  Seen(Broken(rhos, rhos, Separator), Broken(rhos, thetas, SeparatorAngle))
<1> DEFINE c == Cut(rhos)
           r == Broken(rhos, rhos, Separator)
           t == Broken(rhos, thetas, SeparatorAngle)
<1>1. CutHolds(r, t, c, rhos, thetas)
  BY CutValues
<1> HIDE DEF c, r, t
<1>2. ASSUME NEW p \in 1 .. Len(r), r[p] >= 0
      PROVE  Cosine[t[p]] \in -Unit .. Unit /\ Sine[t[p]] \in -Unit .. Unit
  <2>1. p \in 1 .. Len(c) /\ c[p] # 0
    BY <1>1, <1>2 DEF CutHolds
  <2>2. c[p] \in 1 .. Len(thetas) /\ t[p] = thetas[c[p]]
    BY <1>1, <2>1 DEF CutHolds, Angled
  <2> QED BY <2>2 DEF Angled
<1> QED BY <1>1, <1>2 DEF Seen, CutHolds, r, t

LEMMA PiecesHeldInit == Init => PiecesHeld
<1> SUFFICES ASSUME Init
             PROVE  PiecesHeld
  OBVIOUS
<1>1. RadarRho = <<>> /\ RadarTheta = <<>> /\ phase = "start"
  BY DEF Init
<1>2. Angled(RadarRho, RadarTheta)
  BY <1>1 DEF Angled
<1> QED BY <1>1, <1>2 DEF PiecesHeld

LEMMA PiecesHeldStep ==
  ASSUME ScanHeld, PiecesHeld, [Next]_vars
  PROVE  PiecesHeld'
<1>1. CASE RadarRead
  <2>1. data' \in Scans /\ phase' = "read"
    BY <1>1 DEF RadarRead
  <2>2. RadarRho' = data' /\ RadarTheta' = Steps(data')
    BY <1>1, <2>1, ScanHeldStep DEF ScanHeld
  <2>3. Angled(RadarRho, RadarTheta)'
    BY <2>1, <2>2, ScanAngled
  <2> QED BY <2>1, <2>3 DEF PiecesHeld
<1>2. CASE MedFilter
  <2>1. /\ RadarRho' = Filtered(data) /\ RadarTheta' = Middle(Steps(data))
        /\ data \in Scans /\ data' = data /\ phase' = "filtered"
    BY <1>2 DEF MedFilter, ScanHeld, PiecesHeld
  <2>2. Angled(RadarRho, RadarTheta)'
    BY <2>1, ScanAngled
  <2> QED BY <2>1, <2>2 DEF PiecesHeld
<1>3. CASE BreakRadarRho
  BY <1>3 DEF BreakRadarRho, PiecesHeld, Angled, scan
<1>4. CASE CreateRadarImage
  BY <1>4 DEF CreateRadarImage, PiecesHeld, Angled, scan, pieces, arcs
<1>5. CASE FitArc
  BY <1>5 DEF FitArc, PiecesHeld, Angled, scan, pieces
<1>6. CASE DFCOMPush
  BY <1>6 DEF DFCOMPush, PiecesHeld, Angled, scan, pieces, arcs
<1>7. CASE DFCOMPop
  BY <1>7 DEF DFCOMPop, PiecesHeld, Angled, scan, pieces, arcs
<1>8. CASE CreateRadarImageself
  BY <1>8 DEF CreateRadarImageself, PiecesHeld, Angled
<1>9. CASE UNCHANGED vars
  BY <1>9 DEF vars, PiecesHeld, Angled
<1> QED BY <1>1, <1>2, <1>3, <1>4, <1>5, <1>6, <1>7, <1>8, <1>9 DEF Next

LEMMA FitsAreArrays ==
  ASSUME PiecesHeld, phase \in {"fitted", "pushed"}
  PROVE  fits \in Seq(Arrays) /\ FittedArc = Arcs(fits)
<1>1. Seen(BreakedRadarRho, BreakedRadarTheta)
  BY BrokenSeen DEF PiecesHeld
<1> QED BY <1>1, PiecesAreArrays DEF PiecesHeld

LEMMA HeldApart ==
  ASSUME PiecesHeld
  PROVE  VotesApart
<1>1. ASSUME phase = "fitted", NEW points \in Range(fits)
      PROVE  points \in Arrays
  <2>1. fits \in Seq(Arrays)
    BY <1>1, FitsAreArrays
  <2>2. PICK i \in DOMAIN fits : points = fits[i]
    BY <1>1 DEF Range
  <2> QED BY <2>1, <2>2
<1> QED BY <1>1, ArraysApart DEF VotesApart

\* Votes for different centres are never counted together, whatever the scans,
\* the table of directions, the circle and the size of the window.
THEOREM VotesAlwaysApart == Spec => []VotesApart
<1>1. Init => ScanHeld /\ PiecesHeld
  BY ScanHeldInit, PiecesHeldInit
<1>2. ScanHeld /\ PiecesHeld /\ [Next]_vars => ScanHeld' /\ PiecesHeld'
  BY ScanHeldStep, PiecesHeldStep
<1>3. PiecesHeld => VotesApart
  BY HeldApart
<1> QED BY <1>1, <1>2, <1>3, PTL DEF Spec

-----------------------------------------------------------------------------
(***************************************************************************)
(* The cell with the most votes.                                           *)
(***************************************************************************)
LEMMA LeastIs ==
  ASSUME NEW S \in SUBSET Nat, S # {}
  PROVE  /\ Min(S) \in S
         /\ \A y \in S : Min(S) <= y
<1>1. OpToRel(<, Nat) = Less
  BY DEF OpToRel, Less
<1>2. PICK least \in S : \A k \in S : <<k, least>> \notin Less
  BY <1>1, NatLessThanWellFounded, WFMin
<1>3. ASSUME NEW y \in S
      PROVE  least <= y
  <2>1. y \in Nat /\ least \in Nat /\ <<y, least>> \notin Less
    BY <1>2
  <2> QED BY <2>1 DEF Less
<1> QED BY <1>3 DEF Min

LEMMA HitsAre ==
  ASSUME NEW box, NEW n \in Nat, DOMAIN box = 1 .. n, NEW cell
  PROVE  /\ Hits(box, cell) \in 0 .. n
         /\ cell \in Range(box) => Hits(box, cell) # 0
<1> DEFINE H == {k \in DOMAIN box : box[k] = cell}
<1>1. IsFiniteSet(1 .. n) /\ Cardinality(1 .. n) = n
  <2>1. 1 \in Int /\ n \in Int
    OBVIOUS
  <2> QED BY <2>1, FS_Interval
<1>2. H \in SUBSET (1 .. n)
  OBVIOUS
<1>3. IsFiniteSet(H) /\ Cardinality(H) <= n /\ Cardinality(H) \in Nat
  <2> HIDE DEF H
  <2>1. IsFiniteSet(H) /\ Cardinality(H) <= Cardinality(1 .. n)
    BY <1>1, <1>2, FS_Subset
  <2> QED BY <1>1, <2>1, FS_CardinalityType
<1>4. cell \in Range(box) => H # {}
  BY DEF Range
<1>5. cell \in Range(box) => Cardinality(H) # 0
  <2> HIDE DEF H
  <2> QED BY <1>3, <1>4, FS_EmptySet
<1> QED BY <1>3, <1>5 DEF Hits

\* The winner is a cell of the table that is hit, and none is hit more often.
Won(cell, box, table) ==
  /\ cell \in Range(box) \cap 0 .. Size(table) - 1
  /\ \A other \in Range(box) \cap 0 .. Size(table) - 1 : Hits(box, other) <= Hits(box, cell)

LEMMA WinnerIs ==
  ASSUME NEW box, NEW n \in Nat, DOMAIN box = 1 .. n, NEW table,
         Range(box) \cap 0 .. Size(table) - 1 # {}
  PROVE  Won(Winner(box, table), box, table)
<1> DEFINE cells == Range(box) \cap 0 .. Size(table) - 1
           hits == [cell \in cells |-> Hits(box, cell)]
           best == {cell \in DOMAIN hits : \A other \in DOMAIN hits : hits[other] <= hits[cell]}
           counts == {Hits(box, cell) : cell \in cells}
<1>1. counts # {} /\ counts \in SUBSET (1 .. n)
  <2>1. ASSUME NEW cell \in cells
        PROVE  Hits(box, cell) \in 1 .. n
    <3>1. Hits(box, cell) \in 0 .. n /\ Hits(box, cell) # 0
      BY HitsAre
    <3> QED BY <3>1
  <2> QED BY <2>1
<1>2. PICK cell \in cells : \A other \in cells : Hits(box, other) <= Hits(box, cell)
  <2>1. Max(counts) \in counts /\ \A y \in counts : Max(counts) >= y
    <3> HIDE DEF counts
    <3> QED BY <1>1, MaxIs
  <2>2. PICK cell \in cells : Max(counts) = Hits(box, cell)
    BY <2>1
  <2>3. \A other \in cells : Hits(box, other) <= Hits(box, cell)
    <3> SUFFICES ASSUME NEW other \in cells
                 PROVE  Hits(box, other) <= Hits(box, cell)
      OBVIOUS
    <3>1. Hits(box, other) \in counts /\ Hits(box, cell) \in counts
      OBVIOUS
    <3>2. Hits(box, cell) >= Hits(box, other)
      BY <2>1, <2>2, <3>1
    <3>3. Hits(box, cell) \in 1 .. n /\ Hits(box, other) \in 1 .. n
      BY <1>1, <3>1
    <3> HIDE DEF cells, counts
    <3> QED BY <3>2, <3>3
  <2> QED BY <2>3
<1>3. best = {c \in cells : \A other \in cells : Hits(box, other) <= Hits(box, c)}
  OBVIOUS
<1>4. cells \subseteq Nat
  OBVIOUS
<1>5. Winner(box, table) = Min(best)
  BY DEF Winner
<1> HIDE DEF best, hits, cells, counts
<1>6. best # {} /\ best \in SUBSET Nat
  BY <1>2, <1>3, <1>4
<1>7. Min(best) \in best
  BY <1>6, LeastIs
<1> QED BY <1>3, <1>5, <1>7 DEF Won, cells

-----------------------------------------------------------------------------
(***************************************************************************)
(* A cell is hit as often as its centre has votes: the turns of the two    *)
(* loops are the pairs of a point and a place.                             *)
(***************************************************************************)
LEMMA HitsAreVotes ==
  ASSUME NEW points \in Arrays, NEW table, Counted(table, Centres(points)),
         NEW m \in 1 .. Len(Centres(points))
  PROVE  Hits(VoteBox(points, table), Cell(table, Centres(points)[m]))
           = Votes(points, Centres(points)[m])
<1> DEFINE s == Centres(points)
           N == Len(points)
           L == Len(Circle)
           c == s[m]
           box == VoteBox(points, table)
           H == {k \in DOMAIN box : box[k] = Cell(table, c)}
           V == {v \in (DOMAIN points) \X (DOMAIN Circle) : Vote(points[v[1]], Circle[v[2]]) = c}
           f == [k \in H |-> <<Nth(k), Kth(k)>>]
<1>1. N \in Nat /\ DOMAIN points = 1 .. N
  BY LenProperties DEF Arrays
<1>2. /\ DOMAIN s = 1 .. N * L /\ Len(s) = N * L
      /\ \A n \in 1 .. N * L : s[n] = Vote(points[Nth(n)], Circle[Kth(n)])
  BY CentresAre, LenProperties
<1>3. DOMAIN Circle = 1 .. L /\ L \in Nat
  BY ConstantsAre
<1>4. box = [k \in 1 .. N * L |-> Cell(table, s[k])]
  BY <1>2 DEF VoteBox
<1>5. H = {k \in 1 .. N * L : s[k] = c}
  <2>1. H = {k \in 1 .. N * L : Cell(table, s[k]) = Cell(table, c)}
    BY <1>4
  <2>2. \A k \in 1 .. N * L : Cell(table, s[k]) = Cell(table, c) => s[k] = c
    BY <1>2 DEF Counted
  <2> HIDE DEF H, s, c
  <2> QED BY <2>1, <2>2
<1>6. N * L \in Nat
  BY <1>1, <1>3
<1> HIDE DEF H, box
<1>7. V = {v \in (1 .. N) \X (1 .. L) : Vote(points[v[1]], Circle[v[2]]) = c}
  BY <1>1, <1>3
<1> HIDE DEF V, s, c
<1>8. ASSUME NEW k \in H
      PROVE  <<Nth(k), Kth(k)>> \in V
  <2>1. k \in 1 .. N * L /\ s[k] = c
    BY <1>5
  <2>2. Nth(k) \in 1 .. N /\ Kth(k) \in 1 .. L
    BY <1>1, <2>1, NthKth
  <2>3. Vote(points[Nth(k)], Circle[Kth(k)]) = c
    BY <1>2, <2>1
  <2> QED BY <1>7, <2>2, <2>3
<1>9. f \in Injection(H, V)
  <2>1. f \in [H -> V]
    BY <1>8
  <2>2. ASSUME NEW k \in H, NEW j \in H, f[k] = f[j]
        PROVE  k = j
    <3>1. Nth(k) = Nth(j) /\ Kth(k) = Kth(j)
      BY <2>2
    <3>2. k \in 1 .. N * L /\ j \in 1 .. N * L
      BY <1>5
    <3>3. k = (Nth(k) - 1) * L + Kth(k) /\ j = (Nth(j) - 1) * L + Kth(j)
      BY <1>1, <3>2, NthKth
    <3> QED BY <3>1, <3>3
  <2> HIDE DEF f
  <2> QED BY <2>1, <2>2 DEF Injection, IsInjective
<1>10. f \in Surjection(H, V)
  <2>1. f \in [H -> V]
    BY <1>8
  <2>2. ASSUME NEW v \in V
        PROVE  \E k \in H : f[k] = v
    <3>1. /\ v[1] \in 1 .. N /\ v[2] \in 1 .. L /\ v = <<v[1], v[2]>>
          /\ Vote(points[v[1]], Circle[v[2]]) = c
      BY <1>7
    <3> DEFINE i == v[1]
               j == v[2]
               k == (i - 1) * L + j
    <3>2. k \in 1 .. N * L /\ Nth(k) = i /\ Kth(k) = j
      BY <1>1, <3>1, NthKth
    <3> HIDE DEF i, j, k
    <3>3. s[k] = c
      BY <1>2, <3>1, <3>2 DEF i, j
    <3>4. k \in H
      BY <1>5, <3>2, <3>3
    <3>5. f[k] = <<i, j>>
      BY <3>2, <3>4
    <3> QED BY <3>1, <3>4, <3>5 DEF i, j
  <2> HIDE DEF f
  <2> QED BY <2>1, <2>2 DEF Surjection
<1>11. IsFiniteSet(H)
  <2>1. IsFiniteSet(1 .. N * L)
    <3>1. 1 \in Int /\ N * L \in Int
      BY <1>6
    <3> QED BY <3>1, FS_Interval
  <2>2. H \in SUBSET (1 .. N * L)
    BY <1>5
  <2> QED BY <2>1, <2>2, FS_Subset
<1>12. Cardinality(V) = Cardinality(H)
  <2>1. ExistsBijection(H, V)
    BY <1>9, <1>10 DEF ExistsBijection, Bijection
  <2> QED BY <1>11, <2>1, FS_Bijection
<1> QED BY <1>12 DEF Hits, Votes, H, V, box, c, s

-----------------------------------------------------------------------------
(***************************************************************************)
(* The arcs that are found.                                                *)
(***************************************************************************)
LEMMA CellParts ==
  ASSUME NEW A \in Nat \ {0}, NEW r \in Nat, NEW p \in 0 .. A - 1
  PROVE  (r * A + p) \div A = r /\ (r * A + p) % A = p
<1> DEFINE n == r * A + p
           q == n \div A
           s == n % A
<1>1. r * A \in Nat /\ n \in Nat
  OBVIOUS
<1>2. q \in Nat /\ s \in 0 .. A - 1 /\ n = A * q + s
  BY <1>1
<1>3. A * q = q * A /\ q * A \in Int
  BY <1>2
<1> HIDE DEF q, s
<1>4. r * A + p = q * A + s
  BY <1>1, <1>2, <1>3
<1>5. p - s < A /\ s - p < A
  BY <1>2
<1>6. p = s /\ r = q
  <2>1. p \in Int /\ s \in Int /\ r \in Int /\ q \in Int
    BY <1>2
  <2> QED BY <1>4, <1>5, <2>1, RowsApart
<1> QED BY <1>6 DEF q, s

LEMMA BoxIs ==
  ASSUME NEW points \in Arrays, NEW table
  PROVE  /\ DOMAIN VoteBox(points, table) = 1 .. Len(Centres(points))
         /\ \A n \in 1 .. Len(Centres(points)) :
              VoteBox(points, table)[n] = Cell(table, Centres(points)[n])
         /\ Len(Centres(points)) \in Nat \ {0}
<1>1. DOMAIN Centres(points) = 1 .. Len(Centres(points)) /\ Len(Centres(points)) \in Nat \ {0}
  BY CentresAre, LenProperties
<1> QED BY <1>1 DEF VoteBox

\* The winner is the cell of a centre, the nth, and in the table; no centre in
\* the table has more votes.
Elected(points, table, n) ==
  LET centres == Centres(points)
  IN  /\ n \in 1 .. Len(centres)
      /\ Winner(VoteBox(points, table), table) = Cell(table, centres[n])
      /\ Cell(table, centres[n]) < Size(table)
      /\ \A m \in 1 .. Len(centres) :
           Cell(table, centres[m]) < Size(table) =>
             Votes(points, centres[m]) <= Votes(points, centres[n])

LEMMA ElectedIs ==
  ASSUME NEW points \in Arrays, NEW table,
         Apart(table, Centres(points)), Counted(table, Centres(points))
  PROVE  \E n : Elected(points, table, n)
<1> DEFINE s == Centres(points)
           N == Len(s)
           box == VoteBox(points, table)
           cell == Winner(box, table)
<1>1. /\ DOMAIN box = 1 .. N /\ N \in Nat \ {0}
      /\ \A n \in 1 .. N : box[n] = Cell(table, s[n])
  BY BoxIs
<1>2. Size(table) \in Int
  BY DEF Size, Apart
<1>3. ASSUME NEW n \in 1 .. N, Cell(table, s[n]) < Size(table)
      PROVE  Cell(table, s[n]) \in Range(box) \cap 0 .. Size(table) - 1
  <2>1. Cell(table, s[n]) \in Nat
    BY DEF Counted
  <2>2. Cell(table, s[n]) \in Range(box)
    <3> HIDE DEF box, N, s
    <3> QED BY <1>1 DEF Range
  <2> QED BY <1>2, <1>3, <2>1, <2>2
<1>4. Range(box) \cap 0 .. Size(table) - 1 # {}
  <2>1. 1 \in 1 .. N
    BY <1>1
  <2>2. Cell(table, s[1]) < Size(table)
    BY <2>1 DEF Apart, Counted
  <2> QED BY <1>3, <2>1, <2>2
<1> HIDE DEF s, N, box
<1>5. Won(cell, box, table)
  BY <1>1, <1>4, WinnerIs
<1>6. PICK n \in 1 .. N : cell = Cell(table, s[n])
  <2>1. cell \in Range(box)
    BY <1>5 DEF Won
  <2>2. PICK n \in 1 .. N : cell = box[n]
    BY <1>1, <2>1 DEF Range
  <2> QED BY <1>1, <2>2
<1> HIDE DEF cell
<1>7. Cell(table, s[n]) < Size(table)
  BY <1>2, <1>5, <1>6 DEF Won
<1>8. ASSUME NEW m \in 1 .. N, Cell(table, s[m]) < Size(table)
      PROVE  Votes(points, s[m]) <= Votes(points, s[n])
  <2>1. Hits(box, Cell(table, s[m])) <= Hits(box, cell)
    BY <1>3, <1>5, <1>8 DEF Won
  <2>2. Hits(box, Cell(table, s[m])) = Votes(points, s[m])
    BY HitsAreVotes DEF box, s, N
  <2>3. Hits(box, Cell(table, s[n])) = Votes(points, s[n])
    BY HitsAreVotes DEF box, s, N
  <2> QED BY <1>6, <2>1, <2>2, <2>3
<1>9. Elected(points, table, n)
  BY <1>6, <1>7, <1>8 DEF Elected, s, N, box, cell
<1> QED BY <1>9

LEMMA NarrowArc ==
  ASSUME NEW points \in Arrays, HoughArc(points) # NoArc, NEW c \in Range(Centres(points))
  PROVE  Votes(points, c) <= Votes(points, HoughArc(points))
<1> DEFINE s == Centres(points)
           table == Table(points, 0, 0)
           A == table.aScale
<1>1. Apart(table, s) /\ Counted(table, s)
  BY TablesCount
<1>2. table.window = 0
  BY DEF Table
<1>3. HoughArc(points) = CentreOf(table, Winner(VoteBox(points, table), table))
  BY DEF HoughArc
<1> HIDE DEF table
<1>4. PICK n : Elected(points, table, n)
  BY <1>1, ElectedIs
<1>5. /\ n \in 1 .. Len(s) /\ Winner(VoteBox(points, table), table) = Cell(table, s[n])
      /\ \A m \in 1 .. Len(s) :
           Cell(table, s[m]) < Size(table) => Votes(points, s[m]) <= Votes(points, s[n])
  BY <1>4 DEF Elected
<1>6. s \in Seq(Span \X Span) /\ DOMAIN s = 1 .. Len(s)
  BY CentresAre, LenProperties
<1> HIDE DEF s
<1>7. s[n] = <<s[n][1], s[n][2]>> /\ s[n][1] \in Int /\ s[n][2] \in Int
  BY <1>5, <1>6, SpanIsInt
<1>8. /\ Column(table, s[n]) \in 0 .. A - 1 /\ Row(table, s[n]) \in Nat /\ A \in Nat \ {0}
      /\ table.minA \in Int /\ table.minB \in Int
      /\ Cell(table, s[n]) = Row(table, s[n]) * A + Column(table, s[n])
      /\ Column(table, s[n]) = s[n][1] - table.minA /\ Row(table, s[n]) = s[n][2] - table.minB
  <2>1. /\ Column(table, s[n]) \in 0 .. 0 + A - 1 /\ A \in Nat \ {0}
        /\ table.minA \in Int /\ table.minB \in Int
    BY <1>1, <1>2, <1>5 DEF Apart
  <2>2. Row(table, s[n]) \in Nat /\ Cell(table, s[n]) = Row(table, s[n]) * A + Column(table, s[n])
    BY <1>1, <1>5 DEF Counted
  <2>3. /\ Column(table, s[n]) = s[n][1] + 0 - table.minA
        /\ Row(table, s[n]) = s[n][2] + 0 - table.minB
    BY <1>2 DEF Column, Row
  <2> QED BY <1>7, <2>1, <2>2, <2>3
<1>9. HoughArc(points) = s[n]
  <2>1. /\ Cell(table, s[n]) \div A = Row(table, s[n])
        /\ Cell(table, s[n]) % A = Column(table, s[n])
    BY <1>8, CellParts
  <2>2. HoughArc(points) = <<table.minA + Column(table, s[n]), table.minB + Row(table, s[n])>>
    BY <1>3, <1>5, <2>1 DEF CentreOf
  <2>3. table.minA + Column(table, s[n]) = s[n][1] /\ table.minB + Row(table, s[n]) = s[n][2]
    BY <1>7, <1>8
  <2> QED BY <1>7, <2>2, <2>3
<1>10. PICK m \in 1 .. Len(s) : c = s[m]
  BY <1>6 DEF Range, s
<1>11. Cell(table, s[m]) < Size(table)
  <2>1. Column(table, s[m]) \in 0 .. 0 + A - 1 /\ A \in Nat
    BY <1>1, <1>2 DEF Apart
  <2>2. Column(table, s[m]) < A
    BY <2>1
  <2> QED BY <1>1, <2>2 DEF Counted
<1> QED BY <1>5, <1>9, <1>10, <1>11

\* arc is that of a centre in the table than which none has more votes, moved
\* by half a window, and a row further on if its column runs over.
ArcOf(arc, points) ==
  LET table == Table(points, 1, halfWindow)
      centres == {c \in Range(Centres(points)) : Cell(table, c) < Size(table)}
      RunsOver(c) == c[1] + halfWindow - table.minA >= table.aScale
  IN  \E c \in centres :
        /\ \A d \in centres : Votes(points, d) <= Votes(points, c)
        /\ arc = IF RunsOver(c)
                 THEN <<c[1] + halfWindow - table.aScale, c[2] + halfWindow + 1>>
                 ELSE <<c[1] + halfWindow, c[2] + halfWindow>>

ArcSet == (-Widest .. Widest) \X (-Widest .. Widest)

LEMMA WideArc ==
  ASSUME NEW points \in Arrays, HoughArc2(points) # NoArc
  PROVE  ArcOf(HoughArc2(points), points) /\ HoughArc2(points) \in ArcSet
<1> DEFINE s == Centres(points)
           table == Table(points, 1, halfWindow)
           A == table.aScale
           B == table.bScale
           w == halfWindow
           arc == HoughArc2(points)
<1>1. Apart(table, s) /\ Counted(table, s)
  BY TablesCount
<1>2. table.window = w
  BY DEF Table
<1>3. arc = CentreOf(table, Winner(VoteBox(points, table), table))
  BY Zenon DEF HoughArc2
<1> HIDE DEF table, arc
<1>4. PICK n : Elected(points, table, n)
  BY <1>1, ElectedIs
<1>5. /\ n \in 1 .. Len(s) /\ Winner(VoteBox(points, table), table) = Cell(table, s[n])
      /\ Cell(table, s[n]) < Size(table)
      /\ \A m \in 1 .. Len(s) :
           Cell(table, s[m]) < Size(table) => Votes(points, s[m]) <= Votes(points, s[n])
  BY <1>4 DEF Elected
<1>6. s \in Seq(Span \X Span) /\ DOMAIN s = 1 .. Len(s)
  BY CentresAre, LenProperties
<1> HIDE DEF s
<1> DEFINE x == s[n][1]
           y == s[n][2]
           p == Column(table, s[n])
           r == Row(table, s[n])
           a == table.minA
           b == table.minB
           cell == Cell(table, s[n])
<1>7. x \in Int /\ y \in Int
  BY <1>5, <1>6, SpanIsInt
<1>8. /\ p \in w .. w + A - 1 /\ r \in 0 .. B - 1 /\ A \in Nat \ {0} /\ B \in Nat \ {0}
      /\ a \in Int /\ b \in Int /\ w < A /\ w \in Nat
      /\ -Widest <= a /\ a + A - 1 <= Widest /\ -Widest <= b /\ b + B - 1 <= Widest
  BY <1>1, <1>2, <1>5, ConstantsAre DEF Apart
<1>9. cell = r * A + p /\ p = x + w - a /\ r = y + w - b /\ cell < A * B
  <2>1. cell = r * A + p
    BY <1>1, <1>5 DEF Counted
  <2> QED BY <1>2, <1>5, <2>1 DEF Column, Row, Size
<1>10. arc = <<a + (cell % A), b + (cell \div A)>>
  BY <1>3, <1>5 DEF CentreOf
<1>11. /\ arc = IF p >= A THEN <<x + w - A, y + w + 1>> ELSE <<x + w, y + w>>
       /\ arc[1] \in -Widest .. Widest /\ arc[2] \in -Widest .. Widest
  <2>0. Widest \in Nat
    BY ConstantsAre DEF Widest
  <2> HIDE DEF x, y, p, r, a, b, cell, A, B, w
  <2>1. CASE p < A
    <3>1. r \in Nat /\ p \in 0 .. A - 1
      BY <1>8, <2>1
    <3>2. cell \div A = r /\ cell % A = p
      BY <1>8, <1>9, <3>1, CellParts
    <3>3. a + p = x + w /\ b + r = y + w
      BY <1>7, <1>8, <1>9
    <3>4. a + p \in -Widest .. Widest /\ b + r \in -Widest .. Widest
      BY <2>0, <1>8, <3>1
    <3>5. arc = <<a + p, b + r>>
      BY <1>10, <3>2
    <3>6. arc = <<x + w, y + w>>
      BY <3>3, <3>5
    <3>7. arc[1] = a + p /\ arc[2] = b + r
      BY <3>5
    <3>8. ~(p >= A)
      BY <1>8, <2>1
    <3> QED BY <3>4, <3>6, <3>7, <3>8
  <2>2. CASE ~(p < A)
    <3>1. r + 1 \in Nat /\ p - A \in 0 .. A - 1 /\ p >= A
      BY <1>8, <2>2
    <3>2. cell = (r + 1) * A + (p - A)
      <4>1. (r + 1) * A = r * A + A /\ r * A \in Int
        BY <1>8
      <4> QED BY <1>8, <1>9, <4>1
    <3>3. cell \div A = r + 1 /\ cell % A = p - A
      BY <1>8, <3>1, <3>2, CellParts
    <3>4. a + (p - A) = x + w - A /\ b + (r + 1) = y + w + 1
      BY <1>7, <1>8, <1>9
    <3>5. r + 1 < B
      <4>1. CASE r + 1 >= B
        <5>1. B * A <= (r + 1) * A /\ B * A = A * B /\ A * B \in Int /\ (r + 1) * A \in Int
          BY <1>8, <4>1, Times
        <5> QED BY <1>8, <1>9, <3>1, <3>2, <5>1
      <4> QED BY <1>8, <4>1
    <3>6. a + (p - A) \in -Widest .. Widest /\ b + (r + 1) \in -Widest .. Widest
      BY <2>0, <1>8, <3>1, <3>5
    <3>7. arc = <<a + (p - A), b + (r + 1)>>
      BY <1>10, <3>3
    <3>8. arc = <<x + w - A, y + w + 1>>
      BY <3>4, <3>7
    <3>9. arc[1] = a + (p - A) /\ arc[2] = b + (r + 1)
      BY <3>7
    <3> QED BY <3>1, <3>6, <3>8, <3>9
  <2> QED BY <2>1, <2>2
<1>12. arc \in ArcSet
  <2> HIDE DEF x, y, p, A, w
  <2>1. arc = <<arc[1], arc[2]>>
    BY <1>11
  <2> QED BY <1>11, <2>1 DEF ArcSet
<1>13. ArcOf(arc, points)
  <2> DEFINE centres == {c \in Range(s) : Cell(table, c) < Size(table)}
  <2>1. s[n] \in centres
    BY <1>5, <1>6 DEF Range
  <2>2. ASSUME NEW d \in centres
        PROVE  Votes(points, d) <= Votes(points, s[n])
    <3>1. PICK m \in 1 .. Len(s) : d = s[m]
      BY <1>6 DEF Range
    <3> QED BY <1>5, <3>1
  <2>3. p = x + w - a
    BY <1>9
  <2>4. \E c \in centres :
          /\ \A d \in centres : Votes(points, d) <= Votes(points, c)
          /\ arc = IF c[1] + w - a >= A THEN <<c[1] + w - A, c[2] + w + 1>>
                   ELSE <<c[1] + w, c[2] + w>>
    <3>1. arc = IF x + w - a >= A THEN <<x + w - A, y + w + 1>> ELSE <<x + w, y + w>>
      BY <1>11, <2>3
    <3> HIDE DEF centres
    <3> QED BY <2>1, <2>2, <3>1
  <2> QED BY <2>4 DEF ArcOf, s, table
<1> QED BY <1>12, <1>13 DEF arc

\* What is found are arcs of the arrays.
Found(arrays) == {HoughArc2(points) : points \in Range(arrays)} \ {NoArc}

LEMMA ArcsAreFound ==
  ASSUME NEW arrays \in Seq(Arrays)
  PROVE  Arcs(arrays) \in Seq(Found(arrays))
<1> DEFINE n == Len(arrays)
           D == Seq(Found(arrays))
           Push(list, points) == LET arc == HoughArc2(points)
                                 IN  IF arc = NoArc THEN list ELSE Append(list, arc)
           step == [p \in D \X (1 .. n) |-> Push(p[1], arrays[p[2]])]
           Eq(g) == g = [u \in SUBSET DOMAIN arrays |->
                           IF u = {} THEN <<>> ELSE Push(g[u \ {Max(u)}], arrays[Max(u)])]
           iter == CHOOSE g : Eq(g)
<1>1. n \in Nat /\ DOMAIN arrays = 1 .. n /\ <<>> \in D
  BY LenProperties, EmptySeq
<1>2. ASSUME NEW d \in D, NEW i \in 1 .. n
      PROVE  Push(d, arrays[i]) \in D
  <2> DEFINE arc == HoughArc2(arrays[i])
  <2>1. arrays[i] \in Range(arrays)
    BY <1>1 DEF Range
  <2>2. arc # NoArc => arc \in Found(arrays)
    BY <2>1 DEF Found
  <2> HIDE DEF arc
  <2>3. (IF arc = NoArc THEN d ELSE Append(d, arc)) \in D
    BY <2>2, AppendProperties
  <2> QED BY <2>3 DEF arc
<1>3. /\ step \in [D \X (1 .. n) -> D]
      /\ \A d \in D, i \in 1 .. n : step[<<d, i>>] = Push(d, arrays[i])
  <2> HIDE DEF Push, n, D
  <2> QED BY <1>2
<1> HIDE DEF Push, step, n, D
<1>4. PICK f \in [SUBSET (1 .. n) -> D] : Folds1(f, n, <<>>, step)
  BY <1>1, <1>3, FoldExists
<1>5. Eq(f)
  <2>1. ASSUME NEW u \in SUBSET (1 .. n)
        PROVE  f[u] = IF u = {} THEN <<>> ELSE Push(f[u \ {Max(u)}], arrays[Max(u)])
    <3>1. u # {} => Max(u) \in 1 .. n /\ u \ {Max(u)} \in SUBSET (1 .. n)
      BY <1>1, MaxIs
    <3>2. f[u] = IF u = {} THEN <<>> ELSE step[<<f[u \ {Max(u)}], Max(u)>>]
      BY <1>4 DEF Folds1
    <3> QED BY <1>3, <1>4, <3>1, <3>2
  <2> QED BY <1>1, <1>4, <2>1
<1>6. Eq(iter)
  <2> HIDE DEF Eq
  <2> QED BY <1>5
<1>7. Arcs(arrays) = iter[1 .. n]
  BY <1>1 DEF Arcs, FoldLeft, MapThenFoldSet, Push
<1> HIDE DEF iter
<1>8. /\ iter[{}] = <<>>
      /\ \A i \in 1 .. n : iter[1 .. i] = Push(iter[1 .. i - 1], arrays[i])
  <2>1. iter[{}] = <<>>
    BY <1>6
  <2>2. ASSUME NEW i \in 1 .. n
        PROVE  iter[1 .. i] = Push(iter[1 .. i - 1], arrays[i])
    <3>1. /\ Max(1 .. i) = i /\ (1 .. i) \ {i} = 1 .. i - 1
          /\ 1 .. i # {} /\ 1 .. i \in SUBSET DOMAIN arrays
      BY <1>1, MaxOfFirst
    <3> QED BY <1>6, <3>1
  <2> QED BY <2>1, <2>2
<1>9. PICK h : Loops(h, n, D, <<>>, step, iter[1 .. n])
  <2>1. Follows(iter, n, D, <<>>, step)
    BY <1>3, <1>8 DEF Follows
  <2> QED BY <1>1, <1>3, <2>1, LoopIs
<1>10. n \in 0 .. n /\ h \in [0 .. n -> D] /\ h[n] = iter[1 .. n]
  BY <1>1, <1>9 DEF Loops
<1> QED BY <1>7, <1>10 DEF D

LEMMA FoundAre ==
  ASSUME NEW arrays \in Seq(Arrays), NEW arc \in Found(arrays)
  PROVE  arc \in ArcSet /\ \E points \in Range(arrays) : ArcOf(arc, points)
<1>1. PICK points \in Range(arrays) : arc = HoughArc2(points) /\ arc # NoArc
  BY DEF Found
<1>2. points \in Arrays
  <2>1. PICK i \in DOMAIN arrays : points = arrays[i]
    BY DEF Range
  <2> QED BY <2>1
<1> QED BY <1>1, <1>2, WideArc

LEMMA HeldMostVotes ==
  ASSUME PiecesHeld
  PROVE  CentreOfMostVotes
<1> SUFFICES ASSUME phase = "fitted"
             PROVE  /\ \A points \in Range(fits) :
                         HoughArc(points) # NoArc =>
                           \A c \in Range(Centres(points)) :
                             Votes(points, c) <= Votes(points, HoughArc(points))
                    /\ \A arc \in Range(FittedArc) : \E points \in Range(fits) : ArcOf(arc, points)
  BY DEF CentreOfMostVotes, ArcOf
<1>1. fits \in Seq(Arrays) /\ FittedArc = Arcs(fits)
  BY FitsAreArrays
<1>2. ASSUME NEW points \in Range(fits)
      PROVE  points \in Arrays
  <2>1. PICK i \in DOMAIN fits : points = fits[i]
    BY DEF Range
  <2> QED BY <1>1, <2>1
<1>3. ASSUME NEW arc \in Range(FittedArc)
      PROVE  arc \in Found(fits)
  <2>1. FittedArc \in Seq(Found(fits))
    BY <1>1, ArcsAreFound
  <2>2. PICK i \in DOMAIN FittedArc : arc = FittedArc[i]
    BY DEF Range
  <2> QED BY <2>1, <2>2
<1> QED BY <1>1, <1>2, <1>3, NarrowArc, FoundAre

\* No centre has more votes than the one HoughArc finds, and HoughArc2's is of
\* such a centre too.
THEOREM MostVotesAlways == Spec => []CentreOfMostVotes
<1>1. Init => ScanHeld /\ PiecesHeld
  BY ScanHeldInit, PiecesHeldInit
<1>2. ScanHeld /\ PiecesHeld /\ [Next]_vars => ScanHeld' /\ PiecesHeld'
  BY ScanHeldStep, PiecesHeldStep
<1>3. PiecesHeld => CentreOfMostVotes
  BY HeldMostVotes
<1> QED BY <1>1, <1>2, <1>3, PTL DEF Spec

-----------------------------------------------------------------------------
(***************************************************************************)
(* The frames.                                                             *)
(***************************************************************************)
Words(arc) == Word(arc[1]) \o Word(arc[2]) \o FloatWord(Quotient(arc[1], arc[2]))

Int32 == {n \in Int : -2147483648 <= n /\ n < 2147483648}

SignedWord(w) ==
  w[1] + 256 * w[2] + 65536 * w[3] + 16777216 * (IF w[4] > 127 THEN w[4] - 256 ELSE w[4])

\* A division twice is one by the square.
LEMMA Halved ==
  ASSUME NEW n \in Int
  PROVE  /\ n = 256 * (n \div 256) + (n % 256)
         /\ n \div 256 = 256 * (n \div 65536) + ((n \div 256) % 256)
         /\ n \div 65536 = 256 * (n \div 16777216) + ((n \div 65536) % 256)
<1>1. n = 256 * (n \div 256) + (n % 256)
  BY SMT
<1>2. n \div 256 = 256 * (n \div 65536) + ((n \div 256) % 256)
  BY SMT
<1>3. n \div 65536 = 256 * (n \div 16777216) + ((n \div 65536) % 256)
  BY SMT
<1> QED BY <1>1, <1>2, <1>3

LEMMA TopByte ==
  ASSUME NEW n \in Int32
  PROVE  /\ n \in Int
         /\ n \div 16777216 \in -128 .. 127
<1>1. n \in Int
  BY SMT DEF Int32
<1>2. n \div 16777216 \in -128 .. 127
  BY SMT DEF Int32
<1> QED BY <1>1, <1>2

LEMMA WordIs ==
  ASSUME NEW n \in Int32
  PROVE  SignedWord(Word(n)) = n
<1> DEFINE p == n \div 256
           q == n \div 65536
           top == n \div 16777216
           a == n % 256
           b == p % 256
           c == q % 256
           d == top % 256
<1>1. n \in Int /\ n = 256 * p + a /\ p = 256 * q + b /\ q = 256 * top + c
  BY TopByte, Halved
<1>2. p \in Int /\ q \in Int /\ top \in -128 .. 127
  BY <1>1, TopByte, SMT
<1>3. Word(n) = <<a, b, c, d>>
  BY DEF Word
<1>4. a \in Int /\ b \in Int /\ c \in Int
  <2> HIDE DEF p, q
  <2> QED BY <1>1, <1>2
<1>5. (IF d > 127 THEN d - 256 ELSE d) = top
  <2> HIDE DEF top
  <2> QED BY <1>2
<1>6. SignedWord(Word(n)) = a + 256 * b + 65536 * c + 16777216 * top
  <2> HIDE DEF a, b, c, d, top
  <2> QED BY <1>3, <1>5, SMT DEF SignedWord
<1> HIDE DEF p, q, top, a, b, c, d
<1> QED BY <1>1, <1>2, <1>4, <1>6, SMT

\* Four bytes each
LEMMA FourBytes ==
  ASSUME NEW n
  PROVE  /\ Word(n) = <<Word(n)[1], Word(n)[2], Word(n)[3], Word(n)[4]>>
         /\ FloatWord(n) = <<FloatWord(n)[1], FloatWord(n)[2], FloatWord(n)[3], FloatWord(n)[4]>>
<1>1. ASSUME NEW m
      PROVE  Word(m) = <<Word(m)[1], Word(m)[2], Word(m)[3], Word(m)[4]>>
  BY DEF Word
<1>2. CASE n = 0
  <2>1. FloatWord(n) = Word(0)
    BY <1>2 DEF FloatWord
  <2> QED BY <1>1, <2>1
<1>3. CASE n # 0
  <2> DEFINE size == Absolute(n)
             e == CHOOSE k \in 0 .. 23 : 2 ^ k <= size /\ size < 2 ^ (k + 1)
             fraction == size * 2 ^ (23 - e) - 2 ^ 23
             a == fraction % 256
             b == (fraction \div 256) % 256
             c == 128 * ((127 + e) % 2) + fraction \div 65536
             d == (IF n < 0 THEN 128 ELSE 0) + (127 + e) \div 2
  <2>1. FloatWord(n) = <<a, b, c, d>>
    BY <1>3 DEF FloatWord
  <2> HIDE DEF a, b, c, d
  <2> QED BY <1>1, <2>1
<1> QED BY <1>2, <1>3

LEMMA FourOf ==
  ASSUME NEW S, NEW s, s = <<s[1], s[2], s[3], s[4]>>,
         s[1] \in S, s[2] \in S, s[3] \in S, s[4] \in S
  PROVE  s \in Seq(S) /\ Len(s) = 4
<1>1. ASSUME NEW a \in S, NEW b \in S, NEW c \in S, NEW d \in S
      PROVE  <<a, b, c, d>> \in Seq(S) /\ Len(<<a, b, c, d>>) = 4
  OBVIOUS
<1>2. <<s[1], s[2], s[3], s[4]>> \in Seq(S) /\ Len(<<s[1], s[2], s[3], s[4]>>) = 4
  BY <1>1, Zenon
<1> QED BY <1>2, Zenon

\* The parts of sixteen bytes
Parts(frame, h, u, v, w) ==
  /\ SubSeq(frame, 5, 16) = u \o v \o w
  /\ SubSeq(frame, 5, 8) = u /\ SubSeq(frame, 9, 12) = v
  /\ frame[3] = h[3] /\ frame[4] = h[4]

LEMMA FrameParts ==
  ASSUME NEW S, NEW h \in Seq(S), NEW u \in Seq(S), NEW v \in Seq(S), NEW w \in Seq(S),
         Len(h) = 4, Len(u) = 4, Len(v) = 4, Len(w) = 4
  PROVE  Parts(h \o (u \o v \o w), h, u, v, w)
<1> DEFINE uv == u \o v
           rest == uv \o w
           frame == h \o rest
<1>1. /\ uv \in Seq(S) /\ Len(uv) = 8
      /\ \A i \in 1 .. 8 : uv[i] = IF i <= 4 THEN u[i] ELSE v[i - 4]
  <2>1. uv \in Seq(S) /\ Len(uv) = Len(u) + Len(v)
    BY ConcatProperties, Zenon
  <2>2. \A i \in 1 .. Len(u) + Len(v) : uv[i] = IF i <= Len(u) THEN u[i] ELSE v[i - Len(u)]
    BY ConcatProperties, Zenon
  <2>3. Len(u) + Len(v) = 8
    OBVIOUS
  <2> HIDE DEF uv
  <2> QED BY <2>1, <2>2, <2>3
<1> HIDE DEF uv
<1>2. /\ rest \in Seq(S) /\ Len(rest) = 12
      /\ \A i \in 1 .. 12 : rest[i] = IF i <= 8 THEN uv[i] ELSE w[i - 8]
  <2>1. rest \in Seq(S) /\ Len(rest) = Len(uv) + Len(w)
    BY <1>1, ConcatProperties, Zenon
  <2>2. \A i \in 1 .. Len(uv) + Len(w) : rest[i] = IF i <= Len(uv) THEN uv[i] ELSE w[i - Len(uv)]
    BY <1>1, ConcatProperties, Zenon
  <2>3. Len(uv) + Len(w) = 12
    BY <1>1
  <2> HIDE DEF rest
  <2> QED BY <1>1, <2>1, <2>2, <2>3
<1> HIDE DEF rest
<1>3. /\ frame \in Seq(S) /\ Len(frame) = 16
      /\ \A i \in 1 .. 16 : frame[i] = IF i <= 4 THEN h[i] ELSE rest[i - 4]
  <2>1. frame \in Seq(S) /\ Len(frame) = Len(h) + Len(rest)
    BY <1>2, ConcatProperties, Zenon
  <2>2. \A i \in 1 .. Len(h) + Len(rest) : frame[i] = IF i <= Len(h) THEN h[i] ELSE rest[i - Len(h)]
    BY <1>2, ConcatProperties, Zenon
  <2>3. Len(h) + Len(rest) = 16
    BY <1>2
  <2> HIDE DEF frame
  <2> QED BY <2>1, <2>2, <2>3
<1>4. frame = h \o (u \o v \o w)
  BY DEF frame, rest, uv
<1> HIDE DEF frame
<1>5. \A i \in 1 .. 16 : frame[i] \in S
  BY <1>3, ElementOfSeq
<1>6. SubSeq(frame, 5, 16) = rest
  <2>1. /\ SubSeq(frame, 5, 16) \in Seq(S) /\ Len(SubSeq(frame, 5, 16)) = 12
        /\ \A i \in 1 .. 12 : SubSeq(frame, 5, 16)[i] = frame[5 + i - 1]
    BY <1>5, SubSeqProperties
  <2>2. \A i \in 1 .. 12 : frame[5 + i - 1] = rest[i]
    BY <1>3
  <2> QED BY <1>2, <2>1, <2>2, SeqEqual
<1>7. SubSeq(frame, 5, 8) = u
  <2>1. /\ SubSeq(frame, 5, 8) \in Seq(S) /\ Len(SubSeq(frame, 5, 8)) = 4
        /\ \A i \in 1 .. 4 : SubSeq(frame, 5, 8)[i] = frame[5 + i - 1]
    BY <1>5, SubSeqProperties
  <2>2. \A i \in 1 .. 4 : frame[5 + i - 1] = u[i]
    BY <1>1, <1>2, <1>3
  <2> QED BY <2>1, <2>2, SeqEqual
<1>8. SubSeq(frame, 9, 12) = v
  <2>1. /\ SubSeq(frame, 9, 12) \in Seq(S) /\ Len(SubSeq(frame, 9, 12)) = 4
        /\ \A i \in 1 .. 4 : SubSeq(frame, 9, 12)[i] = frame[9 + i - 1]
    BY <1>5, SubSeqProperties
  <2>2. \A i \in 1 .. 4 : frame[9 + i - 1] = v[i]
    BY <1>1, <1>2, <1>3
  <2> QED BY <2>1, <2>2, SeqEqual
<1>9. frame[3] = h[3] /\ frame[4] = h[4]
  BY <1>3
<1>10. Parts(frame, h, u, v, w)
  BY <1>6, <1>7, <1>8, <1>9 DEF Parts, rest, uv
<1> QED BY <1>4, <1>10

FrameFor(i, arc) == <<221, 255, Flag(i), CheckSum(0, Words(arc))>> \o Words(arc)

\* What a receiver makes of a frame
Checks(frame, i, arc) ==
  /\ CheckSum(0, SubSeq(frame, 5, 16)) = frame[4]
  /\ (frame[3] = 1) = (i = 1)
  /\ SignedWord(SubSeq(frame, 5, 8)) = arc[1] /\ SignedWord(SubSeq(frame, 9, 12)) = arc[2]

LEMMA FrameForChecks ==
  ASSUME NEW i, NEW arc, arc[1] \in Int32, arc[2] \in Int32
  PROVE  Checks(FrameFor(i, arc), i, arc)
<1> DEFINE u == Word(arc[1])
           v == Word(arc[2])
           w == FloatWord(Quotient(arc[1], arc[2]))
           sum == CheckSum(0, Words(arc))
           h == <<221, 255, Flag(i), sum>>
           S == {221, 255, Flag(i), sum} \cup {u[1], u[2], u[3], u[4]}
                  \cup {v[1], v[2], v[3], v[4]} \cup {w[1], w[2], w[3], w[4]}
           frame == FrameFor(i, arc)
<1>1. /\ u = <<u[1], u[2], u[3], u[4]>> /\ v = <<v[1], v[2], v[3], v[4]>>
      /\ w = <<w[1], w[2], w[3], w[4]>>
  BY FourBytes
<1>2. SignedWord(u) = arc[1] /\ SignedWord(v) = arc[2]
  BY WordIs
<1>3. Words(arc) = u \o v \o w
  BY DEF Words
<1>4. frame = h \o (u \o v \o w)
  BY <1>3 DEF FrameFor
<1> HIDE DEF u, v, w, sum, frame
<1>5. u \in Seq(S) /\ v \in Seq(S) /\ w \in Seq(S) /\ Len(u) = 4 /\ Len(v) = 4 /\ Len(w) = 4
  <2>1. /\ u[1] \in S /\ u[2] \in S /\ u[3] \in S /\ u[4] \in S
        /\ v[1] \in S /\ v[2] \in S /\ v[3] \in S /\ v[4] \in S
        /\ w[1] \in S /\ w[2] \in S /\ w[3] \in S /\ w[4] \in S
    OBVIOUS
  <2> HIDE DEF S
  <2>2. u \in Seq(S) /\ Len(u) = 4
    BY <1>1, <2>1, FourOf, Zenon
  <2>3. v \in Seq(S) /\ Len(v) = 4
    BY <1>1, <2>1, FourOf, Zenon
  <2>4. w \in Seq(S) /\ Len(w) = 4
    BY <1>1, <2>1, FourOf, Zenon
  <2> QED BY <2>2, <2>3, <2>4
<1>6. h \in Seq(S) /\ Len(h) = 4 /\ h[3] = Flag(i) /\ h[4] = sum
  OBVIOUS
<1> HIDE DEF S, h
<1>7. Parts(frame, h, u, v, w)
  BY <1>4, <1>5, <1>6, FrameParts
<1>8. CheckSum(0, SubSeq(frame, 5, 16)) = sum
  BY <1>3, <1>7 DEF sum, Parts
<1>9. (Flag(i) = 1) = (i = 1)
  BY DEF Flag
<1>10. Checks(frame, i, arc)
  BY <1>2, <1>6, <1>7, <1>8, <1>9 DEF Checks, Parts
<1> QED BY <1>10 DEF frame

FrameSet == {FrameFor(i, arc) : i \in Nat, arc \in ArcSet}

\* What is sent, and what is about to be sent, is the frame for the arc of its
\* place.
FramesHeld ==
  /\ FittedArc \in Seq(ArcSet) /\ sent \in Seq(FrameSet)
  /\ phase \in {"fitted", "pushed"} => Len(sent) <= Len(FittedArc)
  /\ \A i \in 1 .. Len(sent) : i <= Len(FittedArc) /\ sent[i] = FrameFor(i, FittedArc[i])
  /\ phase \notin {"fitted", "pushed", "dead"} => sent = <<>>
  /\ phase = "pushed" =>
       /\ Len(sent) < Len(FittedArc)
       /\ pillar.sendchar = FrameFor(Len(sent) + 1, FittedArc[Len(sent) + 1])

LEMMA FramesHeldInit == Init => FramesHeld
<1> SUFFICES ASSUME Init
             PROVE  FramesHeld
  OBVIOUS
<1>1. phase = "start" /\ FittedArc = <<>> /\ sent = <<>>
  BY DEF Init
<1> QED BY <1>1 DEF FramesHeld

LEMMA FittedAre ==
  ASSUME PiecesHeld, FitArc
  PROVE  FittedArc' \in Seq(ArcSet)
<1> DEFINE r == BreakedRadarRho
           t == BreakedRadarTheta
           arrays == Pieces(r, t)
<1>1. phase = "drawn" /\ FittedArc' = Arcs(arrays)
  BY DEF FitArc
<1>2. arrays \in Seq(Arrays)
  <2>1. Seen(r, t)
    BY <1>1, BrokenSeen DEF PiecesHeld
  <2> QED BY <2>1, PiecesAreArrays
<1> HIDE DEF arrays
<1>3. Arcs(arrays) \in Seq(Found(arrays))
  BY <1>2, ArcsAreFound
<1>4. Found(arrays) \subseteq ArcSet
  BY <1>2, FoundAre
<1> QED BY <1>1, <1>3, <1>4, SeqMonotonic

LEMMA FramesHeldStep ==
  ASSUME PiecesHeld, FramesHeld, [Next]_vars
  PROVE  FramesHeld'
<1>0. /\ Len(sent) \in Nat /\ Len(FittedArc) \in Nat
      /\ \A i \in 1 .. Len(FittedArc) : FittedArc[i] \in ArcSet
  BY LenProperties, ElementOfSeq DEF FramesHeld
<1>1. CASE RadarRead
  BY <1>1 DEF RadarRead, FramesHeld
<1>2. CASE MedFilter
  BY <1>2 DEF MedFilter, FramesHeld, arcs, frames
<1>3. CASE BreakRadarRho
  BY <1>3 DEF BreakRadarRho, FramesHeld, arcs, frames
<1>4. CASE CreateRadarImage
  BY <1>4 DEF CreateRadarImage, FramesHeld, arcs, frames
<1>5. CASE FitArc
  <2>1. FittedArc' \in Seq(ArcSet)
    BY <1>5, FittedAre
  <2>2. sent' = <<>> /\ phase' = "fitted"
    BY <1>5 DEF FitArc, FramesHeld, frames
  <2>3. Len(FittedArc') \in Nat
    BY <2>1, LenProperties
  <2> QED BY <2>1, <2>2, <2>3 DEF FramesHeld
<1>6. CASE DFCOMPush
  <2> DEFINE i == Len(sent) + 1
             arc == FittedArc[i]
             sum == CheckSum(FirstSum(pillar.checksum), Words(arc))
  <2>1. phase = "fitted" /\ Len(sent) < Len(FittedArc) /\ sent' = sent /\ FittedArc' = FittedArc
    BY <1>6 DEF DFCOMPush, arcs
  <2>2. \/ phase' = "dead"
        \/ /\ phase' = "pushed"
           /\ pillar' = [checksum |-> sum, sendchar |-> <<221, 255, Flag(i), sum>> \o Words(arc)]
    BY <1>6 DEF DFCOMPush, Words
  <2>3. sum = CheckSum(0, Words(arc))
    BY DEF FirstSum
  <2>4. phase' = "pushed" => pillar'.sendchar = FrameFor(i, arc)
    BY <2>2, <2>3 DEF FrameFor
  <2> HIDE DEF sum
  <2> QED BY <1>0, <2>1, <2>2, <2>4 DEF FramesHeld
<1>7. CASE DFCOMPop
  <2> DEFINE i == Len(sent) + 1
             frame == FrameFor(i, FittedArc[i])
  <2>1. /\ phase = "pushed" /\ phase' = "fitted" /\ FittedArc' = FittedArc
        /\ sent' = Append(sent, frame) /\ Len(sent) < Len(FittedArc)
    BY <1>7 DEF DFCOMPop, arcs, FramesHeld
  <2>2. frame \in FrameSet
    <3>1. i \in Nat /\ i \in 1 .. Len(FittedArc)
      BY <1>0, <2>1
    <3> QED BY <1>0, <3>1 DEF FrameSet
  <2>3. sent \in Seq(FrameSet) /\ FittedArc \in Seq(ArcSet)
    BY DEF FramesHeld
  <2> HIDE DEF frame
  <2>4. sent' \in Seq(FrameSet) /\ Len(sent') = i /\ sent'[i] = frame
    BY <2>1, <2>2, <2>3, AppendProperties
  <2>5. \A k \in 1 .. Len(sent) : sent'[k] = sent[k]
    BY <2>1, <2>2, <2>3, AppendProperties
  <2>6. ASSUME NEW k \in 1 .. Len(sent')
        PROVE  k <= Len(FittedArc) /\ sent'[k] = FrameFor(k, FittedArc[k])
    <3>1. CASE k = i
      BY <1>0, <2>1, <2>4, <3>1 DEF frame
    <3>2. CASE k # i
      <4>1. k \in 1 .. Len(sent)
        BY <1>0, <2>4, <3>2
      <4> QED BY <2>5, <4>1 DEF FramesHeld
    <3> QED BY <3>1, <3>2
  <2>7. Len(sent') <= Len(FittedArc')
    BY <1>0, <2>1, <2>4
  <2> QED BY <2>1, <2>3, <2>4, <2>6, <2>7 DEF FramesHeld
<1>8. CASE CreateRadarImageself
  BY <1>8 DEF CreateRadarImageself, FramesHeld, arcs, frames
<1>9. CASE UNCHANGED vars
  BY <1>9 DEF vars, FramesHeld
<1> QED BY <1>1, <1>2, <1>3, <1>4, <1>5, <1>6, <1>7, <1>8, <1>9 DEF Next

LEMMA HeldFrameChecks ==
  ASSUME FramesHeld
  PROVE  FrameChecks
<1>1. Widest \in Nat /\ Widest <= IntMax
  <2>1. Far \in Nat /\ Radius \in Nat /\ halfWindow \in Nat
    BY ConstantsAre
  <2>2. Far + Radius + 1 + halfWindow <= IntMax
    BY PillarsAssumption, Zenon
  <2>3. IntMax \in Int
    BY SMT DEF IntMax
  <2> QED BY <2>1, <2>2, <2>3 DEF Widest
<1>2. ASSUME NEW x \in -Widest .. Widest
      PROVE  x \in Int32
  BY <1>1, SMT DEF Int32, IntMax
<1>3. ASSUME NEW i \in DOMAIN sent
      PROVE  /\ Checks(sent[i], i, FittedArc[i])
             /\ FittedArc[i] = <<FittedArc[i][1], FittedArc[i][2]>>
  <2>1. i \in 1 .. Len(sent)
    BY LenProperties DEF FramesHeld
  <2>2. sent[i] = FrameFor(i, FittedArc[i]) /\ i <= Len(FittedArc)
    BY <2>1 DEF FramesHeld
  <2>3. FittedArc[i] \in ArcSet
    <3>1. Len(FittedArc) \in Nat /\ Len(sent) \in Nat
      BY LenProperties DEF FramesHeld
    <3>2. i \in 1 .. Len(FittedArc)
      BY <2>1, <2>2, <3>1
    <3> QED BY <3>2, ElementOfSeq DEF FramesHeld
  <2>4. /\ FittedArc[i] = <<FittedArc[i][1], FittedArc[i][2]>>
        /\ FittedArc[i][1] \in Int32 /\ FittedArc[i][2] \in Int32
    BY <1>2, <2>3 DEF ArcSet
  <2> QED BY <2>2, <2>4, FrameForChecks
<1>4. Len(sent) <= Len(FittedArc) \/ phase \notin {"fitted", "pushed"}
  BY DEF FramesHeld
<1>5. ASSUME NEW i \in DOMAIN sent
      PROVE  /\ CheckSum(0, SubSeq(sent[i], 5, 16)) = sent[i][4]
             /\ (sent[i][3] = 1) = (i = 1)
             /\ <<SignedWord(SubSeq(sent[i], 5, 8)), SignedWord(SubSeq(sent[i], 9, 12))>> = FittedArc[i]
  BY <1>3 DEF Checks
<1> QED BY <1>4, <1>5 DEF FrameChecks, SignedWord

\* Every frame, whatever the scans, has the check sum of its words, the centre
\* of its arc, and the mark of the first only if it is the first.
THEOREM FramesAlwaysCheck == Spec => []FrameChecks
<1>1. Init => ScanHeld /\ PiecesHeld /\ FramesHeld
  BY ScanHeldInit, PiecesHeldInit, FramesHeldInit
<1>2. ScanHeld /\ PiecesHeld /\ FramesHeld /\ [Next]_vars => ScanHeld' /\ PiecesHeld' /\ FramesHeld'
  BY ScanHeldStep, PiecesHeldStep, FramesHeldStep
<1>3. FramesHeld => FrameChecks
  BY HeldFrameChecks
<1> QED BY <1>1, <1>2, <1>3, PTL DEF Spec

-----------------------------------------------------------------------------
(***************************************************************************)
(* Where the points of a scan stand in it when it is cut: L[k] is how many *)
(* values were pushed up to point k.                                       *)
(***************************************************************************)
Prefix(x, y) == Len(x) <= Len(y) /\ \A p \in 1 .. Len(x) : y[p] = x[p]

CutAt(L, s) ==
  /\ L \in [0 .. Len(s) -> Nat] /\ L[0] = 0
  /\ Len(Cut(s)) = L[Len(s)] + 1 /\ Cut(s)[L[Len(s)] + 1] = 0
  /\ \A k \in 1 .. Len(s) :
       /\ L[k] = IF Jumps(s, k) THEN L[k - 1] + 2 ELSE L[k - 1] + 1
       /\ L[k] <= L[Len(s)]
       /\ Cut(s)[L[k - 1] + 1] = k
       /\ Jumps(s, k) => Cut(s)[L[k - 1] + 2] = 0

Concats(w, x, y) ==
  /\ Len(w) = Len(x) + Len(y)
  /\ \A i \in 1 .. Len(x) + Len(y) : w[i] = IF i <= Len(x) THEN x[i] ELSE y[i - Len(x)]

LEMMA ConcatIs ==
  ASSUME NEW P, NEW x \in Seq(P), NEW y \in Seq(P)
  PROVE  Concats(x \o y, x, y)
<1>1. Len(x \o y) = Len(x) + Len(y)
  BY ConcatProperties, Zenon
<1>2. \A i \in 1 .. Len(x) + Len(y) :
        (x \o y)[i] = IF i <= Len(x) THEN x[i] ELSE y[i - Len(x)]
  BY ConcatProperties, Zenon
<1> QED BY <1>1, <1>2 DEF Concats

LEMMA PrefixConcat ==
  ASSUME NEW P, NEW x \in Seq(P), NEW y \in Seq(P), NEW z \in Seq(P), Prefix(x, y)
  PROVE  Prefix(x, y \o z)
<1> DEFINE w == y \o z
           m == Len(x)
           n == Len(y)
<1>1. Len(w) = n + Len(z) /\ \A i \in 1 .. n + Len(z) : w[i] = IF i <= n THEN y[i] ELSE z[i - n]
  BY ConcatProperties
<1>2. m \in Nat /\ n \in Nat /\ Len(z) \in Nat /\ m <= n /\ \A p \in 1 .. m : y[p] = x[p]
  BY LenProperties DEF Prefix
<1> HIDE DEF m, n, w
<1>3. m <= Len(w)
  BY <1>1, <1>2
<1>4. ASSUME NEW p \in 1 .. m
      PROVE  w[p] = x[p]
  <2>1. p \in 1 .. n + Len(z) /\ p <= n
    BY <1>2
  <2> QED BY <1>1, <1>2, <2>1
<1> QED BY <1>3, <1>4 DEF Prefix, m, w

LEMMA CutIs ==
  ASSUME NEW s \in Seq(Nat)
  PROVE  \E L : CutAt(L, s)
<1> DEFINE n == Len(s)
           P == 0 .. n
           c == Cut(s)
<1>1. n \in Nat /\ 0 \in P
  BY LenProperties
<1>2. Steps(s) \in Seq(P) /\ Len(Steps(s)) = n /\ \A k \in 1 .. n : Steps(s)[k] = k
  <2>1. DOMAIN s = 1 .. n
    BY LenProperties
  <2>2. Steps(s) = [k \in 1 .. n |-> k]
    BY <2>1 DEF Steps
  <2>3. \A k \in 1 .. n : k \in P
    BY <1>1
  <2> HIDE DEF n, P
  <2>4. Steps(s) \in [1 .. n -> P]
    BY <2>2, <2>3
  <2> QED BY <1>1, <2>2, <2>4
<1>3. PICK h : BrokenInTheEnd(h, s, Steps(s), 0, P)
  <2> HIDE DEF P
  <2> QED BY <1>1, <1>2, BrokenLoop
<1>4. /\ h \in [0 .. n -> Seq(P)] /\ h[0] = <<>> /\ c = h[n] \o <<0>>
      /\ \A k \in 1 .. n : h[k] = h[k - 1] \o Pushed(s, Steps(s), 0, k)
  BY <1>3 DEF BrokenSoFar, BrokenInTheEnd, Cut
<1> DEFINE q(k) == Pushed(s, Steps(s), 0, k)
<1>5. ASSUME NEW k \in 1 .. n
      PROVE  /\ q(k) = IF Jumps(s, k) THEN <<k, 0>> ELSE <<k>>
             /\ q(k) \in Seq(P)
  <2>1. Steps(s)[k] = k /\ k \in P
    BY <1>1, <1>2
  <2>2. q(k) = IF Jumps(s, k) THEN <<k, 0>> ELSE <<k>>
    BY <2>1 DEF Pushed
  <2>3. <<k, 0>> \in Seq(P) /\ <<k>> \in Seq(P)
    BY <1>1, <2>1
  <2> QED BY <2>2, <2>3
<1>6. <<0>> \in Seq(P)
  BY <1>1
<1> HIDE DEF n, P, c, q
<1> DEFINE Good == {k \in Nat : k <= n => \A j \in 0 .. k : Prefix(h[j], h[k])}
<1>7. ASSUME NEW x \in Seq(P)
      PROVE  Prefix(x, x)
  BY LenProperties DEF Prefix
<1>8. 0 \in Good
  <2>1. Prefix(h[0], h[0])
    BY <1>1, <1>4, <1>7
  <2> QED BY <2>1
<1>9. ASSUME NEW k \in Nat, k \in Good
      PROVE  k + 1 \in Good
  <2> SUFFICES ASSUME k + 1 <= n, NEW j \in 0 .. k + 1
               PROVE  Prefix(h[j], h[k + 1])
    OBVIOUS
  <2>1. /\ k + 1 \in 1 .. n /\ (k + 1) - 1 = k /\ k \in 0 .. n /\ k + 1 \in 0 .. n /\ j \in 0 .. n
    BY <1>1
  <2>2. CASE j = k + 1
    BY <1>4, <1>7, <2>1, <2>2
  <2>3. CASE j # k + 1
    <3>1. j \in 0 .. k /\ k <= n
      BY <2>1, <2>3
    <3>2. Prefix(h[j], h[k])
      BY <1>9, <3>1
    <3>3. h[j] \in Seq(P) /\ h[k] \in Seq(P) /\ q(k + 1) \in Seq(P)
      BY <1>4, <1>5, <2>1
    <3>4. h[k + 1] = h[k] \o q(k + 1)
      BY <1>4, <2>1 DEF q
    <3> QED BY <3>2, <3>3, <3>4, PrefixConcat
  <2> QED BY <2>2, <2>3
<1> HIDE DEF Good
<1>10. ASSUME NEW k \in 0 .. n
       PROVE  Prefix(h[k], h[n]) /\ Prefix(h[k], c)
  <2>1. n \in Good
    BY <1>1, <1>8, <1>9, Induction
  <2>2. Prefix(h[k], h[n])
    BY <1>1, <2>1 DEF Good
  <2>3. h[k] \in Seq(P) /\ h[n] \in Seq(P)
    BY <1>1, <1>4
  <2> QED BY <1>4, <1>6, <2>2, <2>3, PrefixConcat
<1> DEFINE L == [k \in 0 .. n |-> Len(h[k])]
<1>11. L \in [0 .. n -> Nat] /\ \A k \in 0 .. n : L[k] = Len(h[k])
  BY <1>4, LenProperties
<1>12. L[0] = 0
  BY <1>1, <1>4, <1>11
<1> HIDE DEF L
<1>13. Len(c) = L[n] + 1 /\ c[L[n] + 1] = 0
  <2>1. h[n] \in Seq(P) /\ L[n] = Len(h[n]) /\ L[n] \in Nat
    BY <1>1, <1>4, <1>11
  <2> DEFINE z == <<0>>
  <2>2. Len(z) = 1 /\ z[1] = 0 /\ z \in Seq(P)
    BY <1>6
  <2> HIDE DEF z
  <2>3. Concats(h[n] \o z, h[n], z)
    BY <2>1, <2>2, ConcatIs
  <2>4. c = h[n] \o z
    BY <1>4 DEF z
  <2> QED BY <2>1, <2>2, <2>3, <2>4 DEF Concats
<1>14. ASSUME NEW k \in 1 .. n
       PROVE  /\ L[k] = IF Jumps(s, k) THEN L[k - 1] + 2 ELSE L[k - 1] + 1
              /\ L[k] <= L[n]
              /\ c[L[k - 1] + 1] = k
              /\ Jumps(s, k) => c[L[k - 1] + 2] = 0
  <2> DEFINE x == h[k - 1]
             y == q(k)
  <2>1. k - 1 \in 0 .. n /\ k \in 0 .. n
    BY <1>1
  <2>2. /\ x \in Seq(P) /\ y \in Seq(P) /\ h[k] = x \o y
        /\ L[k - 1] = Len(x) /\ L[k] = Len(h[k]) /\ Len(x) \in Nat
    BY <1>4, <1>5, <1>11, <2>1, LenProperties DEF q
  <2>3. y = IF Jumps(s, k) THEN <<k, 0>> ELSE <<k>>
    BY <1>5
  <2>4. /\ Len(y) = IF Jumps(s, k) THEN 2 ELSE 1
        /\ y[1] = k /\ (Jumps(s, k) => y[2] = 0)
    <3> HIDE DEF y
    <3> QED BY <2>3
  <2>5. Prefix(h[k], h[n]) /\ Prefix(h[k], c)
    BY <1>10, <2>1
  <2> HIDE DEF x, y
  <2>6. Concats(x \o y, x, y)
    BY <2>2, ConcatIs
  <2>7. L[k] = Len(x) + Len(y) /\ L[k] <= L[n] /\ \A p \in 1 .. L[k] : c[p] = h[k][p]
    <3>1. L[n] = Len(h[n])
      BY <1>1, <1>11
    <3> QED BY <2>2, <2>5, <2>6, <3>1 DEF Prefix, Concats
  <2>8. h[k][Len(x) + 1] = k /\ Len(x) + 1 \in 1 .. L[k]
    BY <2>2, <2>4, <2>6, <2>7 DEF Concats
  <2>9. Jumps(s, k) => h[k][Len(x) + 2] = 0 /\ Len(x) + 2 \in 1 .. L[k]
    BY <2>2, <2>4, <2>6, <2>7 DEF Concats
  <2> QED BY <2>2, <2>4, <2>7, <2>8, <2>9
<1>15. CutAt(L, s)
  BY <1>11, <1>12, <1>13, <1>14 DEF CutAt, n, c
<1> QED BY <1>15

-----------------------------------------------------------------------------
(***************************************************************************)
(* FitArc, point by point: what its array and its list are after point k   *)
(* of the scan and the separator after it.                                 *)
(***************************************************************************)
InRange(s, i) == s[i] > Near /\ s[i] < Far

Take(state, s, t, i) ==
  IF InRange(s, i) THEN [state EXCEPT !.points = Append(@, Point(s[i], t[i]))] ELSE state

Started == [points |-> <<>>, fits |-> <<>>]

TakenSoFar(g, s, t) ==
  /\ g \in [0 .. Len(s) -> PieceStates] /\ g[0] = Started
  /\ \A k \in 1 .. Len(s) :
       g[k] = IF Jumps(s, k) THEN NextPiece(Take(g[k - 1], s, t, k)) ELSE Take(g[k - 1], s, t, k)

TakenInTheEnd(g, s, t) ==
  /\ TakenSoFar(g, s, t)
  /\ Pieces(Broken(s, s, Separator), Broken(s, t, SeparatorAngle)) = NextPiece(g[Len(s)]).fits

LEMMA TakenLoop ==
  ASSUME NEW s, NEW t, Angled(s, t)
  PROVE  \E g : TakenInTheEnd(g, s, t)
<1> DEFINE n == Len(s)
           c == Cut(s)
           r == Broken(s, s, Separator)
           u == Broken(s, t, SeparatorAngle)
<1>1. s \in Seq(Nat) /\ n \in Nat /\ \A i \in 1 .. n : s[i] \in Nat
  BY LenProperties, ElementOfSeq DEF Angled
<1>2. CutHolds(r, u, c, s, t) /\ Seen(r, u)
  BY CutValues, BrokenSeen
<1>3. PICK L : CutAt(L, s)
  BY <1>1, CutIs
<1>4. PICK h : PiecesInTheEnd(h, r, u)
  BY <1>2, PiecesLoop
<1> DEFINE m == Len(c)
<1>5. /\ L \in [0 .. n -> Nat] /\ L[0] = 0 /\ m = L[n] + 1 /\ c[L[n] + 1] = 0
      /\ \A k \in 1 .. n : /\ L[k] = IF Jumps(s, k) THEN L[k - 1] + 2 ELSE L[k - 1] + 1
                           /\ L[k] <= L[n] /\ c[L[k - 1] + 1] = k
                           /\ Jumps(s, k) => c[L[k - 1] + 2] = 0
  BY <1>3 DEF CutAt
<1> HIDE DEF c, r, u, n
<1>6. m \in Nat /\ m = Len(r)
  BY <1>2 DEF CutHolds
<1> HIDE DEF m
<1>7. /\ h \in [0 .. m -> PieceStates] /\ h[0] = Started
      /\ (\A k \in 1 .. m : h[k] = PieceStep(r, u, h[k - 1], k)) /\ Pieces(r, u) = h[m].fits
  BY <1>4, <1>6 DEF PiecesInTheEnd, PiecesSoFar, Started
<1>8. ASSUME NEW p \in 1 .. m
      PROVE  h[p] = IF c[p] = 0 THEN NextPiece(h[p - 1]) ELSE Take(h[p - 1], s, t, c[p])
  <2>1. /\ c[p] \in 0 .. n /\ r[p] = IF c[p] = 0 THEN -1 ELSE s[c[p]]
        /\ u[p] = IF c[p] = 0 THEN SeparatorAngle ELSE t[c[p]]
    BY <1>2 DEF CutHolds, n, m
  <2>2. h[p] = PieceStep(r, u, h[p - 1], p)
    BY <1>7
  <2>3. CASE c[p] = 0
    <3>1. r[p] < 0
      BY <2>1, <2>3
    <3> QED BY <2>2, <2>3, <3>1 DEF PieceStep
  <2>4. CASE c[p] # 0
    <3>1. r[p] = s[c[p]] /\ u[p] = t[c[p]] /\ c[p] \in 1 .. n
      BY <1>1, <2>1, <2>4
    <3>2. ~(r[p] < 0)
      BY <1>1, <3>1
    <3> QED BY <2>2, <2>4, <3>1, <3>2 DEF PieceStep, Take, InRange
  <2> QED BY <2>3, <2>4
<1> DEFINE g == [k \in 0 .. n |-> h[L[k]]]
<1>9. ASSUME NEW k \in 0 .. n
      PROVE  L[k] \in 0 .. m
  <2>1. L[0] <= L[n] /\ L[n] \in Nat
    BY <1>1, <1>5
  <2>2. L[k] <= L[n] /\ L[k] \in Nat
    BY <1>1, <1>5, <2>1
  <2> QED BY <1>5, <2>1, <2>2
<1>10. g \in [0 .. n -> PieceStates] /\ \A k \in 0 .. n : g[k] = h[L[k]]
  BY <1>7, <1>9
<1>11. g[0] = Started
  BY <1>1, <1>5, <1>7, <1>10
<1> HIDE DEF g
<1>12. ASSUME NEW k \in 1 .. n
       PROVE  g[k] = IF Jumps(s, k) THEN NextPiece(Take(g[k - 1], s, t, k))
                     ELSE Take(g[k - 1], s, t, k)
  <2> DEFINE p == L[k - 1]
  <2>1. k - 1 \in 0 .. n /\ k \in 0 .. n /\ k # 0
    BY <1>1
  <2>2. p \in Nat /\ g[k - 1] = h[p] /\ g[k] = h[L[k]] /\ L[k] \in 0 .. m
    BY <1>5, <1>9, <1>10, <2>1
  <2>3. L[k] = (IF Jumps(s, k) THEN p + 2 ELSE p + 1) /\ c[p + 1] = k /\ (Jumps(s, k) => c[p + 2] = 0)
    BY <1>5
  <2> HIDE DEF p
  <2>4. p + 1 \in 1 .. m /\ (p + 1) - 1 = p
    BY <1>6, <2>2, <2>3
  <2>5. h[p + 1] = Take(g[k - 1], s, t, k)
    BY <1>8, <2>1, <2>2, <2>3, <2>4
  <2>6. CASE Jumps(s, k)
    <3>1. p + 2 \in 1 .. m /\ (p + 2) - 1 = p + 1 /\ L[k] = p + 2 /\ c[p + 2] = 0
      BY <2>2, <2>3, <2>6
    <3>2. h[p + 2] = NextPiece(h[p + 1])
      BY <1>8, <3>1
    <3> QED BY <2>2, <2>5, <2>6, <3>1, <3>2
  <2>7. CASE ~Jumps(s, k)
    BY <2>2, <2>3, <2>5, <2>7
  <2> QED BY <2>6, <2>7
<1>13. h[m] = NextPiece(g[n])
  <2>1. n \in 0 .. n /\ L[n] \in Nat
    BY <1>1, <1>5
  <2>2. m \in 1 .. m /\ m - 1 = L[n] /\ c[m] = 0
    BY <1>5, <2>1
  <2> QED BY <1>8, <1>10, <2>1, <2>2
<1>14. TakenInTheEnd(g, s, t)
  BY <1>7, <1>10, <1>11, <1>12, <1>13 DEF TakenInTheEnd, TakenSoFar, n, r, u
<1> QED BY <1>14

-----------------------------------------------------------------------------
(***************************************************************************)
(* A sequence that lists the values of f on a set of numbers in order, and *)
(* how it grows at its end.                                                *)
(***************************************************************************)
Lists(seq, set, f) ==
  Len(seq) = Cardinality(set) /\ \A i \in set : seq[Rank(i, set)] = f[i]

LEMMA RankIs ==
  ASSUME NEW m \in Nat, NEW set \in SUBSET (1 .. m)
  PROVE  /\ IsFiniteSet(set) /\ Cardinality(set) \in Nat
         /\ \A i \in set : Rank(i, set) \in 1 .. Cardinality(set)
<1>1. IsFiniteSet(1 .. m)
  BY FS_Interval
<1>2. IsFiniteSet(set)
  BY <1>1, FS_Subset
<1>3. Cardinality(set) \in Nat
  BY <1>2, FS_CardinalityType
<1>4. ASSUME NEW i \in set
      PROVE  Rank(i, set) \in 1 .. Cardinality(set)
  <2> DEFINE t == {j \in set : j <= i}
  <2>1. i \in t
    OBVIOUS
  <2>2. t \subseteq set /\ t # {}
    BY <2>1
  <2> HIDE DEF t
  <2>3. IsFiniteSet(t) /\ Cardinality(t) <= Cardinality(set)
    BY <1>2, <2>2, FS_Subset
  <2>4. Cardinality(t) \in Nat
    BY <2>3, FS_CardinalityType
  <2>5. Cardinality(t) # 0
    BY <2>2, <2>3, FS_EmptySet
  <2>6. Cardinality(t) \in 1 .. Cardinality(set)
    BY <1>3, <2>3, <2>4, <2>5
  <2> QED BY <2>6 DEF t, Rank
<1> QED BY <1>2, <1>3, <1>4

LEMMA ListsAppend ==
  ASSUME NEW V, NEW seq \in Seq(V), NEW m \in Nat, NEW set \in SUBSET (1 .. m), NEW f,
         Lists(seq, set, f), NEW x \in Nat, x > m, NEW v \in V, v = f[x]
  PROVE  Lists(Append(seq, v), set \cup {x}, f)
<1> DEFINE longer == Append(seq, v)
           all == set \cup {x}
           n == Cardinality(set)
<1>1. IsFiniteSet(set) /\ n \in Nat /\ \A i \in set : Rank(i, set) \in 1 .. n
  BY RankIs
<1>2. Len(seq) = n /\ \A i \in set : seq[Rank(i, set)] = f[i]
  BY DEF Lists
<1>3. x \notin set /\ \A i \in set : i \in Int /\ i < x
  OBVIOUS
<1>4. Cardinality(all) = n + 1
  BY <1>1, <1>3, FS_AddElement
<1>5. /\ Len(longer) = n + 1 /\ longer[n + 1] = f[x]
      /\ \A k \in 1 .. n : longer[k] = seq[k]
  BY <1>2, AppendProperties
<1>6. ASSUME NEW i \in set
      PROVE  Rank(i, all) = Rank(i, set)
  <2>1. {j \in all : j <= i} = {j \in set : j <= i}
    BY <1>3
  <2> QED BY <2>1 DEF Rank
<1>7. Rank(x, all) = n + 1
  <2>0. \A j \in all : j <= x
    BY <1>3
  <2>1. {j \in all : j <= x} = all
    BY <2>0
  <2> QED BY <1>4, <2>1 DEF Rank
<1> HIDE DEF longer, n
<1>8. ASSUME NEW i \in all
      PROVE  longer[Rank(i, all)] = f[i]
  <2>1. CASE i = x
    BY <1>5, <1>7, <2>1
  <2>2. CASE i # x
    <3>1. i \in set
      BY <2>2
    <3> QED BY <1>1, <1>2, <1>5, <1>6, <3>1
  <2> QED BY <2>1, <2>2
<1> HIDE DEF all
<1>9. Lists(longer, all, f)
  BY <1>4, <1>5, <1>8 DEF Lists
<1> QED BY <1>9 DEF longer, all

LEMMA ListsNothing ==
  ASSUME NEW f
  PROVE  Lists(<<>>, {}, f)
BY FS_EmptySet DEF Lists

-----------------------------------------------------------------------------
(***************************************************************************)
(* What the array and the list of FitArc hold.                             *)
(***************************************************************************)
Jumped(s, k) == {i \in 1 .. k : Jumps(s, i)}

\* The points in range since the last jump before point k, and k
Before(s, k) == {i \in 1 .. k : InRange(s, i) /\ \A d \in Jumped(s, k - 1) : d < i}

\* What is left of them after it
Open(s, k) == IF k = 0 \/ Jumps(s, k) THEN {} ELSE Before(s, k)

Enough(s, e) == Cardinality(Before(s, e)) \in Few + 1 .. Many - 1

\* The jumps up to k with an array that is fitted
Fitting(s, k) == {e \in Jumped(s, k) : Enough(s, e)}

LEMMA BeforeGrows ==
  ASSUME NEW s, NEW k \in Nat
  PROVE  Before(s, k + 1) = Open(s, k) \cup (IF InRange(s, k + 1) THEN {k + 1} ELSE {})
<1>1. (k + 1) - 1 = k
  OBVIOUS
<1>2. Before(s, k + 1) = {i \in 1 .. k + 1 : InRange(s, i) /\ \A d \in Jumped(s, k) : d < i}
  BY <1>1 DEF Before
<1>3. \A d \in Jumped(s, k) : d < k + 1
  BY DEF Jumped
<1>4. k = 0 => 1 .. k = {}
  OBVIOUS
<1>5. CASE k = 0 \/ Jumps(s, k)
  <2>1. ASSUME NEW i \in 1 .. k, \A d \in Jumped(s, k) : d < i
        PROVE  FALSE
    <3>1. k # 0 /\ k \in 1 .. k
      OBVIOUS
    <3>2. k \in Jumped(s, k)
      BY <1>5, <3>1 DEF Jumped
    <3>3. k < i
      BY <2>1, <3>2
    <3> QED BY <3>3
  <2>2. Open(s, k) = {}
    BY <1>5 DEF Open
  <2>3. ASSUME NEW i
        PROVE  i \in Before(s, k + 1) <=> i = k + 1 /\ InRange(s, k + 1)
    <3>1. i \in 1 .. k + 1 <=> i \in 1 .. k \/ i = k + 1
      OBVIOUS
    <3> QED BY <1>2, <1>3, <2>1, <3>1
  <2> QED BY <2>2, <2>3
<1>6. CASE ~(k = 0 \/ Jumps(s, k))
  <2>1. Jumped(s, k - 1) = Jumped(s, k)
    <3>1. ASSUME NEW i
          PROVE  i \in 1 .. k <=> i \in 1 .. k - 1 \/ i = k
      BY <1>6
    <3> QED BY <1>6, <3>1 DEF Jumped
  <2>2. Open(s, k) = {i \in 1 .. k : InRange(s, i) /\ \A d \in Jumped(s, k) : d < i}
    BY <1>6, <2>1 DEF Open, Before
  <2>3. ASSUME NEW i
        PROVE  i \in Before(s, k + 1) <=> i \in Open(s, k) \/ (i = k + 1 /\ InRange(s, k + 1))
    <3>1. i \in 1 .. k + 1 <=> i \in 1 .. k \/ i = k + 1
      OBVIOUS
    <3> QED BY <1>2, <1>3, <2>2, <3>1
  <2> QED BY <2>3
<1> QED BY <1>5, <1>6

\* The arrays at the separators, and what they should hold
Arrayed(g, s, t) == [e \in 1 .. Len(s) |-> Take(g[e - 1], s, t, e).points]
PointsOf(s, t) == [i \in 1 .. Len(s) |-> Point(s[i], t[i])]

LEMMA TakeIs ==
  ASSUME NEW state \in PieceStates, NEW s, NEW t, NEW i,
         Point(s[i], t[i]) \in Reach \X Reach \/ ~InRange(s, i)
  PROVE  /\ Take(state, s, t, i).points = IF InRange(s, i)
                                          THEN Append(state.points, Point(s[i], t[i]))
                                          ELSE state.points
         /\ Take(state, s, t, i).fits = state.fits
         /\ Take(state, s, t, i).points \in Seq(Reach \X Reach)
<1>1. state.points \in Seq(Reach \X Reach) /\ state = [points |-> state.points, fits |-> state.fits]
  BY DEF PieceStates
<1>2. CASE InRange(s, i)
  <2> DEFINE p == Append(state.points, Point(s[i], t[i]))
  <2>1. p \in Seq(Reach \X Reach)
    BY <1>1, <1>2, AppendProperties
  <2>2. Take(state, s, t, i) = [state EXCEPT !.points = p]
    BY <1>2 DEF Take
  <2>3. p = Append(state.points, Point(s[i], t[i]))
    OBVIOUS
  <2> HIDE DEF p
  <2>4. Take(state, s, t, i).points = p /\ Take(state, s, t, i).fits = state.fits
    BY <1>1, <2>2
  <2> QED BY <1>2, <2>1, <2>3, <2>4
<1>3. CASE ~InRange(s, i)
  BY <1>1, <1>3 DEF Take
<1> QED BY <1>2, <1>3

LEMMA InRangePoint ==
  ASSUME NEW s, NEW t, Angled(s, t), NEW i \in 1 .. Len(s)
  PROVE  Point(s[i], t[i]) \in Reach \X Reach \/ ~InRange(s, i)
<1> SUFFICES ASSUME InRange(s, i)
             PROVE  Point(s[i], t[i]) \in Reach \X Reach
  OBVIOUS
<1>1. s[i] \in Nat /\ i \in 1 .. Len(t)
  BY ElementOfSeq DEF Angled
<1>2. Far \in Nat
  BY ConstantsAre
<1>3. s[i] \in 0 .. Far
  BY <1>1, <1>2 DEF InRange
<1>4. Cosine[t[i]] \in -Unit .. Unit /\ Sine[t[i]] \in -Unit .. Unit
  BY <1>1 DEF Angled
<1> QED BY <1>3, <1>4, PointIs

\* A separator after point e
LEMMA NextPieceLists ==
  ASSUME NEW state \in PieceStates, NEW s, NEW e \in Nat \ {0}, NEW points,
         Lists(state.points, Before(s, e), points),
         NEW set \in SUBSET (1 .. e - 1), NEW f, Lists(state.fits, set, f),
         f[e] = state.points
  PROVE  /\ Lists(NextPiece(state).fits, IF Enough(s, e) THEN set \cup {e} ELSE set, f)
         /\ NextPiece(state).points = <<>>
<1> DEFINE n == Cardinality(Before(s, e))
           p == state.points
<1>1. p \in Seq(Reach \X Reach) /\ state.fits \in Seq(Arrays)
  BY DEF PieceStates
<1>2. n \in Nat
  <2>1. Before(s, e) \in SUBSET (1 .. e)
    BY DEF Before
  <2> QED BY <2>1, RankIs
<1>3. Len(p) = n
  BY DEF Lists
<1>4. Few \in Nat /\ Many \in Nat
  BY PillarsAssumption
<1>5. Enough(s, e) <=> Len(p) > Few /\ Len(p) < Many
  <2> HIDE DEF p, n
  <2>1. n \in Few + 1 .. Many - 1 <=> n > Few /\ n < Many
    BY <1>2, <1>4
  <2> QED BY <1>3, <2>1 DEF Enough, n
<1>6. CASE Enough(s, e)
  <2>1. NextPiece(state) = [points |-> <<>>, fits |-> Append(state.fits, p)]
    BY <1>5, <1>6 DEF NextPiece
  <2>2. p \in Arrays
    BY <1>1, <1>5, <1>6 DEF Arrays
  <2>3. e - 1 \in Nat /\ e > e - 1 /\ e \in Nat
    OBVIOUS
  <2> HIDE DEF p
  <2>4. p = f[e]
    BY DEF p
  <2>5. Lists(Append(state.fits, p), set \cup {e}, f)
    BY <1>1, <2>2, <2>3, <2>4, ListsAppend
  <2> QED BY <1>6, <2>1, <2>5
<1>7. CASE ~Enough(s, e)
  <2>1. NextPiece(state) = [points |-> <<>>, fits |-> state.fits]
    BY <1>5, <1>7 DEF NextPiece
  <2> QED BY <1>7, <2>1
<1> QED BY <1>6, <1>7

Held(g, s, t, k) ==
  /\ Lists(g[k].points, Open(s, k), PointsOf(s, t))
  /\ Lists(g[k].fits, Fitting(s, k), Arrayed(g, s, t))
  /\ \A e \in 1 .. k : Lists(Arrayed(g, s, t)[e], Before(s, e), PointsOf(s, t))

LEMMA TakenListed ==
  ASSUME NEW s, NEW t, Angled(s, t), NEW g, TakenSoFar(g, s, t), NEW k \in 0 .. Len(s) - 1,
         Held(g, s, t, k)
  PROVE  /\ Lists(Arrayed(g, s, t)[k + 1], Before(s, k + 1), PointsOf(s, t))
         /\ Take(g[k], s, t, k + 1).points = Arrayed(g, s, t)[k + 1]
         /\ Take(g[k], s, t, k + 1).fits = g[k].fits
<1> DEFINE e == k + 1
           f == PointsOf(s, t)
           taken == Take(g[k], s, t, e)
<1>1. Len(s) \in Nat
  BY LenProperties DEF Angled
<1>2. k \in Nat /\ e \in 1 .. Len(s) /\ e - 1 = k /\ e > k /\ e \in Nat /\ k \in 0 .. Len(s)
  BY <1>1
<1>3. g[k] \in PieceStates
  BY <1>2 DEF TakenSoFar
<1>4. Point(s[e], t[e]) \in Reach \X Reach \/ ~InRange(s, e)
  BY <1>2, InRangePoint
<1>5. f[e] = Point(s[e], t[e])
  BY <1>2 DEF PointsOf
<1>6. Arrayed(g, s, t)[e] = taken.points
  BY <1>2 DEF Arrayed
<1>7. Before(s, e) = Open(s, k) \cup (IF InRange(s, e) THEN {e} ELSE {})
  BY <1>2, BeforeGrows
<1>8. Open(s, k) \in SUBSET (1 .. k)
  BY DEF Open, Before
<1> HIDE DEF e, f
<1>9. /\ taken.points = IF InRange(s, e) THEN Append(g[k].points, Point(s[e], t[e]))
                        ELSE g[k].points
      /\ taken.fits = g[k].fits
  BY <1>3, <1>4, TakeIs
<1> HIDE DEF taken
<1>10. g[k].points \in Seq(Reach \X Reach) /\ Lists(g[k].points, Open(s, k), f)
  BY <1>3 DEF PieceStates, Held, f
<1>11. Lists(taken.points, Before(s, e), f)
  <2>1. CASE InRange(s, e)
    <3> DEFINE v == Point(s[e], t[e])
    <3>1. v \in Reach \X Reach /\ v = f[e]
      BY <1>4, <1>5, <2>1
    <3> HIDE DEF v
    <3>2. Lists(Append(g[k].points, v), Open(s, k) \cup {e}, f)
      BY <1>2, <1>8, <1>10, <3>1, ListsAppend
    <3> QED BY <1>7, <1>9, <2>1, <3>2 DEF v
  <2>2. CASE ~InRange(s, e)
    BY <1>7, <1>9, <1>10, <2>2
  <2> QED BY <2>1, <2>2
<1> QED BY <1>6, <1>9, <1>11 DEF e, f, taken

LEMMA FittingGrows ==
  ASSUME NEW s, NEW k \in Nat
  PROVE  Fitting(s, k + 1) = Fitting(s, k)
                             \cup (IF Jumps(s, k + 1) /\ Enough(s, k + 1) THEN {k + 1} ELSE {})
<1>1. ASSUME NEW i
      PROVE  i \in 1 .. k + 1 <=> i \in 1 .. k \/ i = k + 1
  OBVIOUS
<1>2. Jumped(s, k + 1) = Jumped(s, k) \cup (IF Jumps(s, k + 1) THEN {k + 1} ELSE {})
  BY <1>1 DEF Jumped
<1> QED BY <1>2 DEF Fitting

LEMMA TakenHolds ==
  ASSUME NEW s, NEW t, Angled(s, t), NEW g, TakenSoFar(g, s, t)
  PROVE  \A k \in 0 .. Len(s) : Held(g, s, t, k)
<1> DEFINE n == Len(s)
           Good == {k \in Nat : k <= n => Held(g, s, t, k)}
<1>1. n \in Nat
  BY LenProperties DEF Angled
<1>2. 0 \in Good
  <2>1. g[0].points = <<>> /\ g[0].fits = <<>>
    BY DEF TakenSoFar, Started
  <2>2. Open(s, 0) = {}
    BY DEF Open
  <2>3. 1 .. 0 = {}
    OBVIOUS
  <2>4. Fitting(s, 0) = {}
    BY <2>3 DEF Fitting, Jumped
  <2>5. Lists(<<>>, {}, PointsOf(s, t)) /\ Lists(<<>>, {}, Arrayed(g, s, t))
    BY ListsNothing
  <2>6. ASSUME NEW e \in 1 .. 0
        PROVE  Lists(Arrayed(g, s, t)[e], Before(s, e), PointsOf(s, t))
    BY <2>3
  <2>7. Held(g, s, t, 0)
    BY <2>1, <2>2, <2>4, <2>5, <2>6 DEF Held
  <2> QED BY <2>7
<1>3. ASSUME NEW k \in Nat, k \in Good
      PROVE  k + 1 \in Good
  <2> SUFFICES ASSUME k + 1 <= n
               PROVE  Held(g, s, t, k + 1)
    OBVIOUS
  <2> DEFINE e == k + 1
             taken == Take(g[k], s, t, e)
             f == PointsOf(s, t)
             a == Arrayed(g, s, t)
  <2>1. k \in 0 .. n - 1 /\ Held(g, s, t, k) /\ e \in 1 .. n /\ e - 1 = k /\ e # 0
    BY <1>1, <1>3
  <2>2. /\ Lists(a[e], Before(s, e), f) /\ taken.points = a[e] /\ taken.fits = g[k].fits
    BY <2>1, TakenListed
  <2>3. taken \in PieceStates
    <3>1. g[k] \in PieceStates
      BY <1>1, <2>1 DEF TakenSoFar
    <3>2. Point(s[e], t[e]) \in Reach \X Reach \/ ~InRange(s, e)
      BY <2>1, InRangePoint
    <3>3. taken.points \in Seq(Reach \X Reach)
      BY <3>1, <3>2, TakeIs
    <3>4. taken = [points |-> taken.points, fits |-> g[k].fits]
      <4>1. g[k] = [points |-> g[k].points, fits |-> g[k].fits]
        BY <3>1 DEF PieceStates
      <4> QED BY <4>1 DEF Take
    <3> HIDE DEF taken
    <3> QED BY <3>1, <3>3, <3>4 DEF PieceStates
  <2>4. g[e] = IF Jumps(s, e) THEN NextPiece(taken) ELSE taken
    BY <2>1 DEF TakenSoFar
  <2>5. \A i \in 1 .. e : Lists(a[i], Before(s, i), f)
    <3>1. \A i \in 1 .. e : i \in 1 .. k \/ i = e
      BY <2>1
    <3> QED BY <2>1, <2>2, <3>1 DEF Held
  <2>6. Fitting(s, e) = Fitting(s, k) \cup (IF Jumps(s, e) /\ Enough(s, e) THEN {e} ELSE {})
    BY FittingGrows
  <2>7. Lists(taken.fits, Fitting(s, k), a) /\ Lists(taken.points, Before(s, e), f)
    BY <2>1, <2>2 DEF Held
  <2>8. Fitting(s, k) \in SUBSET (1 .. e - 1) /\ e \in Nat \ {0}
    BY <2>1 DEF Fitting, Jumped
  <2> HIDE DEF e, taken, f, a
  <2>9. CASE Jumps(s, e)
    <3>1. /\ Lists(NextPiece(taken).fits,
                   IF Enough(s, e) THEN Fitting(s, k) \cup {e} ELSE Fitting(s, k), a)
          /\ NextPiece(taken).points = <<>>
      BY <2>2, <2>3, <2>7, <2>8, NextPieceLists
    <3>2. Open(s, e) = {}
      BY <2>9 DEF Open
    <3>3. Fitting(s, e) = IF Enough(s, e) THEN Fitting(s, k) \cup {e} ELSE Fitting(s, k)
      BY <2>6, <2>9
    <3>4. Lists(<<>>, {}, f)
      BY ListsNothing
    <3>5. Held(g, s, t, e)
      BY <2>4, <2>5, <2>9, <3>1, <3>2, <3>3, <3>4 DEF Held, f, a
    <3> QED BY <3>5 DEF e
  <2>10. CASE ~Jumps(s, e)
    <3>1. Open(s, e) = Before(s, e)
      BY <2>1, <2>10 DEF Open
    <3>2. Fitting(s, e) = Fitting(s, k)
      BY <2>6, <2>10
    <3>3. Held(g, s, t, e)
      BY <2>4, <2>5, <2>7, <2>10, <3>1, <3>2 DEF Held, f, a
    <3> QED BY <3>3 DEF e
  <2> QED BY <2>9, <2>10
<1> HIDE DEF Good
<1>4. \A k \in Nat : k \in Good
  BY <1>2, <1>3, Induction
<1> QED BY <1>1, <1>4 DEF Good

\* What is fitted when the last separator was passed
EndsOf(s) == {i \in DOMAIN s : Jumps(s, i) \/ i = Len(s)}
SeenBy(s, e) == {i \in 1 .. e : InRange(s, i) /\ \A d \in EndsOf(s) : d < e => d < i}
Fitted(s) == {e \in EndsOf(s) : Cardinality(SeenBy(s, e)) \in Few + 1 .. Many - 1}

LEMMA EndsBefore ==
  ASSUME NEW s, Len(s) \in Nat, DOMAIN s = 1 .. Len(s), NEW e \in 1 .. Len(s)
  PROVE  {d \in EndsOf(s) : d < e} = Jumped(s, e - 1)
<1> DEFINE n == Len(s)
<1>1. ASSUME NEW d \in EndsOf(s), d < e
      PROVE  d \in Jumped(s, e - 1)
  <2>1. d \in 1 .. n /\ (Jumps(s, d) \/ d = n) /\ e \in 1 .. n /\ n \in Nat
    BY DEF EndsOf
  <2> HIDE DEF n
  <2>2. d \in 1 .. e - 1 /\ d # n
    BY <1>1, <2>1
  <2> QED BY <2>1, <2>2 DEF Jumped
<1>2. ASSUME NEW d \in Jumped(s, e - 1)
      PROVE  d \in EndsOf(s) /\ d < e
  <2>1. d \in 1 .. e - 1 /\ Jumps(s, d)
    BY DEF Jumped
  <2>2. d \in 1 .. Len(s) /\ d < e
    BY <2>1
  <2> QED BY <2>1, <2>2 DEF EndsOf
<1> QED BY <1>1, <1>2

LEMMA SeenIsBefore ==
  ASSUME NEW s, Len(s) \in Nat, DOMAIN s = 1 .. Len(s), NEW e \in EndsOf(s)
  PROVE  SeenBy(s, e) = Before(s, e)
<1>1. e \in 1 .. Len(s)
  BY DEF EndsOf
<1>2. {d \in EndsOf(s) : d < e} = Jumped(s, e - 1)
  BY <1>1, EndsBefore
<1>3. \A d : d \in EndsOf(s) /\ d < e <=> d \in Jumped(s, e - 1)
  BY <1>2
<1> QED BY <1>3 DEF SeenBy, Before

LEMMA FittedAreFitting ==
  ASSUME NEW s, Len(s) \in Nat \ {0}, DOMAIN s = 1 .. Len(s)
  PROVE  Fitted(s) = Fitting(s, Len(s) - 1) \cup (IF Enough(s, Len(s)) THEN {Len(s)} ELSE {})
<1> DEFINE n == Len(s)
<1>1. ASSUME NEW e
      PROVE  e \in EndsOf(s) <=> e \in Jumped(s, n - 1) \/ e = n
  <2>1. e \in 1 .. n <=> e \in 1 .. n - 1 \/ e = n
    OBVIOUS
  <2>2. n \notin 1 .. n - 1
    OBVIOUS
  <2> QED BY <2>1, <2>2 DEF EndsOf, Jumped
<1>2. ASSUME NEW e \in EndsOf(s)
      PROVE  e \in Fitted(s) <=> Enough(s, e)
  BY SeenIsBefore DEF Fitted, Enough
<1>3. ASSUME NEW e
      PROVE  e \in Fitted(s) <=> (e \in Jumped(s, n - 1) /\ Enough(s, e)) \/ (e = n /\ Enough(s, n))
  <2>1. e \in Fitted(s) => e \in EndsOf(s)
    BY DEF Fitted
  <2> HIDE DEF n
  <2> QED BY <1>1, <1>2, <2>1
<1>4. ASSUME NEW e
      PROVE  e \in Fitting(s, n - 1) <=> e \in Jumped(s, n - 1) /\ Enough(s, e)
  BY DEF Fitting
<1> HIDE DEF n
<1>5. ASSUME NEW e
      PROVE  e \in Fitted(s) <=> e \in Fitting(s, n - 1) \cup (IF Enough(s, n) THEN {n} ELSE {})
  BY <1>3, <1>4
<1>6. Fitted(s) = Fitting(s, n - 1) \cup (IF Enough(s, n) THEN {n} ELSE {})
  BY <1>5
<1> QED BY <1>6 DEF n

ListsPieces(list, s, t) ==
  \E f : /\ Lists(list, Fitted(s), f)
         /\ \A e \in Fitted(s) : Lists(f[e], SeenBy(s, e), PointsOf(s, t))

LEMMA PiecesListed ==
  ASSUME NEW s, NEW t, Angled(s, t), s # <<>>
  PROVE  ListsPieces(Pieces(Broken(s, s, Separator), Broken(s, t, SeparatorAngle)), s, t)
<1> DEFINE n == Len(s)
<1>1. n \in Nat \ {0} /\ DOMAIN s = 1 .. n
  <2>1. s \in Seq(Nat)
    BY DEF Angled
  <2> QED BY <2>1, LenProperties, EmptySeq
<1>2. PICK g : TakenInTheEnd(g, s, t)
  BY TakenLoop
<1> DEFINE a == Arrayed(g, s, t)
           f == PointsOf(s, t)
           list == NextPiece(g[n]).fits
           before == g[n - 1]
<1>3. TakenSoFar(g, s, t)
  BY <1>2 DEF TakenInTheEnd
<1>4. Pieces(Broken(s, s, Separator), Broken(s, t, SeparatorAngle)) = list
  BY <1>2 DEF TakenInTheEnd
<1>5. n - 1 \in 0 .. n - 1 /\ n - 1 \in 0 .. n /\ n \in 0 .. n /\ n \in 1 .. n /\ (n - 1) + 1 = n
  BY <1>1
<1>6. Held(g, s, t, n) /\ Held(g, s, t, n - 1)
  BY <1>3, <1>5, TakenHolds
<1>7. Fitted(s) = Fitting(s, n - 1) \cup (IF Enough(s, n) THEN {n} ELSE {})
  BY <1>1, FittedAreFitting
<1>8. \A e \in Fitted(s) : Lists(a[e], SeenBy(s, e), f)
  <2>1. ASSUME NEW e \in Fitted(s)
        PROVE  Lists(a[e], SeenBy(s, e), f)
    <3>1. e \in EndsOf(s) /\ e \in 1 .. n
      BY <1>1 DEF Fitted, EndsOf
    <3>2. Lists(a[e], Before(s, e), f)
      BY <1>6, <3>1 DEF Held
    <3> QED BY <1>1, <3>1, <3>2, SeenIsBefore
  <2> QED BY <2>1
<1>9. g[n] = IF Jumps(s, n) THEN NextPiece(Take(before, s, t, n)) ELSE Take(before, s, t, n)
  BY <1>3, <1>5 DEF TakenSoFar
<1>10. g[n] \in PieceStates /\ before \in PieceStates
  BY <1>3, <1>5 DEF TakenSoFar
<1> HIDE DEF a, f, list
<1>11. Lists(list, Fitted(s), a)
  <2>1. CASE Jumps(s, n)
    <3>1. Open(s, n) = {}
      BY <2>1 DEF Open
    <3>2. Len(g[n].points) = 0
      BY <1>6, <3>1, FS_EmptySet DEF Held, Lists
    <3>3. Few \in Nat
      BY PillarsAssumption
    <3>4. NextPiece(g[n]) = [points |-> <<>>, fits |-> g[n].fits]
      BY <3>2, <3>3 DEF NextPiece
    <3>5. list = g[n].fits
      BY <3>4 DEF list
    <3>6. Fitting(s, n) = Fitted(s)
      <4>1. n - 1 \in Nat
        BY <1>1
      <4>2. Fitting(s, (n - 1) + 1) = Fitting(s, n - 1) \cup (IF Jumps(s, (n - 1) + 1) /\ Enough(s, (n - 1) + 1)
                                                              THEN {(n - 1) + 1} ELSE {})
        BY <4>1, FittingGrows, Zenon
      <4> HIDE DEF n
      <4> QED BY <1>5, <1>7, <2>1, <4>2
    <3> QED BY <1>6, <3>5, <3>6 DEF Held, a
  <2>2. CASE ~Jumps(s, n)
    <3>1. Open(s, n) = Before(s, n)
      BY <1>1, <2>2 DEF Open
    <3>2. Lists(g[n].points, Before(s, n), f)
      BY <1>6, <3>1 DEF Held, f
    <3>3. g[n].points = a[n] /\ g[n].fits = before.fits
      <4> HIDE DEF n, before
      <4>1. g[n] = Take(before, s, t, n)
        BY <1>9, <2>2
      <4>2. Take(g[n - 1], s, t, (n - 1) + 1).points = Arrayed(g, s, t)[(n - 1) + 1]
            /\ Take(g[n - 1], s, t, (n - 1) + 1).fits = g[n - 1].fits
        BY <1>3, <1>5, <1>6, TakenListed DEF n
      <4> QED BY <1>5, <4>1, <4>2 DEF a, before
    <3>4. Lists(g[n].fits, Fitting(s, n - 1), a)
      BY <1>6, <3>3 DEF Held, a
    <3>5. Fitting(s, n - 1) \in SUBSET (1 .. n - 1)
      BY DEF Fitting, Jumped
    <3> HIDE DEF n, before
    <3>6. Lists(NextPiece(g[n]).fits,
                IF Enough(s, n) THEN Fitting(s, n - 1) \cup {n} ELSE Fitting(s, n - 1), a)
      BY <1>1, <1>10, <3>2, <3>3, <3>4, <3>5, NextPieceLists
    <3>7. Fitted(s) = IF Enough(s, n) THEN Fitting(s, n - 1) \cup {n} ELSE Fitting(s, n - 1)
      BY <1>7
    <3> QED BY <3>6, <3>7 DEF list
  <2> QED BY <2>1, <2>2
<1>12. ListsPieces(list, s, t)
  BY <1>8, <1>11 DEF ListsPieces, f
<1> QED BY <1>4, <1>12

LEMMA HeldPillarsFitted ==
  ASSUME PiecesHeld
  PROVE  PillarsFitted
<1> SUFFICES ASSUME phase = "fitted"
             PROVE  PillarsFitted
  BY DEF PillarsFitted
<1> DEFINE s == RadarRho
           t == RadarTheta
           n == Len(s)
<1>1. Angled(s, t) /\ s # <<>> /\ fits = Pieces(Broken(s, s, Separator), Broken(s, t, SeparatorAngle))
  BY DEF PiecesHeld
<1>2. DOMAIN s = 1 .. n /\ n \in Nat
  BY <1>1, LenProperties DEF Angled
<1>3. ListsPieces(fits, s, t)
  BY <1>1, PiecesListed
<1>4. PICK f : /\ Lists(fits, Fitted(s), f)
               /\ \A e \in Fitted(s) : Lists(f[e], SeenBy(s, e), PointsOf(s, t))
  BY <1>3 DEF ListsPieces
<1>5. Len(fits) = Cardinality(Fitted(s))
  BY <1>4 DEF Lists
<1>6. ASSUME NEW e \in Fitted(s)
      PROVE  LET points == fits[Rank(e, Fitted(s))]
             IN  /\ Len(points) = Cardinality(SeenBy(s, e))
                 /\ \A i \in SeenBy(s, e) : points[Rank(i, SeenBy(s, e))] = Point(s[i], t[i])
  <2>1. fits[Rank(e, Fitted(s))] = f[e] /\ Lists(f[e], SeenBy(s, e), PointsOf(s, t))
    BY <1>4 DEF Lists
  <2>2. ASSUME NEW i \in SeenBy(s, e)
        PROVE  PointsOf(s, t)[i] = Point(s[i], t[i])
    <3>1. e \in 1 .. n /\ i \in 1 .. e
      BY <1>2 DEF SeenBy, Fitted, EndsOf
    <3>2. i \in 1 .. n
      BY <1>2, <3>1
    <3> QED BY <3>2 DEF PointsOf
  <2> QED BY <2>1, <2>2 DEF Lists
<1> QED BY <1>5, <1>6, Zenon DEF PillarsFitted, Fitted, SeenBy, InRange, Ends, EndsOf

\* What is fitted, whatever the scan, are the points in range of the pieces
\* that have enough of them and not too many, each once and in order.
THEOREM PillarsAlwaysFitted == Spec => []PillarsFitted
<1>1. Init => ScanHeld /\ PiecesHeld
  BY ScanHeldInit, PiecesHeldInit
<1>2. ScanHeld /\ PiecesHeld /\ [Next]_vars => ScanHeld' /\ PiecesHeld'
  BY ScanHeldStep, PiecesHeldStep
<1>3. PiecesHeld => PillarsFitted
  BY HeldPillarsFitted
<1> QED BY <1>1, <1>2, <1>3, PTL DEF Spec

-----------------------------------------------------------------------------
(***************************************************************************)
(* The colours of the image.                                               *)
(***************************************************************************)
LEMMA ColourIs ==
  ASSUME NEW b \in Nat
  PROVE  Colour(b) \in 0 .. Colours - 1
<1>1. Colours \in Nat /\ Red \in 1 .. Colours - 1
  BY PillarsAssumption
<1>2. CASE b = 0
  BY <1>1, <1>2 DEF Colour
<1>3. CASE b # 0
  <2>1. b - 1 \in Nat /\ Colours \in Nat \ {0}
    BY <1>1, <1>3
  <2>2. (b - 1) % Colours \in 0 .. Colours - 1
    BY <2>1
  <2> QED BY <1>3, <2>2 DEF Colour
<1> QED BY <1>2, <1>3

\* Breaks fewer than there are colours change it, the first few of them too.
LEMMA ColoursApart ==
  ASSUME NEW b \in Nat, NEW z \in 1 .. Colours - 1, b = 0 => z <= Red
  PROVE  Colour(b) # Colour(b + z)
<1> DEFINE C == Colours
<1>1. C \in Nat \ {0} /\ Red \in 1 .. C - 1
  BY PillarsAssumption
<1>2. Colour(b + z) = (b + z - 1) % C /\ z \in 1 .. C - 1 /\ z \in Nat
  <2>1. b + z # 0 /\ z \in Nat
    BY <1>1
  <2> QED BY <2>1 DEF Colour
<1> HIDE DEF C
<1>3. CASE b = 0
  <2>1. z - 1 \in 0 .. C - 1 /\ z - 1 = 0 * C + (z - 1)
    BY <1>1, <1>2
  <2>2. (z - 1) % C = z - 1
    BY <1>1, <2>1, CellParts
  <2>3. b + z - 1 = z - 1
    BY <1>2, <1>3
  <2>4. z - 1 # Red
    BY <1>1, <1>2, <1>3
  <2> QED BY <1>2, <1>3, <2>2, <2>3, <2>4 DEF Colour
<1>4. CASE b # 0
  <2> DEFINE q == (b - 1) \div C
             x == (b - 1) % C
  <2>1. b - 1 \in Nat
    BY <1>4
  <2>2. q \in Nat /\ x \in 0 .. C - 1 /\ b - 1 = q * C + x
    <3>1. b - 1 = C * q + x /\ q \in Nat /\ x \in 0 .. C - 1
      BY <1>1, <2>1
    <3> HIDE DEF q, x
    <3> QED BY <1>1, <3>1
  <2>3. Colour(b) = x
    BY <1>4 DEF Colour, C
  <2> HIDE DEF q, x
  <2>4. CASE x + z < C
    <3>1. x + z \in 0 .. C - 1
      BY <1>1, <1>2, <2>2, <2>4
    <3>2. b + z - 1 = q * C + (x + z)
      <4>1. q * C \in Int
        BY <1>1, <2>2
      <4> QED BY <1>2, <2>1, <2>2, <4>1
    <3>3. (b + z - 1) % C = x + z
      BY <1>1, <2>2, <3>1, <3>2, CellParts
    <3> QED BY <1>2, <2>2, <2>3, <3>3
  <2>5. CASE ~(x + z < C)
    <3>1. x + z - C \in 0 .. C - 1 /\ q + 1 \in Nat
      BY <1>1, <1>2, <2>2, <2>5
    <3>2. b + z - 1 = (q + 1) * C + (x + z - C)
      <4>1. (q + 1) * C = q * C + C /\ q * C \in Int
        BY <1>1, <2>2
      <4> QED BY <1>1, <1>2, <2>1, <2>2, <4>1
    <3>3. (b + z - 1) % C = x + z - C
      BY <1>1, <3>1, <3>2, CellParts
    <3> QED BY <1>1, <1>2, <2>2, <2>3, <3>3
  <2> QED BY <2>4, <2>5
<1> QED BY <1>3, <1>4

\* Breaks are as many as jumps before the point.
Zeros(c, i) == {j \in 1 .. i : c[j] = 0}

CountsTo(L, c, s, k) ==
  /\ Cardinality(Zeros(c, L[k])) = Cardinality(Jumped(s, k))
  /\ \A p \in 1 .. L[k] :
       c[p] # 0 => /\ c[p] \in 1 .. k
                   /\ Cardinality(Zeros(c, p)) = Cardinality(Jumped(s, c[p] - 1))

LEMMA CutCounts ==
  ASSUME NEW s \in Seq(Nat), NEW p \in 1 .. Len(Cut(s)), Cut(s)[p] # 0
  PROVE  Cardinality(Zeros(Cut(s), p)) = Cardinality(Jumped(s, Cut(s)[p] - 1))
<1> DEFINE n == Len(s)
           c == Cut(s)
<1>1. n \in Nat
  BY LenProperties
<1>2. PICK L : CutAt(L, s)
  BY CutIs
<1>3. /\ L \in [0 .. n -> Nat] /\ L[0] = 0 /\ Len(c) = L[n] + 1 /\ c[L[n] + 1] = 0
      /\ \A k \in 1 .. n : /\ L[k] = IF Jumps(s, k) THEN L[k - 1] + 2 ELSE L[k - 1] + 1
                           /\ L[k] <= L[n] /\ c[L[k - 1] + 1] = k
                           /\ Jumps(s, k) => c[L[k - 1] + 2] = 0
  BY <1>2 DEF CutAt
<1> HIDE DEF n, c
<1> DEFINE Good == {k \in Nat : k <= n => CountsTo(L, c, s, k)}
<1>4. 0 \in Good
  <2>1. 1 .. 0 = {}
    OBVIOUS
  <2>2. Zeros(c, L[0]) = {} /\ Jumped(s, 0) = {} /\ 1 .. L[0] = {}
    BY <1>3, <2>1 DEF Zeros, Jumped
  <2>3. CountsTo(L, c, s, 0)
    BY <2>2 DEF CountsTo
  <2> QED BY <2>3
<1>5. ASSUME NEW k \in Nat, k \in Good
      PROVE  k + 1 \in Good
  <2> SUFFICES ASSUME k + 1 <= n
               PROVE  CountsTo(L, c, s, k + 1)
    OBVIOUS
  <2> DEFINE e == k + 1
             a == L[k]
             b == L[e]
  <2>1. e \in 1 .. n /\ e - 1 = k /\ k \in 0 .. n /\ e \in 0 .. n /\ e # 0 /\ e \in Nat
    BY <1>1
  <2>2. CountsTo(L, c, s, k)
    BY <1>1, <1>5
  <2>3. /\ a \in Nat /\ b = (IF Jumps(s, e) THEN a + 2 ELSE a + 1) /\ c[a + 1] = e
        /\ Jumps(s, e) => c[a + 2] = 0
    BY <1>3, <2>1
  <2>4. /\ Cardinality(Zeros(c, a)) = Cardinality(Jumped(s, k))
        /\ \A i \in 1 .. a : c[i] # 0 => /\ c[i] \in 1 .. k
                                         /\ Cardinality(Zeros(c, i)) = Cardinality(Jumped(s, c[i] - 1))
    BY <2>2 DEF CountsTo
  <2> HIDE DEF e, a, b
  <2>5. Zeros(c, a + 1) = Zeros(c, a)
    <3>1. \A i : i \in 1 .. a + 1 <=> i \in 1 .. a \/ i = a + 1
      BY <2>3
    <3> QED BY <2>1, <2>3, <3>1 DEF Zeros
  <2>6. IsFiniteSet(Zeros(c, a)) /\ IsFiniteSet(Jumped(s, k))
    <3>1. Zeros(c, a) \in SUBSET (1 .. a) /\ Jumped(s, k) \in SUBSET (1 .. k)
      BY DEF Zeros, Jumped
    <3> QED BY <2>3, <3>1, RankIs
  <2>7. Cardinality(Zeros(c, b)) = Cardinality(Jumped(s, e))
    <3>1. \A i : i \in 1 .. e <=> i \in 1 .. k \/ i = e
      BY <2>1
    <3>2. CASE Jumps(s, e)
      <4>1. \A i : i \in 1 .. a + 2 <=> i \in 1 .. a + 1 \/ i = a + 2
        BY <2>3
      <4>2. Zeros(c, b) = Zeros(c, a + 1) \cup {a + 2}
        BY <2>3, <3>2, <4>1 DEF Zeros
      <4>3. Jumped(s, e) = Jumped(s, k) \cup {e}
        BY <3>1, <3>2 DEF Jumped
      <4>4. a + 2 \notin Zeros(c, a) /\ e \notin Jumped(s, k)
        BY <2>1, <2>3 DEF Zeros, Jumped
      <4>5. Cardinality(Zeros(c, a) \cup {a + 2}) = Cardinality(Zeros(c, a)) + 1
        BY <2>6, <4>4, FS_AddElement
      <4>6. Cardinality(Jumped(s, k) \cup {e}) = Cardinality(Jumped(s, k)) + 1
        BY <2>6, <4>4, FS_AddElement
      <4> QED BY <2>4, <2>5, <4>2, <4>3, <4>5, <4>6
    <3>3. CASE ~Jumps(s, e)
      <4>1. Jumped(s, e) = Jumped(s, k)
        BY <3>1, <3>3 DEF Jumped
      <4> QED BY <2>3, <2>4, <2>5, <3>3, <4>1
    <3> QED BY <3>2, <3>3
  <2>8. ASSUME NEW i \in 1 .. b, c[i] # 0
        PROVE  c[i] \in 1 .. e /\ Cardinality(Zeros(c, i)) = Cardinality(Jumped(s, c[i] - 1))
    <3>1. CASE i \in 1 .. a
      <4>1. c[i] \in 1 .. k /\ Cardinality(Zeros(c, i)) = Cardinality(Jumped(s, c[i] - 1))
        BY <2>4, <2>8, <3>1
      <4> QED BY <2>1, <4>1
    <3>2. CASE i = a + 1
      BY <2>1, <2>3, <2>4, <2>5, <3>2
    <3>3. CASE i \notin 1 .. a /\ i # a + 1
      <4>1. i = a + 2 /\ Jumps(s, e)
        BY <2>3, <3>3
      <4> QED BY <2>3, <2>8, <4>1
    <3> QED BY <3>1, <3>2, <3>3
  <2>9. CountsTo(L, c, s, e)
    BY <2>7, <2>8 DEF CountsTo, b
  <2> QED BY <2>9 DEF e
<1> HIDE DEF Good
<1>6. CountsTo(L, c, s, n)
  <2>1. n \in Good
    BY <1>1, <1>4, <1>5, Induction
  <2> QED BY <1>1, <2>1 DEF Good
<1>7. L[n] \in Nat /\ p \in 1 .. L[n] + 1 /\ c[p] # 0
  BY <1>1, <1>3 DEF c
<1>8. p \in 1 .. L[n]
  BY <1>3, <1>7
<1> QED BY <1>6, <1>7, <1>8 DEF CountsTo, c

\* The colour of a point of the scan, among all that is drawn
LEMMA CutColours ==
  ASSUME NEW s, NEW t, Angled(s, t), NEW m \in Nat, \A k \in 1 .. Len(t) : t[k] = k + m,
         NEW i \in DOMAIN s, NEW colour,
         <<t[i], colour>> \in Image(Broken(s, s, Separator), Broken(s, t, SeparatorAngle),
                                    DOMAIN Broken(s, s, Separator), 0)
  PROVE  colour = Colour(Cardinality({e \in EndsOf(s) : e < i}))
<1> DEFINE n == Len(s)
           c == Cut(s)
           r == Broken(s, s, Separator)
           u == Broken(s, t, SeparatorAngle)
<1>1. s \in Seq(Nat) /\ n \in Nat /\ DOMAIN s = 1 .. n /\ Len(t) = n /\ \A k \in 1 .. n : s[k] \in Nat
  BY LenProperties, ElementOfSeq DEF Angled
<1>2. CutHolds(r, u, c, s, t)
  BY CutValues
<1>3. SeparatorAngle = 0
  BY DEF SeparatorAngle
<1> HIDE DEF c, r, u
<1>4. DOMAIN r = 1 .. Len(c) /\ Len(c) \in Nat
  BY <1>2, LenProperties DEF CutHolds
<1>5. PICK p \in DOMAIN r : u[p] = t[i] /\ colour = Colour(Breaks(r, p, 0))
  BY DEF Image, r, u
<1>6. p \in 1 .. Len(c) /\ c[p] \in 0 .. n /\ u[p] = IF c[p] = 0 THEN 0 ELSE t[c[p]]
  BY <1>2, <1>3, <1>4 DEF CutHolds
<1>7. c[p] = i
  <2>1. i \in 1 .. n /\ t[i] = i + m
    BY <1>1
  <2>2. c[p] # 0
    <3>1. i + m # 0
      BY <1>1, <2>1
    <3>2. c[p] = 0 => u[p] = 0 /\ u[p] = i + m
      BY <1>5, <1>6, <2>1
    <3> QED BY <3>1, <3>2
  <2>3. c[p] \in 1 .. n
    BY <1>1, <1>6, <2>2
  <2>4. t[c[p]] = c[p] + m
    BY <1>1, <2>3
  <2>5. c[p] + m = i + m
    BY <1>5, <1>6, <2>1, <2>2, <2>4
  <2> QED BY <1>1, <2>1, <2>3, <2>5
<1>8. Breaks(r, p, 0) = Cardinality(Zeros(c, p))
  <2>1. ASSUME NEW j \in 1 .. p
        PROVE  r[j] < 0 <=> c[j] = 0
    <3>1. j \in 1 .. Len(c)
      BY <1>4, <1>6
    <3>2. c[j] \in 0 .. n /\ r[j] = IF c[j] = 0 THEN -1 ELSE s[c[j]]
      BY <1>2, <3>1 DEF CutHolds
    <3>3. c[j] # 0 => s[c[j]] \in Nat
      BY <1>1, <3>2
    <3> QED BY <3>2, <3>3
  <2> QED BY <2>1 DEF Breaks, Zeros
<1>9. Cardinality(Zeros(c, p)) = Cardinality(Jumped(s, i - 1))
  <2>1. c[p] # 0
    BY <1>1, <1>7
  <2> QED BY <1>1, <1>6, <1>7, <2>1, CutCounts DEF c
<1>10. {e \in EndsOf(s) : e < i} = Jumped(s, i - 1)
  BY <1>1, EndsBefore
<1> QED BY <1>5, <1>8, <1>9, <1>10

Itself(s) == [i \in DOMAIN s |-> i]
Measured(s) == {i \in DOMAIN s : s[i] > 0}

\* ... and of a scan drawn as it was read
LEMMA SelfColours ==
  ASSUME NEW s \in Seq(Nat), NEW i \in DOMAIN s, NEW colour,
         <<i, colour>> \in Image(s, Itself(s), Measured(s), 1)
  PROVE  s[i] > 0 /\ colour = Colour(Cardinality(Zeros(s, i)))
<1>1. DOMAIN s = 1 .. Len(s) /\ Len(s) \in Nat /\ \A j \in 1 .. Len(s) : s[j] \in Nat
  BY LenProperties, ElementOfSeq
<1>2. PICK p \in Measured(s) : Itself(s)[p] = i /\ colour = Colour(Breaks(s, p, 1))
  BY DEF Image
<1>3. p \in DOMAIN s /\ s[p] > 0 /\ Itself(s)[p] = p
  BY DEF Measured, Itself
<1>4. p = i
  BY <1>2, <1>3
<1>5. \A j \in 1 .. i : s[j] < 1 <=> s[j] = 0
  <2>1. ASSUME NEW j \in 1 .. i
        PROVE  s[j] \in Nat
    BY <1>1
  <2> QED BY <2>1
<1>6. Breaks(s, i, 1) = Cardinality(Zeros(s, i))
  BY <1>5 DEF Breaks, Zeros
<1> QED BY <1>2, <1>3, <1>4, <1>6

LEMMA ZerosBetween ==
  ASSUME NEW s \in Seq(Nat), NEW i \in DOMAIN s, NEW j \in DOMAIN s, i < j, s[i] > 0
  PROVE  /\ Cardinality(Zeros(s, i)) \in Nat
         /\ Cardinality({k \in i .. j : s[k] = 0}) \in Nat
         /\ Cardinality(Zeros(s, j)) = Cardinality(Zeros(s, i)) + Cardinality({k \in i .. j : s[k] = 0})
         /\ Cardinality(Zeros(s, i)) = 0 => \A k \in 1 .. i : s[k] > 0
<1> DEFINE a == Zeros(s, i)
           b == {k \in i .. j : s[k] = 0}
<1>1. DOMAIN s = 1 .. Len(s) /\ Len(s) \in Nat /\ \A k \in 1 .. Len(s) : s[k] \in Nat
  BY LenProperties, ElementOfSeq
<1>2. i \in Nat /\ j \in Nat
  BY <1>1
<1>3. IsFiniteSet(a) /\ IsFiniteSet(b)
  <2>1. a \in SUBSET (1 .. i) /\ b \in SUBSET (1 .. j)
    BY <1>1, <1>2 DEF Zeros
  <2> QED BY <1>2, <2>1, RankIs
<1>4. a \cap b = {}
  <2>1. ASSUME NEW k \in a, k \in b
        PROVE  FALSE
    <3>1. k \in 1 .. i /\ k \in i .. j /\ s[k] = 0
      BY <2>1 DEF Zeros
    <3>2. k = i
      BY <1>2, <3>1
    <3> QED BY <3>1, <3>2
  <2> QED BY <2>1
<1>5. Zeros(s, j) = a \cup b
  <2>1. \A k : k \in 1 .. j <=> k \in 1 .. i \/ k \in i .. j
    BY <1>1, <1>2
  <2> QED BY <2>1 DEF Zeros
<1>6. Cardinality(a) \in Nat /\ Cardinality(b) \in Nat
  BY <1>3, FS_CardinalityType
<1> HIDE DEF a, b
<1>7. Cardinality(a \cup b) = Cardinality(a) + Cardinality(b)
  <2>1. Cardinality(a \cup b) = Cardinality(a) + Cardinality(b) - Cardinality({})
    BY <1>3, <1>4, FS_Union
  <2> QED BY <1>6, <2>1, FS_EmptySet
<1>8. ASSUME Cardinality(a) = 0, NEW k \in 1 .. i
      PROVE  s[k] > 0
  <2>1. a = {}
    BY <1>3, <1>8, FS_EmptySet
  <2>2. s[k] \in Nat /\ s[k] # 0
    BY <1>1, <2>1 DEF a, Zeros
  <2> QED BY <2>2
<1> QED BY <1>5, <1>6, <1>7, <1>8 DEF a, b

\* The angles are steps in order, and the image is one of the scan.
ImageHeld ==
  /\ \E m \in Nat : \A i \in 1 .. Len(RadarTheta) : RadarTheta[i] = i + m
  /\ phase = "drawn" =>
       drawn = Image(BreakedRadarRho, BreakedRadarTheta, DOMAIN BreakedRadarRho, 0)
  /\ phase = "self" => drawn = Image(data, Itself(data), Measured(data), 1)
  /\ \A p \in drawn : p[2] \in 0 .. Colours - 1

LEMMA ImageColours ==
  ASSUME NEW s, NEW t, NEW places \in SUBSET Nat, NEW least
  PROVE  \A p \in Image(s, t, places, least) : p[2] \in 0 .. Colours - 1
<1> SUFFICES ASSUME NEW p \in Image(s, t, places, least)
             PROVE  p[2] \in 0 .. Colours - 1
  OBVIOUS
<1>1. PICK i \in places : p = <<t[i], Colour(Breaks(s, i, least))>>
  BY DEF Image
<1>2. Breaks(s, i, least) \in Nat
  <2>1. {j \in 1 .. i : s[j] < least} \in SUBSET (1 .. i) /\ i \in Nat
    OBVIOUS
  <2> QED BY <2>1, RankIs DEF Breaks
<1> QED BY <1>1, <1>2, ColourIs

LEMMA ImageHeldInit == Init => ImageHeld
<1> SUFFICES ASSUME Init
             PROVE  ImageHeld
  OBVIOUS
<1>1. RadarTheta = <<>> /\ phase = "start" /\ drawn = {}
  BY DEF Init
<1>2. 0 \in Nat /\ \A i \in 1 .. Len(<<>>) : RadarTheta[i] = i + 0
  <2>1. Len(<<>>) = 0 /\ 1 .. 0 = {}
    BY EmptySeq
  <2> QED BY <2>1
<1> QED BY <1>1, <1>2 DEF ImageHeld

LEMMA ImageHeldStep ==
  ASSUME ScanHeld, PiecesHeld, ImageHeld, [Next]_vars
  PROVE  ImageHeld'
<1>0. PICK m \in Nat : \A i \in 1 .. Len(RadarTheta) : RadarTheta[i] = i + m
  BY DEF ImageHeld
<1>1. CASE RadarRead
  <2>1. data' \in Seq(Nat) /\ phase' = "read" /\ drawn' = drawn
    BY <1>1, PillarsAssumption DEF RadarRead, pieces
  <2>2. RadarTheta' = Steps(data')
    BY <1>1, <2>1, ScanHeldStep DEF ScanHeld
  <2>3. Steps(data') = [i \in 1 .. Len(data') |-> i] /\ Len(data') \in Nat
    BY <2>1, LenProperties DEF Steps
  <2>4. \A i \in 1 .. Len(RadarTheta') : RadarTheta'[i] = i + 0
    <3>1. Len(Steps(data')) = Len(data')
      BY <2>3
    <3> QED BY <2>2, <2>3, <3>1
  <2> QED BY <1>1, <2>1, <2>4 DEF ImageHeld, RadarRead
<1>2. CASE MedFilter
  <2>1. /\ RadarTheta' = Middle(Steps(data)) /\ data \in Seq(Nat) /\ phase' = "filtered"
        /\ drawn' = drawn
    BY <1>2 DEF MedFilter, ScanHeld
  <2> DEFINE n == Len(data)
             k == IF n < 4 THEN 0 ELSE n - 4
  <2>2. n \in Nat
    BY <2>1, LenProperties
  <2>3. k \in Nat /\ 1 .. n - 4 = 1 .. k
    BY <2>2
  <2>4. RadarTheta' = [i \in 1 .. k |-> i + 2]
    BY <2>1, <2>3, MiddleIs
  <2> HIDE DEF k
  <2>5. \A i \in 1 .. Len(RadarTheta') : RadarTheta'[i] = i + 2
    <3>1. Len([i \in 1 .. k |-> i + 2]) = k
      BY <2>3
    <3> QED BY <2>4, <3>1
  <2> QED BY <2>1, <2>5 DEF ImageHeld
<1>3. CASE BreakRadarRho
  BY <1>0, <1>3 DEF BreakRadarRho, ImageHeld, scan
<1>4. CASE CreateRadarImage
  <2>1. /\ phase' = "drawn" /\ phase = "broken" /\ UNCHANGED <<scan, pieces>>
        /\ drawn' = Image(BreakedRadarRho, BreakedRadarTheta, DOMAIN BreakedRadarRho, 0)
    BY <1>4 DEF CreateRadarImage
  <2>2. DOMAIN BreakedRadarRho \in SUBSET Nat
    <3>1. Seen(BreakedRadarRho, BreakedRadarTheta)
      BY <2>1, BrokenSeen DEF PiecesHeld
    <3>2. DOMAIN BreakedRadarRho = 1 .. Len(BreakedRadarRho) /\ Len(BreakedRadarRho) \in Nat
      BY <3>1, LenProperties DEF Seen
    <3> QED BY <3>2
  <2>3. \A p \in drawn' : p[2] \in 0 .. Colours - 1
    BY <2>1, <2>2, ImageColours
  <2> QED BY <1>0, <2>1, <2>3 DEF ImageHeld, scan, pieces
<1>5. CASE FitArc
  BY <1>0, <1>5 DEF FitArc, ImageHeld, scan, pieces
<1>6. CASE DFCOMPush
  BY <1>0, <1>6 DEF DFCOMPush, ImageHeld, scan, pieces
<1>7. CASE DFCOMPop
  BY <1>0, <1>7 DEF DFCOMPop, ImageHeld, scan, pieces
<1>8. CASE CreateRadarImageself
  <2>1. /\ phase' = "self" /\ RadarTheta' = RadarTheta /\ data' \in Seq(Nat)
        /\ drawn' = Image(data', Itself(data'), Measured(data'), 1)
    BY <1>8, PillarsAssumption DEF CreateRadarImageself, Itself, Measured
  <2>2. Measured(data') \in SUBSET Nat
    <3>1. DOMAIN data' = 1 .. Len(data') /\ Len(data') \in Nat
      BY <2>1, LenProperties
    <3> QED BY <3>1 DEF Measured
  <2>3. \A p \in drawn' : p[2] \in 0 .. Colours - 1
    BY <2>1, <2>2, ImageColours
  <2>4. drawn' = Image(data, Itself(data), Measured(data), 1)'
    BY <2>1 DEF Image, Itself, Measured, InImage, Pixel, Breaks, Colour, Quotient
  <2> QED BY <1>0, <2>1, <2>3, <2>4 DEF ImageHeld
<1>9. CASE UNCHANGED vars
  BY <1>0, <1>9 DEF vars, ImageHeld
<1> QED BY <1>1, <1>2, <1>3, <1>4, <1>5, <1>6, <1>7, <1>8, <1>9 DEF Next

DrawnTells ==
  \A i, j \in DOMAIN RadarRho : \A c, d :
    <<RadarTheta[i], c>> \in drawn /\ <<RadarTheta[j], d>> \in drawn =>
      /\ PieceOf(i) = PieceOf(j) => c = d
      /\ PieceOf(i) = PieceOf(j) + 1 => c # d

LEMMA HeldDrawnTells ==
  ASSUME PiecesHeld, ImageHeld, phase = "drawn"
  PROVE  DrawnTells
<1> DEFINE s == RadarRho
           t == RadarTheta
<1>1. Angled(s, t) /\ drawn = Image(Broken(s, s, Separator), Broken(s, t, SeparatorAngle),
                                    DOMAIN Broken(s, s, Separator), 0)
  BY DEF PiecesHeld, ImageHeld
<1>2. PICK m \in Nat : \A k \in 1 .. Len(t) : t[k] = k + m
  BY DEF ImageHeld
<1>3. DOMAIN s = 1 .. Len(s) /\ Len(s) \in Nat
  BY <1>1, LenProperties DEF Angled
<1>4. Ends = EndsOf(s)
  BY DEF Ends, EndsOf
<1>5. ASSUME NEW i \in DOMAIN s
      PROVE  PieceOf(i) \in Nat
  <2>1. PieceOf(i) = Cardinality(Jumped(s, i - 1))
    BY <1>3, <1>4, EndsBefore DEF PieceOf
  <2>2. i - 1 \in Nat /\ Jumped(s, i - 1) \in SUBSET (1 .. i - 1)
    BY <1>3 DEF Jumped
  <2> QED BY <2>1, <2>2, RankIs
<1>6. ASSUME NEW i \in DOMAIN s, NEW c, <<t[i], c>> \in drawn
      PROVE  c = Colour(PieceOf(i))
  BY <1>1, <1>2, <1>4, <1>6, CutColours DEF PieceOf
<1>7. ASSUME NEW i \in DOMAIN s, NEW j \in DOMAIN s, NEW c, NEW d,
             <<t[i], c>> \in drawn, <<t[j], d>> \in drawn
      PROVE  /\ PieceOf(i) = PieceOf(j) => c = d
             /\ PieceOf(i) = PieceOf(j) + 1 => c # d
  <2>1. c = Colour(PieceOf(i)) /\ d = Colour(PieceOf(j)) /\ PieceOf(j) \in Nat
    BY <1>5, <1>6, <1>7
  <2>2. 1 \in 1 .. Colours - 1 /\ 1 <= Red
    BY PillarsAssumption
  <2>3. Colour(PieceOf(j)) # Colour(PieceOf(j) + 1)
    BY <2>1, <2>2, ColoursApart
  <2> QED BY <2>1, <2>3
<1> QED BY <1>7, Zenon DEF DrawnTells

SelfTells ==
  \A i, j \in DOMAIN data : \A c, d :
    i < j /\ <<i, c>> \in drawn /\ <<j, d>> \in drawn =>
      LET zeros == Cardinality({k \in i .. j : data[k] = 0})
      IN  /\ data[i] > 0 /\ data[j] > 0
          /\ zeros = 0 => c = d
          /\ zeros \in 1 .. Colours - 1 /\ ((\A k \in 1 .. i : data[k] > 0) => zeros <= Red)
               => c # d

LEMMA HeldSelfTells ==
  ASSUME ScanHeld, ImageHeld, phase = "self"
  PROVE  SelfTells
<1> SUFFICES ASSUME NEW i \in DOMAIN data, NEW j \in DOMAIN data, NEW c, NEW d,
                    i < j, <<i, c>> \in drawn, <<j, d>> \in drawn
             PROVE  LET zeros == Cardinality({k \in i .. j : data[k] = 0})
                    IN  /\ data[i] > 0 /\ data[j] > 0
                        /\ zeros = 0 => c = d
                        /\ /\ zeros \in 1 .. Colours - 1
                           /\ (\A k \in 1 .. i : data[k] > 0) => zeros <= Red
                           => c # d
  BY DEF SelfTells
<1> DEFINE zeros == Cardinality({k \in i .. j : data[k] = 0})
           b == Cardinality(Zeros(data, i))
<1>1. data \in Seq(Nat) /\ drawn = Image(data, Itself(data), Measured(data), 1)
  BY DEF ScanHeld, ImageHeld
<1>2. data[i] > 0 /\ c = Colour(b) /\ data[j] > 0 /\ d = Colour(Cardinality(Zeros(data, j)))
  BY <1>1, SelfColours
<1>3. /\ b \in Nat /\ zeros \in Nat /\ Cardinality(Zeros(data, j)) = b + zeros
      /\ b = 0 => \A k \in 1 .. i : data[k] > 0
  BY <1>1, <1>2, ZerosBetween
<1> HIDE DEF zeros, b
<1>4. zeros = 0 => c = d
  <2>1. zeros = 0 => b + zeros = b
    BY <1>3
  <2> QED BY <1>2, <1>3, <2>1
<1>5. ASSUME zeros \in 1 .. Colours - 1, (\A k \in 1 .. i : data[k] > 0) => zeros <= Red
      PROVE  c # d
  BY <1>2, <1>3, <1>5, ColoursApart
<1> QED BY <1>2, <1>4, <1>5 DEF zeros

LEMMA HeldColoursTell ==
  ASSUME ScanHeld, PiecesHeld, ImageHeld
  PROVE  ColoursTellPieces
<1>1. {p[2] : p \in drawn} \subseteq 0 .. Colours - 1
  BY DEF ImageHeld
<1>2. phase = "drawn" => DrawnTells
  BY HeldDrawnTells
<1>3. phase = "self" => SelfTells
  BY HeldSelfTells
<1> QED BY <1>1, <1>2, <1>3, Zenon DEF ColoursTellPieces, DrawnTells, SelfTells

\* The colours of the image tell a piece from the one after it, and in a scan
\* drawn as it was read what lies on either side of a gap, whatever the scan.
THEOREM ColoursAlwaysTell == Spec => []ColoursTellPieces
<1>1. Init => ScanHeld /\ PiecesHeld /\ ImageHeld
  BY ScanHeldInit, PiecesHeldInit, ImageHeldInit
<1>2. ScanHeld /\ PiecesHeld /\ ImageHeld /\ [Next]_vars => ScanHeld' /\ PiecesHeld' /\ ImageHeld'
  BY ScanHeldStep, PiecesHeldStep, ImageHeldStep
<1>3. ScanHeld /\ PiecesHeld /\ ImageHeld => ColoursTellPieces
  BY HeldColoursTell
<1> QED BY <1>1, <1>2, <1>3, PTL DEF Spec
=============================================================================
