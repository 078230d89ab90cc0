---------------------------- MODULE ReorderProofs ---------------------------
(***************************************************************************)
(* What is proved of the reorder buffer, for every sequence space, window, *)
(* bound and set of incarnations, and for a transport that delivers        *)
(* anything in any order: it stays below its bound, holds nothing that is  *)
(* deliverable, and loses, invents and inverts nothing.                    *)
(***************************************************************************)
EXTENDS ReorderBuffer, FiniteSetTheorems, SequenceTheorems, TLAPS

Orders == [started : BOOLEAN, epoch : Incarnations \cup {0}, next : Numbers,
           held : SUBSET Numbers, age : 0 .. Window]

\* BufferInBounds of a state p of the publisher, and that nothing is held before
\* its first event.
IsOrder(p) ==
    /\ p \in Orders
    /\ Cardinality(p.held) < MaxHeld
    /\ \A s \in p.held : s > p.next
    /\ ~p.started => p.held = {}

\* The events numbered seqs of one epoch.
EventsOf(e, seqs) == {Event(e, s) : s \in seqs}

\* NothingLost and NeverInverts of a call that is given some events in state p.
Lossless(p, given, r) ==
    EventsOf(p.epoch, p.held) \cup given = EventsOf(r.order.epoch, r.order.held) \cup Range(r.out)

Straight(p, r) ==
    LET old == {i \in DOMAIN r.out : r.out[i][1] = p.epoch}
    IN  \A i \in old :
            /\ \A j \in old : i < j => r.out[i][2] < r.out[j][2]
            /\ r.order.epoch = p.epoch => \A h \in r.order.held : r.out[i][2] < h

Faithful(p, given, r) == IsOrder(r.order) /\ Lossless(p, given, r) /\ Straight(p, r)

-----------------------------------------------------------------------------
(* Sorting.                                                                *)

LEMMA Sizes ==
    /\ TopSeq \in Nat /\ Window \in Nat \ {0} /\ MaxHeld \in Nat \ {0}
    /\ Numbers = 0 .. TopSeq /\ Incarnations \subseteq Nat
BY ReorderAssumption, IncarnationsAssumption DEF Numbers

LEMMA NumberFacts ==
    ASSUME NEW S, S \subseteq Numbers
    PROVE  TopSeq \in Nat /\ \A s \in S : s \in Nat /\ s <= TopSeq
BY ReorderAssumption DEF Numbers

LEMMA FiniteNumbers ==
    ASSUME NEW S, S \subseteq Numbers
    PROVE  IsFiniteSet(S) /\ Cardinality(S) \in Nat
<1>1. IsFiniteSet(0 .. TopSeq)
  BY Sizes, FS_Interval
<1>2. IsFiniteSet(S)
  BY <1>1, Sizes, FS_Subset, Zenon
<1> QED
  BY <1>2, FS_CardinalityType

LEMMA LeastOfNat ==
    ASSUME NEW T, T \subseteq Nat, T # {}
    PROVE  \E x \in T : \A y \in T : x <= y
<1>1. PICK x \in T : \A y \in T : ~(<<y, x>> \in OpToRel(<, Nat))
  BY NatLessThanWellFounded, WFMin
<1>2. \A y \in T : ~(y < x)
  BY <1>1, Zenon DEF OpToRel
<1> QED
  BY <1>2

LEMMA MaxFacts ==
    ASSUME NEW S, S \subseteq Numbers, S # {}
    PROVE  Max(S) \in S /\ \A y \in S : y <= Max(S)
<1> DEFINE T == {TopSeq - x : x \in S}
<1>0. TopSeq \in Nat /\ \A s \in S : s \in Nat /\ s <= TopSeq
  BY NumberFacts
<1>1. T \subseteq Nat /\ T # {}
  BY <1>0
<1>2. PICK t \in T : \A y \in T : t <= y
  BY <1>1, LeastOfNat, Zenon
<1>3. PICK x \in S : t = TopSeq - x
  BY <1>2
<1>4. \A y \in S : x >= y
  <2> SUFFICES ASSUME NEW y \in S
               PROVE  x >= y
    OBVIOUS
  <2>1. TopSeq - x <= TopSeq - y /\ x \in Nat /\ y \in Nat /\ TopSeq \in Nat
    BY <1>0, <1>2, <1>3
  <2> QED
    BY <2>1
<1>5. Max(S) \in S /\ \A y \in S : Max(S) >= y
  BY <1>3, <1>4 DEF Max
<1> QED
  BY <1>0, <1>5

\* How many numbers of S are below s.
Rank(S, s) == Cardinality({t \in S : t < s})

LEMMA RankFacts ==
    ASSUME NEW S, S \subseteq Numbers
    PROVE  /\ \A s \in S : Rank(S, s) \in 0 .. Cardinality(S) - 1
           /\ \A s, t \in S : s < t => Rank(S, s) < Rank(S, t)
<1>0. IsFiniteSet(S) /\ Cardinality(S) \in Nat /\ \A s \in S : s \in Nat
  BY FiniteNumbers, NumberFacts
<1>1. ASSUME NEW A, NEW B, A \subseteq B, B \subseteq S, NEW x \in B, x \notin A
      PROVE  Cardinality(A) \in Nat /\ Cardinality(B) \in Nat /\ Cardinality(A) < Cardinality(B)
  <2>1. IsFiniteSet(B)
    BY <1>0, <1>1, FS_Subset
  <2>2. /\ IsFiniteSet(A) /\ Cardinality(A) <= Cardinality(B)
        /\ Cardinality(A) = Cardinality(B) => A = B
    BY <1>1, <2>1, FS_Subset
  <2>3. Cardinality(A) \in Nat /\ Cardinality(B) \in Nat
    BY <2>1, <2>2, FS_CardinalityType
  <2> QED
    BY <1>1, <2>2, <2>3
<1>2. ASSUME NEW s \in S
      PROVE  Rank(S, s) \in 0 .. Cardinality(S) - 1
  <2>1. s \notin {t \in S : t < s} /\ {t \in S : t < s} \subseteq S
    BY <1>0
  <2>2. Rank(S, s) \in Nat /\ Rank(S, s) < Cardinality(S)
    BY <1>1, <2>1 DEF Rank
  <2> QED
    BY <1>0, <2>2
<1>3. ASSUME NEW s \in S, NEW t \in S, s < t
      PROVE  Rank(S, s) < Rank(S, t)
  <2>1. /\ {u \in S : u < s} \subseteq {u \in S : u < t} /\ {u \in S : u < t} \subseteq S
        /\ s \in {u \in S : u < t} /\ s \notin {u \in S : u < s}
    BY <1>0, <1>3
  <2> QED
    BY <1>1, <2>1 DEF Rank
<1> QED
  BY <1>2, <1>3

\* Ascending lists the numbers of S, each once, from the lowest up.
LEMMA AscendingFacts ==
    ASSUME NEW S, S \subseteq Numbers, NEW n, n = Cardinality(S)
    PROVE  /\ n \in Nat
           /\ \A i \in 1 .. n : Ascending(S)[i] \in S
           /\ \A s \in S : \E i \in 1 .. n : Ascending(S)[i] = s
           /\ \A i, j \in 1 .. n : i < j => Ascending(S)[i] < Ascending(S)[j]
<1>0. IsFiniteSet(S) /\ n \in Nat /\ \A s \in S : s \in Nat
  BY FiniteNumbers, NumberFacts
<1>1. /\ \A s \in S : Rank(S, s) \in 0 .. n - 1
      /\ \A s, t \in S : s < t => Rank(S, s) < Rank(S, t)
  BY RankFacts
<1> DEFINE f == [s \in S |-> Rank(S, s) + 1]
<1>2. f \in Injection(S, 1 .. n)
  <2>1. f \in [S -> 1 .. n]
    BY <1>0, <1>1
  <2>2. ASSUME NEW s \in S, NEW t \in S, f[s] = f[t]
        PROVE  s = t
    <3>1. Rank(S, s) = Rank(S, t) /\ Rank(S, s) \in Nat /\ Rank(S, t) \in Nat
      BY <1>0, <1>1, <2>2
    <3>2. ~(s < t) /\ ~(t < s)
      BY <1>1, <3>1
    <3> QED
      BY <1>0, <3>2
  <2> QED
    BY <2>1, <2>2 DEF Injection, IsInjective
<1>3. IsFiniteSet(1 .. n) /\ Cardinality(1 .. n) = n
  BY <1>0, FS_Interval
<1> HIDE DEF f
<1>4. f \in Surjection(S, 1 .. n)
  BY <1>2, <1>3, FS_Injection
<1>5. ASSUME NEW i \in 1 .. n
      PROVE  Ascending(S)[i] \in S /\ Rank(S, Ascending(S)[i]) = i - 1
  <2>1. PICK s \in S : f[s] = i
    BY <1>4 DEF Surjection
  <2>2. Rank(S, s) = i - 1
    BY <1>0, <1>1, <2>1 DEF f
  <2>3. Ascending(S)[i] = CHOOSE t \in S : Rank(S, t) = i - 1
    BY Zenon DEF Ascending, Rank
  <2> QED
    BY <2>2, <2>3
<1>6. ASSUME NEW s \in S
      PROVE  \E i \in 1 .. n : Ascending(S)[i] = s
  <2>1. PICK i \in 1 .. n : i = Rank(S, s) + 1
    BY <1>0, <1>1
  <2>2. Ascending(S)[i] \in S /\ Rank(S, Ascending(S)[i]) = Rank(S, s) /\ Rank(S, s) \in Nat
    BY <1>0, <1>1, <1>5, <2>1
  <2>3. ~(s < Ascending(S)[i]) /\ ~(Ascending(S)[i] < s)
    BY <1>1, <2>2
  <2> QED
    BY <1>0, <2>2, <2>3
<1>7. ASSUME NEW i \in 1 .. n, NEW j \in 1 .. n, i < j
      PROVE  Ascending(S)[i] < Ascending(S)[j]
  <2> DEFINE a == Ascending(S)[i]
             b == Ascending(S)[j]
  <2>1. a \in S /\ b \in S /\ Rank(S, a) = i - 1 /\ Rank(S, b) = j - 1
    BY <1>5
  <2> HIDE DEF a, b
  <2>2. Rank(S, a) < Rank(S, b) /\ Rank(S, a) \in Nat /\ Rank(S, b) \in Nat
    BY <1>0, <1>1, <1>7, <2>1
  <2>3. ~(b < a) /\ a # b
    BY <1>1, <2>1, <2>2
  <2>4. a < b
    BY <1>0, <2>1, <2>3
  <2> QED
    BY <2>4 DEF a, b
<1> QED
  BY <1>0, <1>5, <1>6, <1>7

-----------------------------------------------------------------------------
(* What a call hands on.                                                   *)

\* q is the events of epoch e numbered S, in sequence order.
IsRun(q, e, S) ==
    /\ q \in Seq(Nat \X Nat) /\ S \subseteq Nat
    /\ \A i \in 1 .. Len(q) : q[i][2] \in S /\ q[i] = Event(e, q[i][2])
    /\ \A s \in S : \E i \in 1 .. Len(q) : q[i] = Event(e, s)
    /\ \A i, j \in 1 .. Len(q) : i < j => q[i][2] < q[j][2]

LEMMA EventsRun ==
    ASSUME NEW p, p.epoch \in Nat, NEW S, S \subseteq Numbers
    PROVE  IsRun(Events(p, S), p.epoch, S)
<1>1. PICK n, q, a : n = Cardinality(S) /\ q = Events(p, S) /\ a = Ascending(S)
  OBVIOUS
<1>2. /\ n \in Nat
      /\ \A i \in 1 .. n : a[i] \in S
      /\ \A s \in S : \E i \in 1 .. n : a[i] = s
      /\ \A i, j \in 1 .. n : i < j => a[i] < a[j]
  BY <1>1, AscendingFacts
<1>3. S \subseteq Nat
  BY NumberFacts
<1>4. q = [i \in 1 .. n |-> <<p.epoch, a[i]>>]
  BY <1>1 DEF Events, Event
<1>5. \A i \in 1 .. n : q[i] = <<p.epoch, a[i]>> /\ q[i] \in Nat \X Nat
  BY <1>2, <1>3, <1>4, Zenon
<1>6. q \in Seq(Nat \X Nat) /\ Len(q) = n
  BY <1>2, <1>4, <1>5
<1>7. \A i \in 1 .. n : q[i][2] = a[i] /\ q[i] = Event(p.epoch, a[i])
  BY <1>5 DEF Event
<1>8. \A i \in 1 .. Len(q) : q[i][2] \in S /\ q[i] = Event(p.epoch, q[i][2])
  BY <1>2, <1>6, <1>7, Zenon
<1>9. \A s \in S : \E i \in 1 .. Len(q) : q[i] = Event(p.epoch, s)
  BY <1>2, <1>6, <1>7
<1>10. \A i, j \in 1 .. Len(q) : i < j => q[i][2] < q[j][2]
  BY <1>2, <1>6, <1>7
<1>11. IsRun(q, p.epoch, S)
  BY <1>3, <1>6, <1>8, <1>9, <1>10 DEF IsRun
<1> QED
  BY <1>1, <1>11

LEMMA NoRun == ASSUME NEW e PROVE IsRun(<<>>, e, {})
BY DEF IsRun

LEMMA OneRun ==
    ASSUME NEW e \in Nat, NEW s \in Nat
    PROVE  IsRun(<<Event(e, s)>>, e, {s})
<1>1. PICK q : q = <<Event(e, s)>>
  BY Zenon
<1>2. q \in Seq(Nat \X Nat) /\ Len(q) = 1 /\ q[1] = <<e, s>> /\ q[1][2] = s
  BY <1>1 DEF Event
<1>3. \A i \in 1 .. Len(q) : i = 1
  BY <1>2
<1>4. 1 \in 1 .. Len(q)
  BY <1>2
<1> QED
  BY <1>1, <1>2, <1>3, <1>4 DEF IsRun, Event

LEMMA RunRange ==
    ASSUME NEW q, NEW e, NEW S, IsRun(q, e, S)
    PROVE  Range(q) = EventsOf(e, S)
<1>1. q \in Seq(Nat \X Nat) /\ DOMAIN q = 1 .. Len(q)
  BY LenProperties DEF IsRun
<1>2. ASSUME NEW x \in Range(q)
      PROVE  x \in EventsOf(e, S)
  <2>1. PICK i \in 1 .. Len(q) : x = q[i]
    BY <1>1 DEF Range
  <2>2. q[i][2] \in S /\ q[i] = Event(e, q[i][2])
    BY DEF IsRun
  <2> QED
    BY <2>1, <2>2, Zenon DEF EventsOf
<1>3. ASSUME NEW x \in EventsOf(e, S)
      PROVE  x \in Range(q)
  <2>1. PICK s \in S : x = Event(e, s)
    BY DEF EventsOf
  <2>2. PICK i \in 1 .. Len(q) : q[i] = Event(e, s)
    BY DEF IsRun
  <2> QED
    BY <1>1, <2>1, <2>2 DEF Range
<1> QED
  BY <1>2, <1>3

\* A run in front of which its predecessor is put.
LEMMA RunBehind ==
    ASSUME NEW e \in Nat, NEW s \in Nat, NEW q, NEW S, IsRun(q, e, S), \A t \in S : s < t
    PROVE  IsRun(<<Event(e, s)>> \o q, e, {s} \cup S)
<1>1. PICK a : a = <<Event(e, s)>>
  BY Zenon
<1>2. a \in Seq(Nat \X Nat) /\ Len(a) = 1 /\ a[1] = Event(e, s) /\ a[1][2] = s
  BY <1>1 DEF Event
<1>3. q \in Seq(Nat \X Nat) /\ Len(q) \in Nat
  BY LenProperties DEF IsRun
<1>4. PICK r : r = a \o q
  BY Zenon
<1>5. /\ a \o q \in Seq(Nat \X Nat) /\ Len(a \o q) = Len(a) + Len(q)
      /\ \A i \in 1 .. Len(a) + Len(q) : (a \o q)[i] = IF i <= Len(a) THEN a[i] ELSE q[i - Len(a)]
  BY <1>2, <1>3, ConcatProperties, Zenon
<1>6. /\ r \in Seq(Nat \X Nat) /\ Len(r) = Len(a) + Len(q)
      /\ \A i \in 1 .. Len(a) + Len(q) : r[i] = IF i <= Len(a) THEN a[i] ELSE q[i - Len(a)]
  BY <1>4, <1>5, Zenon
<1>7. /\ Len(r) = Len(q) + 1 /\ r[1] = Event(e, s) /\ r[1][2] = s
      /\ \A i \in 2 .. Len(r) : i - 1 \in 1 .. Len(q) /\ r[i] = q[i - 1]
      /\ \A i \in 1 .. Len(q) : i + 1 \in 2 .. Len(r) /\ r[i + 1] = q[i]
  <2>1. Len(r) = Len(q) + 1 /\ 1 \in 1 .. Len(a) + Len(q) /\ 1 <= Len(a)
    BY <1>2, <1>3, <1>6
  <2>2. r[1] = a[1]
    BY <1>6, <2>1
  <2>3. ASSUME NEW i \in 2 .. Len(r)
        PROVE  i - 1 \in 1 .. Len(q) /\ r[i] = q[i - 1]
    <3>1. i \in 1 .. Len(a) + Len(q) /\ ~(i <= Len(a)) /\ i - 1 \in 1 .. Len(q) /\ i - Len(a) = i - 1
      BY <1>2, <1>3, <2>1
    <3> QED
      BY <1>6, <3>1, Zenon
  <2>4. ASSUME NEW i \in 1 .. Len(q)
        PROVE  i + 1 \in 2 .. Len(r) /\ r[i + 1] = q[i]
    <3>1. i + 1 \in 2 .. Len(r) /\ (i + 1) - 1 = i
      BY <1>3, <2>1
    <3> QED
      BY <2>3, <3>1
  <2> QED
    BY <1>2, <2>1, <2>2, <2>3, <2>4
<1>8. \A i \in 1 .. Len(r) : i = 1 \/ i \in 2 .. Len(r)
  BY <1>3, <1>7
<1>9. \A i \in 1 .. Len(r) : r[i][2] \in {s} \cup S /\ r[i] = Event(e, r[i][2])
  <2> SUFFICES ASSUME NEW i \in 1 .. Len(r)
               PROVE  r[i][2] \in {s} \cup S /\ r[i] = Event(e, r[i][2])
    OBVIOUS
  <2>1. CASE i = 1
    BY <1>7, <2>1
  <2>2. CASE i \in 2 .. Len(r)
    <3>1. i - 1 \in 1 .. Len(q) /\ r[i] = q[i - 1]
      BY <1>7, <2>2
    <3>2. q[i - 1][2] \in S /\ q[i - 1] = Event(e, q[i - 1][2])
      BY <3>1 DEF IsRun
    <3> QED
      BY <3>1, <3>2
  <2> QED
    BY <1>8, <2>1, <2>2
<1>10. \A t \in {s} \cup S : \E i \in 1 .. Len(r) : r[i] = Event(e, t)
  <2>1. 1 \in 1 .. Len(r) /\ \A i \in 2 .. Len(r) : i \in 1 .. Len(r)
    BY <1>3, <1>7
  <2>2. ASSUME NEW t \in S
        PROVE  \E i \in 1 .. Len(r) : r[i] = Event(e, t)
    <3>1. PICK i \in 1 .. Len(q) : q[i] = Event(e, t)
      BY DEF IsRun
    <3> QED
      BY <1>7, <2>1, <3>1, SMTT(20)
  <2> QED
    BY <1>7, <2>1, <2>2
<1>11. ASSUME NEW i \in 1 .. Len(r), NEW j \in 1 .. Len(r), i < j
       PROVE  r[i][2] < r[j][2]
  <2>1. j \in 2 .. Len(r) /\ j - 1 \in 1 .. Len(q) /\ r[j] = q[j - 1]
    BY <1>7, <1>8, <1>11
  <2>2. CASE i = 1
    BY <1>7, <2>1, <2>2, Zenon DEF IsRun
  <2>3. CASE i \in 2 .. Len(r)
    <3>1. i - 1 \in 1 .. Len(q) /\ r[i] = q[i - 1] /\ i - 1 < j - 1
      BY <1>7, <1>11, <2>3
    <3> QED
      BY <2>1, <3>1, Zenon DEF IsRun
  <2> QED
    BY <1>8, <2>2, <2>3
<1>12. {s} \cup S \subseteq Nat
  BY DEF IsRun
<1> QED
  BY <1>1, <1>4, <1>6, <1>9, <1>10, <1>11, <1>12, Zenon DEF IsRun

-----------------------------------------------------------------------------
(* The calls.                                                              *)

LEMMA AfterFacts ==
    ASSUME NEW x \in Numbers
    PROVE  After(x) \in Numbers /\ (x < TopSeq => After(x) = x + 1)
BY Sizes DEF After

LEMMA OrderFacts ==
    ASSUME NEW p, IsOrder(p)
    PROVE  /\ p.started \in BOOLEAN /\ p.epoch \in Incarnations \cup {0} /\ p.epoch \in Nat
           /\ p.next \in Numbers /\ p.next \in Nat /\ p.next <= TopSeq /\ TopSeq \in Nat
           /\ p.held \subseteq Numbers /\ p.age \in 0 .. Window
           /\ \A h \in p.held : h \in Nat /\ h <= TopSeq /\ p.next < h
           /\ p = [started |-> p.started, epoch |-> p.epoch, next |-> p.next,
                   held |-> p.held, age |-> p.age]
<1>1. p \in Orders /\ \A h \in p.held : h > p.next
  BY DEF IsOrder
<1>2. /\ p.started \in BOOLEAN /\ p.epoch \in Incarnations \cup {0}
      /\ p.next \in Numbers /\ p.held \subseteq Numbers /\ p.age \in 0 .. Window
      /\ p = [started |-> p.started, epoch |-> p.epoch, next |-> p.next,
              held |-> p.held, age |-> p.age]
  BY <1>1 DEF Orders
<1>3. p.epoch \in Nat /\ p.next \in Nat /\ p.next <= TopSeq /\ TopSeq \in Nat
  BY <1>2, Sizes
<1>4. \A h \in p.held : h \in Nat /\ h <= TopSeq
  BY <1>2, NumberFacts
<1> QED
  BY <1>1, <1>2, <1>3, <1>4

\* A state with nothing held.
LEMMA EmptyOrder ==
    ASSUME NEW p \in Orders, p.held = {}
    PROVE  IsOrder(p)
BY FS_EmptySet, Sizes DEF IsOrder

\* A call that hands on one run of the epoch of p, below what stays held.
LEMMA RunFaithful ==
    ASSUME NEW p, IsOrder(p), NEW given, NEW r, NEW S, NEW e,
           IsOrder(r.order), IsRun(r.out, e, S),
           EventsOf(p.epoch, p.held) \cup given
              = EventsOf(r.order.epoch, r.order.held) \cup EventsOf(e, S),
           \A s \in S, h \in r.order.held : s < h
    PROVE  Faithful(p, given, r)
<1>1. Lossless(p, given, r)
  BY RunRange DEF Lossless
<1>2. DOMAIN r.out = 1 .. Len(r.out)
  BY LenProperties DEF IsRun
<1>3. Straight(p, r)
  <2>1. ASSUME NEW i \in 1 .. Len(r.out), NEW j \in 1 .. Len(r.out), i < j
        PROVE  r.out[i][2] < r.out[j][2]
    BY <2>1, Zenon DEF IsRun
  <2>2. ASSUME NEW i \in 1 .. Len(r.out), NEW h \in r.order.held
        PROVE  r.out[i][2] < h
    <3>1. r.out[i][2] \in S
      BY Zenon DEF IsRun
    <3> QED
      BY <3>1
  <2> QED
    BY <1>2, <2>1, <2>2, Zenon DEF Straight
<1> QED
  BY <1>1, <1>3 DEF Faithful

LEMMA EventsOfUnion ==
    ASSUME NEW e, NEW A, NEW B
    PROVE  EventsOf(e, A) \cup EventsOf(e, B) = EventsOf(e, A \cup B)
BY DEF EventsOf

LEMMA EventsOfOne == ASSUME NEW e, NEW s PROVE {Event(e, s)} = EventsOf(e, {s})
BY DEF EventsOf

LEMMA EventsOfNone == ASSUME NEW e PROVE EventsOf(e, {}) = {}
BY DEF EventsOf

LEMMA FirstFaithful ==
    ASSUME NEW p, IsOrder(p), ~p.started, NEW e \in Incarnations, NEW s \in Numbers
    PROVE  Faithful(p, {Event(e, s)}, First(p, e, s))
<1>0. p.held = {} /\ e \in Nat /\ s \in Nat
  BY Sizes DEF IsOrder
<1>1. PICK r : r = First(p, e, s)
  OBVIOUS
<1>2. /\ r.order = [started |-> TRUE, epoch |-> e, next |-> After(s), held |-> {}, age |-> p.age]
      /\ r.out = <<Event(e, s)>>
  <2>1. r.order = [p EXCEPT !.started = TRUE, !.epoch = e, !.next = After(s)]
    BY <1>1 DEF First, Result
  <2>2. p = [started |-> p.started, epoch |-> p.epoch, next |-> p.next, held |-> {}, age |-> p.age]
    BY <1>0, OrderFacts
  <2>3. PICK c, w, n, a : c = p.started /\ w = p.epoch /\ n = p.next /\ a = p.age
    OBVIOUS
  <2>4. p = [started |-> c, epoch |-> w, next |-> n, held |-> {}, age |-> a]
    BY <2>2, <2>3
  <2>5. r.order = [started |-> TRUE, epoch |-> e, next |-> After(s), held |-> {}, age |-> a]
    BY <2>1, <2>4, Zenon
  <2> QED
    BY <1>1, <2>3, <2>5 DEF First, Result
<1>3. IsOrder(r.order) /\ r.order.held = {}
  <2>1. r.order \in Orders /\ r.order.held = {}
    BY <1>2, AfterFacts, OrderFacts DEF Orders
  <2> QED
    BY <2>1, EmptyOrder
<1>4. IsRun(r.out, e, {s})
  BY <1>0, <1>2, OneRun
<1>5. EventsOf(p.epoch, p.held) \cup {Event(e, s)}
         = EventsOf(r.order.epoch, r.order.held) \cup EventsOf(e, {s})
  BY <1>0, <1>3, EventsOfNone, EventsOfOne
<1>6. \A t \in {s}, h \in r.order.held : t < h
  BY <1>3
<1>7. Faithful(p, {Event(e, s)}, r)
  BY <1>3, <1>4, <1>5, <1>6, RunFaithful, Zenon
<1> QED
  BY <1>1, <1>7

LEMMA LateFaithful ==
    ASSUME NEW p, IsOrder(p), NEW e \in Incarnations, NEW s \in Numbers, s < p.next
    PROVE  Faithful(p, {Event(e, s)}, Late(p, e, s))
<1>0. e \in Nat /\ s \in Nat
  BY Sizes
<1>1. PICK r : r = Late(p, e, s)
  OBVIOUS
<1>2. r.order = p /\ r.out = <<Event(e, s)>>
  BY <1>1 DEF Late, Result
<1>3. IsRun(r.out, e, {s})
  BY <1>0, <1>2, OneRun
<1>4. \A h \in r.order.held : s < h
  BY <1>0, <1>2, OrderFacts
<1>5. EventsOf(p.epoch, p.held) \cup {Event(e, s)}
         = EventsOf(r.order.epoch, r.order.held) \cup EventsOf(e, {s})
  BY <1>2, EventsOfOne
<1>6. \A t \in {s}, h \in r.order.held : t < h
  BY <1>4
<1>7. Faithful(p, {Event(e, s)}, r)
  BY <1>2, <1>3, <1>5, <1>6, RunFaithful, ZenonT(60)
<1> QED
  BY <1>1, <1>7

\* What drain leaves.
LEMMA DrainedFacts ==
    ASSUME NEW p, p \in Orders
    PROVE  Drained(p) \in Orders /\ Drained(p).held = {} /\ Drained(p).epoch = p.epoch
<1>1. CASE p.held = {}
  BY <1>1 DEF Drained
<1>2. CASE p.held # {}
  <2>1. PICK n : n = IF Max(p.held) >= p.next THEN After(Max(p.held)) ELSE p.next
    OBVIOUS
  <2>2. Max(p.held) \in Numbers
    BY <1>2, MaxFacts DEF Orders
  <2>3. n \in Numbers
    BY <2>1, <2>2, AfterFacts DEF Orders
  <2>4. Drained(p) = [p EXCEPT !.held = {}, !.next = n]
    BY <1>2, <2>1 DEF Drained
  <2> QED
    BY <2>3, <2>4, Zenon DEF Orders
<1> QED
  BY <1>1, <1>2

LEMMA FlushedFaithful ==
    ASSUME NEW p, p \in Orders, NEW given, NEW r, NEW q, q \in Orders,
           q.epoch = p.epoch, IsOrder(p),
           EventsOf(p.epoch, p.held) \cup given = EventsOf(q.epoch, q.held),
           r = Result(Drained(q), Events(p, q.held))
    PROVE  Faithful(p, given, r)
<1>0. r.order = Drained(q) /\ r.out = Events(p, q.held)
  BY DEF Result
<1>1. r.order \in Orders /\ r.order.held = {} /\ r.order.epoch = p.epoch
  BY <1>0, DrainedFacts
<1>2. IsOrder(r.order)
  BY <1>1, EmptyOrder
<1>3. IsRun(r.out, p.epoch, q.held)
  BY <1>0, EventsRun, OrderFacts DEF Orders
<1>4. EventsOf(p.epoch, p.held) \cup given
         = EventsOf(r.order.epoch, r.order.held) \cup EventsOf(p.epoch, q.held)
  BY <1>1, EventsOfNone
<1> QED
  BY <1>1, <1>2, <1>3, <1>4, RunFaithful, Zenon

LEMMA OtherEpochFaithful ==
    ASSUME NEW p, IsOrder(p), NEW e \in Incarnations, NEW s \in Numbers, e # p.epoch
    PROVE  Faithful(p, {Event(e, s)}, OtherEpoch(p, e, s))
<1>0. e \in Nat /\ s \in Nat /\ p \in Orders /\ p.epoch \in Nat /\ p.held \subseteq Numbers
  BY Sizes, OrderFacts DEF IsOrder
<1>1. PICK r, q, x : r = OtherEpoch(p, e, s) /\ q = Events(p, p.held) /\ x = Event(e, s)
  OBVIOUS
<1>2. r.order = [Drained(p) EXCEPT !.epoch = e, !.next = After(s)] /\ r.out = Append(q, x)
  BY <1>1 DEF OtherEpoch, Result
<1>3. IsOrder(r.order) /\ r.order.held = {} /\ r.order.epoch = e
  <2>1. Drained(p) \in Orders /\ Drained(p).held = {} /\ After(s) \in Numbers
    BY <1>0, DrainedFacts, AfterFacts
  <2>2. r.order \in Orders /\ r.order.held = {} /\ r.order.epoch = e
    BY <1>2, <2>1, Zenon DEF Orders
  <2> QED
    BY <2>2, EmptyOrder
<1>4. IsRun(q, p.epoch, p.held)
  BY <1>0, <1>1, EventsRun
<1>5. x \in Nat \X Nat /\ x[1] = e
  BY <1>0, <1>1 DEF Event
<1>6. q \in Seq(Nat \X Nat) /\ Len(q) \in Nat
  BY <1>4, LenProperties DEF IsRun
<1>7. PICK out : out = r.out
  OBVIOUS
<1>8. /\ Append(q, x) \in Seq(Nat \X Nat) /\ Len(Append(q, x)) = Len(q) + 1
      /\ \A i \in 1 .. Len(q) : Append(q, x)[i] = q[i]
      /\ Append(q, x)[Len(q) + 1] = x
  BY <1>5, <1>6, AppendProperties
<1>9. /\ out \in Seq(Nat \X Nat) /\ Len(out) = Len(q) + 1
      /\ \A i \in 1 .. Len(q) : out[i] = q[i]
      /\ out[Len(q) + 1] = x
  BY <1>2, <1>7, <1>8, Zenon
<1>10. DOMAIN out = 1 .. Len(q) + 1
  BY <1>9, LenProperties
<1>11. \A i \in DOMAIN out : i \in 1 .. Len(q) \/ i = Len(q) + 1
  BY <1>6, <1>10
<1>12. Range(out) = Range(q) \cup {x}
  <2>1. DOMAIN q = 1 .. Len(q)
    BY <1>6, LenProperties
  <2>2. Len(q) + 1 \in DOMAIN out /\ \A i \in 1 .. Len(q) : i \in DOMAIN out
    BY <1>6, <1>10
  <2> QED
    BY <1>9, <1>11, <2>1, <2>2, Zenon DEF Range
<1>13. Lossless(p, {x}, r)
  <2>1. Range(q) = EventsOf(p.epoch, p.held)
    BY <1>4, RunRange
  <2> QED
    BY <1>3, <1>7, <1>12, <2>1, EventsOfNone DEF Lossless
<1>14. Straight(p, r)
  <2>1. \A i \in DOMAIN out : out[i][1] = p.epoch => i \in 1 .. Len(q)
    BY <1>5, <1>9, <1>11
  <2>2. ASSUME NEW i \in 1 .. Len(q), NEW j \in 1 .. Len(q), i < j
        PROVE  out[i][2] < out[j][2]
    BY <1>4, <1>9, <2>2, Zenon DEF IsRun
  <2> QED
    BY <1>3, <1>7, <2>1, <2>2, Zenon DEF Straight
<1> QED
  BY <1>1, <1>3, <1>13, <1>14 DEF Faithful

LEMMA HoldFaithful ==
    ASSUME NEW p, IsOrder(p), p.started, NEW s \in Numbers, s > p.next
    PROVE  Faithful(p, {Event(p.epoch, s)}, Hold(p, p.epoch, s))
<1>0. /\ p \in Orders /\ p.epoch \in Nat /\ p.held \subseteq Numbers /\ s \in Nat
      /\ \A h \in p.held : h > p.next
  BY OrderFacts, Sizes DEF IsOrder
<1>1. PICK q : q = Parked(p, s)
  OBVIOUS
<1>2. PICK age : age = IF p.held = {} THEN 0 ELSE p.age
  OBVIOUS
<1>3. age \in 0 .. Window
  BY <1>2, Sizes, OrderFacts
<1>4. q = [started |-> p.started, epoch |-> p.epoch, next |-> p.next,
           held |-> p.held \cup {s}, age |-> age]
  <2>1. q = [p EXCEPT !.held = p.held \cup {s}, !.age = age]
    BY <1>1, <1>2 DEF Parked
  <2>2. p = [started |-> p.started, epoch |-> p.epoch, next |-> p.next,
             held |-> p.held, age |-> p.age]
    BY OrderFacts
  <2> QED
    BY <2>1, <2>2, Zenon
<1>5. /\ q \in Orders /\ q.epoch = p.epoch /\ q.held = p.held \cup {s}
      /\ q.next = p.next /\ q.started = p.started
  BY <1>0, <1>3, <1>4, OrderFacts DEF Orders
<1>6. EventsOf(p.epoch, p.held) \cup {Event(p.epoch, s)} = EventsOf(q.epoch, q.held)
  <2>1. {Event(p.epoch, s)} = EventsOf(p.epoch, {s})
    BY EventsOfOne
  <2>2. EventsOf(p.epoch, p.held) \cup EventsOf(p.epoch, {s}) = EventsOf(p.epoch, p.held \cup {s})
    BY EventsOfUnion
  <2> QED
    BY <1>5, <2>1, <2>2
<1>7. CASE Cardinality(q.held) < MaxHeld
  <2>1. PICK r : r = Hold(p, p.epoch, s)
    OBVIOUS
  <2>2. r.order = q /\ r.out = <<>>
    BY <1>1, <1>7, <2>1 DEF Hold, Result
  <2>3. IsOrder(q)
    BY <1>0, <1>5, <1>7 DEF IsOrder
  <2>4. IsRun(r.out, p.epoch, {})
    BY <2>2, NoRun
  <2>5. EventsOf(p.epoch, p.held) \cup {Event(p.epoch, s)}
           = EventsOf(r.order.epoch, r.order.held) \cup EventsOf(p.epoch, {})
    BY <1>6, <2>2, EventsOfNone
  <2>6. \A t \in {}, h \in r.order.held : t < h
    OBVIOUS
  <2>7. Faithful(p, {Event(p.epoch, s)}, r)
    BY <2>2, <2>3, <2>4, <2>5, <2>6, RunFaithful
  <2> QED
    BY <2>1, <2>7
<1>8. CASE ~(Cardinality(q.held) < MaxHeld)
  <2>1. Hold(p, p.epoch, s) = Result(Drained(q), Events(p, q.held))
    BY <1>1, <1>8 DEF Hold
  <2> QED
    BY <1>0, <1>5, <1>6, <2>1, FlushedFaithful, Zenon
<1> QED
  BY <1>7, <1>8

\* The events that follow without a break are below the rest of the buffer, and
\* the rest does not start right after them.
LEMMA ConsecutiveFacts ==
    ASSUME NEW p, IsOrder(p), NEW run, run = Consecutive(p, After(p.next)),
           NEW n, n = IF run = {} THEN After(p.next) ELSE After(Max(run))
    PROVE  /\ run \subseteq p.held /\ n \in Numbers
           /\ \A h \in p.held \ run : h > n /\ \A t \in run : t < h
<1>0. /\ p.held \subseteq Numbers /\ p.next \in Numbers /\ p.next \in Nat /\ TopSeq \in Nat
      /\ \A h \in p.held : h \in Nat /\ h <= TopSeq /\ p.next < h
  BY OrderFacts
<1>1. run \subseteq p.held /\ run \subseteq Numbers
  BY <1>0 DEF Consecutive
<1>2. After(p.next) \in Numbers
  BY <1>0, AfterFacts
<1>3. n \in Numbers
  <2>1. CASE run = {}
    BY <1>2, <2>1
  <2>2. CASE run # {}
    <3>1. Max(run) \in Numbers
      BY <1>1, <2>2, MaxFacts
    <3> QED
      BY <2>2, <3>1, AfterFacts
  <2> QED
    BY <2>1, <2>2
<1>4. ASSUME NEW h \in p.held, h \notin run
      PROVE  h > n /\ \A t \in run : t < h
  <2>0. h \in Nat /\ h <= TopSeq /\ p.next < h
    BY <1>0
  <2>1. After(p.next) = p.next + 1
    BY <1>0, <2>0, AfterFacts
  <2>2. \A t \in run : t \in Nat /\ t \in p.held /\ p.next + 1 <= t
                       /\ \A u \in p.next + 1 .. t : u \in p.held
    BY <1>0, <1>1, <2>1 DEF Consecutive
  <2>3. \E u \in p.next + 1 .. h : u \notin p.held
    BY <1>0, <1>4, <2>0, <2>1 DEF Consecutive
  <2>4. \A t \in run : t < h
    BY <1>4, <2>0, <2>2, <2>3
  <2>5. CASE run = {}
    <3>1. n = p.next + 1
      BY <2>1, <2>5
    <3>2. h # p.next + 1
      BY <1>0, <1>4, <2>0, <2>3
    <3> QED
      BY <1>0, <2>0, <2>4, <3>1, <3>2
  <2>6. CASE run # {}
    <3>1. PICK m : m = Max(run)
      OBVIOUS
    <3>2. m \in run /\ m \in Numbers /\ m \in Nat /\ m < h
      BY <1>1, <2>2, <2>4, <2>6, <3>1, MaxFacts
    <3>3. m < TopSeq
      BY <1>0, <2>0, <3>2
    <3>4. n = m + 1
      BY <2>6, <3>1, <3>2, <3>3, AfterFacts
    <3>5. h # m + 1
      <4> SUFFICES ASSUME h = m + 1
                   PROVE  FALSE
        OBVIOUS
      <4>1. \A u \in p.next + 1 .. h : u \in p.next + 1 .. m \/ u = h
        BY <1>0, <2>0, <3>2
      <4>2. \A u \in p.next + 1 .. m : u \in p.held
        BY <2>2, <3>2
      <4> QED
        BY <2>3, <4>1, <4>2
    <3>6. h > m + 1
      BY <2>0, <3>2, <3>5
    <3>7. h > n
      BY <3>4, <3>6
    <3> QED
      BY <2>4, <3>7
  <2> QED
    BY <2>5, <2>6
<1> QED
  BY <1>1, <1>3, <1>4

LEMMA SuccessorFaithful ==
    ASSUME NEW p, IsOrder(p), p.started
    PROVE  Faithful(p, {Event(p.epoch, p.next)}, Successor(p, p.epoch, p.next))
<1>0. /\ p \in Orders /\ p.epoch \in Nat /\ p.held \subseteq Numbers /\ p.next \in Nat
      /\ \A h \in p.held : p.next < h
  BY OrderFacts DEF IsOrder
<1>1. PICK run : run = Consecutive(p, After(p.next))
  OBVIOUS
<1>2. PICK n : n = IF run = {} THEN After(p.next) ELSE After(Max(run))
  OBVIOUS
<1>3. /\ run \subseteq p.held /\ n \in Numbers
      /\ \A h \in p.held \ run : h > n /\ \A t \in run : t < h
  BY <1>1, <1>2, ConsecutiveFacts
<1>4. PICK r, q : r = Successor(p, p.epoch, p.next) /\ q = Events(p, run)
  OBVIOUS
<1>5. /\ r.order = [p EXCEPT !.next = n, !.held = p.held \ run]
      /\ r.out = <<Event(p.epoch, p.next)>> \o q
  BY <1>1, <1>2, <1>4, Zenon DEF Successor, Result
<1>6. /\ r.order \in Orders /\ r.order.held = p.held \ run /\ r.order.next = n
      /\ r.order.epoch = p.epoch /\ r.order.started = p.started
  BY <1>0, <1>3, <1>5, Zenon DEF Orders
<1>7. Cardinality(r.order.held) < MaxHeld
  <2>1. IsFiniteSet(p.held) /\ Cardinality(p.held) \in Nat /\ Cardinality(p.held) < MaxHeld
    BY <1>0, FiniteNumbers DEF IsOrder
  <2>2. Cardinality(p.held \ run) <= Cardinality(p.held) /\ IsFiniteSet(p.held \ run)
    BY <2>1, FS_Subset
  <2>3. Cardinality(p.held \ run) \in Nat
    BY <2>2, FS_CardinalityType
  <2> QED
    BY <1>6, <2>1, <2>2, <2>3, Sizes
<1>8. IsOrder(r.order)
  BY <1>3, <1>6, <1>7 DEF IsOrder
<1>9. IsRun(r.out, p.epoch, {p.next} \cup run)
  <2>1. IsRun(q, p.epoch, run)
    BY <1>0, <1>3, <1>4, EventsRun
  <2>2. \A t \in run : p.next < t
    BY <1>0, <1>3
  <2> QED
    BY <1>0, <1>5, <2>1, <2>2, RunBehind
<1>10. \A t \in {p.next} \cup run, h \in r.order.held : t < h
  BY <1>0, <1>3, <1>6
<1>11. EventsOf(p.epoch, p.held) \cup {Event(p.epoch, p.next)}
          = EventsOf(r.order.epoch, r.order.held) \cup EventsOf(p.epoch, {p.next} \cup run)
  <2>1. {Event(p.epoch, p.next)} = EventsOf(p.epoch, {p.next})
    BY EventsOfOne
  <2>2. EventsOf(p.epoch, p.held) \cup EventsOf(p.epoch, {p.next})
           = EventsOf(p.epoch, p.held \cup {p.next})
    BY EventsOfUnion
  <2>3. EventsOf(p.epoch, p.held \ run) \cup EventsOf(p.epoch, {p.next} \cup run)
           = EventsOf(p.epoch, (p.held \ run) \cup ({p.next} \cup run))
    BY EventsOfUnion
  <2>4. (p.held \ run) \cup ({p.next} \cup run) = p.held \cup {p.next}
    BY <1>3
  <2> QED
    BY <1>6, <2>1, <2>2, <2>3, <2>4, Zenon
<1>12. Faithful(p, {Event(p.epoch, p.next)}, r)
  BY <1>8, <1>9, <1>10, <1>11, RunFaithful, Zenon
<1> QED
  BY <1>4, <1>12

-----------------------------------------------------------------------------
(* The steps.                                                              *)

LEMMA OfferFaithful ==
    ASSUME NEW p, IsOrder(p), NEW e \in Incarnations, NEW s \in Numbers
    PROVE  Faithful(p, {Event(e, s)}, Ordered(p, e, s))
<1>0. p.started \in BOOLEAN /\ p.next \in Nat /\ s \in Nat
  BY OrderFacts, Sizes
<1>1. CASE ~p.started
  <2>1. Ordered(p, e, s) = First(p, e, s)
    BY <1>1, Zenon DEF Ordered
  <2> QED
    BY <1>1, <2>1, FirstFaithful
<1>2. CASE p.started /\ e # p.epoch
  <2>1. Ordered(p, e, s) = OtherEpoch(p, e, s)
    BY <1>2, Zenon DEF Ordered
  <2> QED
    BY <1>2, <2>1, OtherEpochFaithful
<1>3. CASE p.started /\ e = p.epoch /\ s < p.next
  <2>1. ~(s = p.next) /\ ~(s > p.next)
    BY <1>0, <1>3
  <2>2. Ordered(p, e, s) = Late(p, e, s)
    BY <1>3, <2>1, Zenon DEF Ordered
  <2> QED
    BY <1>3, <2>2, LateFaithful
<1>4. CASE p.started /\ e = p.epoch /\ s = p.next
  <2>1. ~(s < p.next) /\ ~(s > p.next)
    BY <1>0, <1>4
  <2>2. Ordered(p, e, s) = Successor(p, e, s)
    BY <1>4, <2>1, Zenon DEF Ordered
  <2> QED
    BY <1>4, <2>2, SuccessorFaithful, Zenon
<1>5. CASE p.started /\ e = p.epoch /\ s > p.next
  <2>1. ~(s < p.next) /\ ~(s = p.next)
    BY <1>0, <1>5
  <2>2. Ordered(p, e, s) = Hold(p, e, s)
    BY <1>5, <2>1, Zenon DEF Ordered
  <2> QED
    BY <1>5, <2>2, HoldFaithful, Zenon
<1>6. s < p.next \/ s = p.next \/ s > p.next
  BY <1>0
<1> QED
  BY <1>1, <1>2, <1>3, <1>4, <1>5, <1>6, Zenon

LEMMA ExpireFaithful ==
    ASSUME NEW p, IsOrder(p)
    PROVE  Faithful(p, {}, Flushed(p))
<1>1. p \in Orders
  BY DEF IsOrder
<1>2. EventsOf(p.epoch, p.held) \cup {} = EventsOf(p.epoch, p.held)
  OBVIOUS
<1>3. Flushed(p) = Result(Drained(p), Events(p, p.held))
  BY Zenon DEF Flushed
<1> QED
  BY <1>1, <1>2, <1>3, FlushedFaithful

LEMMA OlderFaithful ==
    ASSUME NEW p, IsOrder(p)
    PROVE  Faithful(p, {}, Result(Older(p), <<>>))
<1>0. /\ p \in Orders /\ Window \in Nat /\ p.age \in Nat
      /\ p = [started |-> p.started, epoch |-> p.epoch, next |-> p.next,
              held |-> p.held, age |-> p.age]
  BY OrderFacts, Sizes DEF IsOrder
<1>1. PICK q : q = Older(p)
  OBVIOUS
<1>2. /\ q \in Orders /\ q.held = p.held /\ q.next = p.next
      /\ q.epoch = p.epoch /\ q.started = p.started
  BY <1>0, <1>1 DEF Older, Orders
<1>3. IsOrder(q)
  BY <1>2 DEF IsOrder
<1>4. PICK r : r = Result(q, <<>>)
  OBVIOUS
<1>5. r.order = q /\ r.out = <<>>
  BY <1>4 DEF Result
<1>6. IsRun(r.out, p.epoch, {})
  BY <1>5, NoRun
<1>7. EventsOf(p.epoch, p.held) \cup {}
         = EventsOf(r.order.epoch, r.order.held) \cup EventsOf(p.epoch, {})
  BY <1>2, <1>5, EventsOfNone
<1>8. PICK none : none = {}
  BY Zenon
<1>9. IsOrder(r.order) /\ \A s \in none, h \in r.order.held : s < h
  BY <1>3, <1>5, <1>8
<1>10. IsRun(r.out, p.epoch, none)
  BY <1>6, <1>8
<1>11. EventsOf(p.epoch, p.held) \cup none
          = EventsOf(r.order.epoch, r.order.held) \cup EventsOf(p.epoch, none)
  BY <1>7, <1>8
<1>12. Faithful(p, none, r)
  BY <1>9, <1>10, <1>11, RunFaithful
<1> QED
  BY <1>1, <1>4, <1>8, <1>12

\* Every step of the buffer is a call that is faithful to what it was given.
LEMMA StepFaithful ==
    ASSUME IsOrder(pb), ReorderNext
    PROVE  \E r : Faithful(pb, offered', r) /\ pb' = r.order /\ released' = r.out
<1>1. CASE \E e \in Incarnations, s \in Numbers : Offer(e, s)
  <2>1. PICK e \in Incarnations, s \in Numbers : Offer(e, s)
    BY <1>1
  <2>2. /\ pb' = Ordered(pb, e, s).order /\ released' = Ordered(pb, e, s).out
        /\ offered' = {Event(e, s)}
    BY <2>1, Zenon DEF Offer, Becomes
  <2>3. Faithful(pb, {Event(e, s)}, Ordered(pb, e, s))
    BY OfferFaithful
  <2> QED
    BY <2>2, <2>3, Zenon
<1>2. CASE Expire
  <2>1. pb' = Flushed(pb).order /\ released' = Flushed(pb).out /\ offered' = {}
    BY <1>2, Zenon DEF Expire, Becomes
  <2>2. Faithful(pb, {}, Flushed(pb))
    BY ExpireFaithful
  <2> QED
    BY <2>1, <2>2, Zenon
<1>3. CASE Ages
  <2>1. PICK r : r = Result(Older(pb), <<>>)
    OBVIOUS
  <2>2. r.order = Older(pb) /\ r.out = <<>>
    BY <2>1 DEF Result
  <2>3. pb' = r.order /\ released' = r.out /\ offered' = {}
    BY <1>3, <2>2, Zenon DEF Ages
  <2>4. Faithful(pb, {}, r)
    BY <2>1, OlderFaithful
  <2> QED
    BY <2>3, <2>4, Zenon
<1> QED
  BY <1>1, <1>2, <1>3 DEF ReorderNext

LEMMA OrderKept == ReorderSpec => []IsOrder(pb)
<1>1. ReorderInit => IsOrder(pb)
  <2> SUFFICES ASSUME ReorderInit
               PROVE  IsOrder(pb)
    OBVIOUS
  <2>1. pb \in Orders /\ pb.held = {}
    BY Sizes DEF ReorderInit, NewOrder, Orders
  <2> QED
    BY <2>1, EmptyOrder
<1>2. IsOrder(pb) /\ [ReorderNext]_reorderVars => IsOrder(pb)'
  <2> SUFFICES ASSUME IsOrder(pb), [ReorderNext]_reorderVars
               PROVE  IsOrder(pb')
    BY DEF IsOrder, Orders
  <2>1. CASE ReorderNext
    BY <2>1, StepFaithful DEF Faithful
  <2>2. CASE UNCHANGED reorderVars
    BY <2>2 DEF reorderVars
  <2> QED
    BY <2>1, <2>2
<1> QED
  BY <1>1, <1>2, PTL DEF ReorderSpec

\* The buffer stays below its bound, its fields keep their types, and nothing it
\* holds is deliverable, whatever the transport delivers (reorder.go, offer).
THEOREM BufferStaysInBounds == ReorderSpec => []BufferInBounds
<1>1. IsOrder(pb) => BufferInBounds
  BY DEF IsOrder, Orders, BufferInBounds, HeldBounded, HeldIsAhead
<1> QED
  BY <1>1, OrderKept, PTL

\* No call of the buffer loses, invents or inverts an event: what waited or was
\* offered waits or is handed on, in ascending order, with nothing left behind
\* that belongs before it.
THEOREM BufferStaysFaithful == ReorderSpec => BufferIsFaithful
<1> DEFINE Kept == Waiting \cup offered' = Waiting' \cup Range(released')
           Upright ==
               LET out == released'
                   old == {i \in DOMAIN out : out[i][1] = pb.epoch}
               IN  \A i \in old :
                       /\ \A j \in old : i < j => out[i][2] < out[j][2]
                       /\ pb'.epoch = pb.epoch => \A h \in pb'.held : out[i][2] < h
<1>1. IsOrder(pb) /\ [ReorderNext]_reorderVars => [Kept]_reorderVars /\ [Upright]_reorderVars
  <2> SUFFICES ASSUME IsOrder(pb), ReorderNext
               PROVE  Kept /\ Upright
    OBVIOUS
  <2>1. PICK r : Faithful(pb, offered', r) /\ pb' = r.order /\ released' = r.out
    BY StepFaithful
  <2>2. Lossless(pb, offered', r) /\ Straight(pb, r)
    BY <2>1 DEF Faithful
  <2>3. Kept
    <3>1. Waiting = EventsOf(pb.epoch, pb.held) /\ Waiting' = EventsOf(pb'.epoch, pb'.held)
      BY DEF Waiting, EventsOf
    <3> QED
      BY <2>1, <2>2, <3>1, Zenon DEF Lossless
  <2>4. Upright
    BY <2>1, <2>2, Zenon DEF Straight
  <2> QED
    BY <2>3, <2>4
<1> QED
  BY <1>1, OrderKept, PTL DEF ReorderSpec, BufferIsFaithful, NothingLost, NeverInverts
=============================================================================
