--------------------------- MODULE GapListProofs ----------------------------
(***************************************************************************)
(* The interval list implements the set of missing numbers, for every      *)
(* sequence space and every cap: what TLC checks in GapList for a small    *)
(* one.                                                                    *)
(***************************************************************************)
EXTENDS GapList, FiniteSetTheorems, SequenceTheorems, TLAPS

\* The list in its canonical form. Normalized compares neighbours only.
Sorted(list) ==
    /\ list \in Seq(Interval)
    /\ \A i \in 1 .. Len(list) : list[i].from <= list[i].to
    /\ \A i, j \in 1 .. Len(list) : i < j => list[i].to + 1 < list[j].from

\* The numbers a list covers.
Holds(in, s) == in.from <= s /\ s <= in.to
Cover(list) == {s \in SeqSpace : \E i \in 1 .. Len(list) : Holds(list[i], s)}

ListInv ==
    /\ Sorted(intervals)
    /\ Len(intervals) <= MaxIntervals
    /\ truncated \in BOOLEAN

-----------------------------------------------------------------------------
(* Lists.                                                                  *)

LEMMA SpaceFacts == MaxSeq \in Nat /\ MaxIntervals \in Nat \ {0} /\ SeqSpace = 0 .. MaxSeq
BY MaxSeqAssumption, MaxIntervalsAssumption DEF SeqSpace

LEMMA LeastOfNat ==
    ASSUME NEW T, T \subseteq Nat, T # {}
    PROVE  \E x \in T : \A y \in T : x <= y
<1>1. PICK x \in T : \A y \in T : ~(<<y, x>> \in OpToRel(<, Nat))
  BY NatLessThanWellFounded, WFMin
<1>2. \A y \in T : ~(y < x)
  BY <1>1, Zenon DEF OpToRel
<1> QED
  BY <1>2

\* What Splice returns: the list below lo and from hi on, with mid in between.
IsSplice(r, list, lo, hi, mid) ==
    /\ r \in Seq(Interval)
    /\ Len(r) = Len(list) - (hi - lo) + Len(mid)
    /\ \A i \in 1 .. Len(r) :
          r[i] = IF i < lo THEN list[i]
                 ELSE IF i < lo + Len(mid) THEN mid[i - lo + 1]
                 ELSE list[i - lo - Len(mid) + hi]

LEMMA SpliceFacts ==
    ASSUME NEW list \in Seq(Interval), NEW mid \in Seq(Interval),
           NEW lo \in 1 .. Len(list) + 1, NEW hi \in lo .. Len(list) + 1
    PROVE  IsSplice(Splice(list, lo, hi, mid), list, lo, hi, mid)
<1> SUFFICES ASSUME NEW r, r = Splice(list, lo, hi, mid)
             PROVE  IsSplice(r, list, lo, hi, mid)
  OBVIOUS
<1> DEFINE a == SubSeq(list, 1, lo - 1)
           b == SubSeq(list, hi, Len(list))
<1>0. Len(list) \in Nat /\ Len(mid) \in Nat /\ lo \in Nat /\ hi \in Nat
      /\ \A i \in 1 .. Len(list) : list[i] \in Interval
  BY LenProperties, ElementOfSeq
<1>1. a \in Seq(Interval) /\ Len(a) = lo - 1 /\ \A i \in 1 .. lo - 1 : a[i] = list[i]
  <2>1. \A i \in 1 .. lo - 1 : list[i] \in Interval
    BY <1>0
  <2> QED
    BY <1>0, <2>1, SubSeqProperties
<1>2. b \in Seq(Interval) /\ Len(b) = Len(list) - hi + 1
      /\ \A i \in 1 .. Len(list) - hi + 1 : b[i] = list[hi + i - 1]
  <2>1. \A i \in hi .. Len(list) : list[i] \in Interval
    BY <1>0
  <2> QED
    BY <1>0, <2>1, SubSeqProperties
<1> HIDE DEF a, b
<1> DEFINE am == a \o mid
<1>3. /\ am \in Seq(Interval) /\ Len(am) = Len(a) + Len(mid)
      /\ \A i \in 1 .. Len(a) + Len(mid) : am[i] = IF i <= Len(a) THEN a[i] ELSE mid[i - Len(a)]
  BY <1>1, ConcatProperties, Zenon
<1>5. r = am \o b
  BY DEF Splice, a, b
<1> HIDE DEF am
<1>7. am \in Seq(Interval) /\ b \in Seq(Interval)
  BY <1>2, <1>3
<1>4. /\ am \o b \in Seq(Interval) /\ Len(am \o b) = Len(am) + Len(b)
      /\ \A i \in 1 .. Len(am) + Len(b) :
            (am \o b)[i] = IF i <= Len(am) THEN am[i] ELSE b[i - Len(am)]
  BY <1>7, ConcatProperties
<1>10. /\ r \in Seq(Interval) /\ Len(r) = Len(am) + Len(b)
       /\ \A i \in 1 .. Len(am) + Len(b) : r[i] = IF i <= Len(am) THEN am[i] ELSE b[i - Len(am)]
  BY <1>4, <1>5, Zenon
<1>6. Len(am) = lo - 1 + Len(mid)
      /\ \A i \in 1 .. Len(am) : am[i] = IF i < lo THEN list[i] ELSE mid[i - lo + 1]
  BY <1>0, <1>1, <1>3
<1>8. r \in Seq(Interval) /\ Len(r) = Len(list) - (hi - lo) + Len(mid) /\ Len(r) = Len(am) + Len(b)
  BY <1>0, <1>2, <1>6, <1>10
<1>9. ASSUME NEW i \in 1 .. Len(r)
      PROVE  r[i] = IF i < lo THEN list[i]
                   ELSE IF i < lo + Len(mid) THEN mid[i - lo + 1]
                   ELSE list[i - lo - Len(mid) + hi]
  <2>1. r[i] = IF i <= Len(am) THEN am[i] ELSE b[i - Len(am)]
    BY <1>8, <1>10
  <2>4. i \in Nat /\ 1 <= i /\ i <= Len(am) + Len(b) /\ Len(am) = lo - 1 + Len(mid)
        /\ Len(b) = Len(list) - hi + 1 /\ Len(am) \in Nat
    BY <1>0, <1>2, <1>6, <1>8, SMTT(20)
  <2>2. CASE i <= Len(am)
    <3>1. am[i] = IF i < lo THEN list[i] ELSE mid[i - lo + 1]
      <4>1. i \in 1 .. Len(am)
        BY <2>2, <2>4
      <4> QED
        BY <1>6, <4>1, Zenon
    <3> QED
      BY <1>0, <2>1, <2>2, <2>4, <3>1
  <2>3. CASE ~(i <= Len(am))
    <3>1. i - Len(am) \in 1 .. Len(list) - hi + 1
      BY <1>0, <2>3, <2>4
    <3>2. b[i - Len(am)] = list[hi + (i - Len(am)) - 1]
      BY <1>2, <3>1
    <3>3. hi + (i - Len(am)) - 1 = i - lo - Len(mid) + hi
      BY <1>0, <1>6
    <3> QED
      BY <1>0, <1>6, <2>1, <2>3, <3>2, <3>3
  <2> QED
    BY <2>2, <2>3
<1> QED
  BY <1>8, <1>9 DEF IsSplice

LEMMA SortedFacts ==
    ASSUME NEW list, Sorted(list)
    PROVE  /\ list \in Seq(Interval) /\ Len(list) \in Nat
           /\ \A i \in 1 .. Len(list) :
                 /\ list[i] \in Interval /\ list[i].from <= list[i].to
                 /\ list[i].from \in Nat /\ list[i].to \in Nat /\ list[i].to <= MaxSeq
           /\ \A i, j \in 1 .. Len(list) : i < j => list[i].to + 1 < list[j].from
<1>1. list \in Seq(Interval) /\ Len(list) \in Nat /\ \A i \in 1 .. Len(list) : list[i] \in Interval
  BY LenProperties, ElementOfSeq DEF Sorted
<1> QED
  BY <1>1, SpaceFacts DEF Sorted, Interval

\* Both ends rise along the list.
LEMMA SortedRises ==
    ASSUME NEW list, Sorted(list), NEW i \in 1 .. Len(list), NEW j \in 1 .. Len(list), i <= j
    PROVE  list[i].from <= list[j].from /\ list[i].to <= list[j].to
<1>1. CASE i = j
  BY <1>1, SortedFacts
<1>2. CASE i < j
  BY <1>2, SortedFacts
<1> QED
  BY <1>1, <1>2, SortedFacts

\* A canonical list between the intervals below lo and those from hi on.
LEMMA SpliceSorted ==
    ASSUME NEW list, Sorted(list), NEW mid, Sorted(mid),
           NEW lo \in 1 .. Len(list) + 1, NEW hi \in lo .. Len(list) + 1,
           \A m \in 1 .. Len(mid), j \in 1 .. lo - 1 : list[j].to + 1 < mid[m].from,
           \A m \in 1 .. Len(mid), j \in hi .. Len(list) : mid[m].to + 1 < list[j].from,
           NEW r, IsSplice(r, list, lo, hi, mid)
    PROVE  Sorted(r) /\ Len(r) = Len(list) - (hi - lo) + Len(mid)
<1>1. /\ r \in Seq(Interval) /\ Len(r) = Len(list) - (hi - lo) + Len(mid)
      /\ \A i \in 1 .. Len(r) :
            r[i] = IF i < lo THEN list[i]
                   ELSE IF i < lo + Len(mid) THEN mid[i - lo + 1]
                   ELSE list[i - lo - Len(mid) + hi]
  BY Zenon DEF IsSplice
<1>2. Len(list) \in Nat /\ Len(mid) \in Nat /\ Len(r) \in Nat /\ lo \in Nat /\ hi \in Nat
  BY <1>1, SortedFacts
<1>3. ASSUME NEW i \in 1 .. Len(r)
      PROVE  \/ i < lo /\ i \in 1 .. Len(list) /\ r[i] = list[i]
             \/ /\ lo <= i /\ i < lo + Len(mid) /\ i - lo + 1 \in 1 .. Len(mid)
                /\ r[i] = mid[i - lo + 1]
             \/ /\ lo + Len(mid) <= i /\ i - lo - Len(mid) + hi \in hi .. Len(list)
                /\ i - lo - Len(mid) + hi \in 1 .. Len(list)
                /\ r[i] = list[i - lo - Len(mid) + hi]
  <2>1. r[i] = IF i < lo THEN list[i]
                   ELSE IF i < lo + Len(mid) THEN mid[i - lo + 1]
                   ELSE list[i - lo - Len(mid) + hi]
    BY <1>1
  <2>2. i \in Nat /\ 1 <= i /\ i <= Len(list) - (hi - lo) + Len(mid)
    BY <1>1, <1>2
  <2>3. CASE i < lo
    BY <1>2, <2>1, <2>2, <2>3
  <2>4. CASE lo <= i /\ i < lo + Len(mid)
    BY <1>2, <2>1, <2>2, <2>4
  <2>5. CASE lo + Len(mid) <= i
    <3>1. ~(i < lo) /\ ~(i < lo + Len(mid))
      BY <1>2, <2>2, <2>5
    <3>2. i - lo - Len(mid) + hi \in hi .. Len(list) /\ i - lo - Len(mid) + hi \in 1 .. Len(list)
      BY <1>2, <2>2, <2>5
    <3> QED
      BY <2>1, <2>5, <3>1, <3>2
  <2> QED
    BY <1>2, <2>2, <2>3, <2>4, <2>5
<1>4. \A i \in 1 .. Len(r) : r[i].from <= r[i].to
  BY <1>3, SortedFacts, Zenon
<1>5. ASSUME NEW i \in 1 .. Len(r), NEW j \in 1 .. Len(r), i < j
      PROVE  r[i].to + 1 < r[j].from
  <2> DEFINE up(k) == k - lo - Len(mid) + hi
             in(k) == k - lo + 1
  <2>1. CASE i < lo /\ r[i] = list[i] /\ i \in 1 .. Len(list)
    <3>1. CASE j \in 1 .. Len(list) /\ r[j] = list[j]
      BY <1>5, <2>1, <3>1, SortedFacts
    <3>2. CASE in(j) \in 1 .. Len(mid) /\ r[j] = mid[in(j)]
      <4>1. i \in 1 .. lo - 1
        BY <1>2, <2>1
      <4> QED
        BY <2>1, <3>2, <4>1
    <3>3. CASE lo + Len(mid) <= j /\ up(j) \in hi .. Len(list) /\ up(j) \in 1 .. Len(list) /\ r[j] = list[up(j)]
      <4>1. i < up(j)
        BY <1>2, <2>1, <3>3
      <4> QED
        BY <2>1, <3>3, <4>1, SortedFacts, Zenon
    <3> QED
      BY <1>3, <3>1, <3>2, <3>3
  <2>2. CASE lo <= i /\ in(i) \in 1 .. Len(mid) /\ r[i] = mid[in(i)]
    <3>1. CASE in(j) \in 1 .. Len(mid) /\ r[j] = mid[in(j)]
      <4>1. in(i) < in(j)
        BY <1>2, <1>5
      <4> QED
        BY <2>2, <3>1, <4>1, SortedFacts, Zenon
    <3>2. CASE lo + Len(mid) <= j /\ up(j) \in hi .. Len(list) /\ r[j] = list[up(j)]
      BY <2>2, <3>2, Zenon
    <3>3. ~(j < lo)
      BY <1>2, <1>5, <2>2
    <3> QED
      BY <1>3, <3>1, <3>2, <3>3
  <2>3. CASE lo + Len(mid) <= i /\ up(i) \in 1 .. Len(list) /\ r[i] = list[up(i)]
    <3>3. i \in Nat /\ j \in Nat /\ i < j /\ lo + Len(mid) <= i
      BY <1>2, <1>5, <2>3
    <3>1. ~(j < lo) /\ ~(j < lo + Len(mid)) /\ up(i) < up(j)
      BY <1>2, <3>3
    <3>2. up(j) \in 1 .. Len(list) /\ r[j] = list[up(j)]
      BY <1>3, <3>1
    <3> QED
      BY <2>3, <3>1, <3>2, SortedFacts, Zenon
  <2> QED
    BY <1>3, <2>1, <2>2, <2>3
<1> QED
  BY <1>1, <1>4, <1>5 DEF Sorted

\* What the spliced list covers.
LEMMA SpliceCovers ==
    ASSUME NEW list, Sorted(list), NEW mid, Sorted(mid),
           NEW lo \in 1 .. Len(list) + 1, NEW hi \in lo .. Len(list) + 1,
           NEW r, IsSplice(r, list, lo, hi, mid),
           NEW s \in SeqSpace
    PROVE  s \in Cover(r)
              <=> \/ \E m \in 1 .. Len(mid) : Holds(mid[m], s)
                  \/ \E j \in 1 .. Len(list) : (j < lo \/ hi <= j) /\ Holds(list[j], s)
<1>1. /\ r \in Seq(Interval) /\ Len(r) = Len(list) - (hi - lo) + Len(mid)
      /\ \A i \in 1 .. Len(r) : r[i] = IF i < lo THEN list[i]
                   ELSE IF i < lo + Len(mid) THEN mid[i - lo + 1]
                   ELSE list[i - lo - Len(mid) + hi]
  BY Zenon DEF IsSplice
<1>2. Len(list) \in Nat /\ Len(mid) \in Nat /\ Len(r) \in Nat /\ lo \in Nat /\ hi \in Nat
  BY <1>1, SortedFacts
<1> DEFINE up(k) == k - lo - Len(mid) + hi
           down(k) == k + lo + Len(mid) - hi
<1>3. ASSUME NEW i \in 1 .. Len(r), Holds(r[i], s)
      PROVE  \/ \E m \in 1 .. Len(mid) : Holds(mid[m], s)
             \/ \E j \in 1 .. Len(list) : (j < lo \/ hi <= j) /\ Holds(list[j], s)
  <2>1. i \in Nat /\ 1 <= i /\ i <= Len(list) - (hi - lo) + Len(mid)
    BY <1>1, <1>2
  <2>2. CASE i < lo
    <3>1. i \in 1 .. Len(list) /\ r[i] = list[i]
      BY <1>1, <1>2, <2>1, <2>2
    <3> QED
      BY <1>3, <2>2, <3>1
  <2>3. CASE lo <= i /\ i < lo + Len(mid)
    <3>1. i - lo + 1 \in 1 .. Len(mid) /\ r[i] = mid[i - lo + 1]
      BY <1>1, <1>2, <2>1, <2>3
    <3> QED
      BY <1>3, <3>1
  <2>4. CASE lo + Len(mid) <= i
    <3>1. up(i) \in 1 .. Len(list) /\ hi <= up(i) /\ ~(i < lo) /\ ~(i < lo + Len(mid))
      BY <1>2, <2>1, <2>4
    <3>2. r[i] = list[up(i)]
      BY <1>1, <3>1
    <3> QED
      BY <1>3, <3>1, <3>2
  <2> QED
    BY <1>2, <2>1, <2>2, <2>3, <2>4
<1>4. ASSUME NEW m \in 1 .. Len(mid), Holds(mid[m], s)
      PROVE  \E i \in 1 .. Len(r) : Holds(r[i], s)
  <2>1. m + lo - 1 \in 1 .. Len(r) /\ ~(m + lo - 1 < lo) /\ m + lo - 1 < lo + Len(mid)
        /\ (m + lo - 1) - lo + 1 = m
    BY <1>1, <1>2
  <2>2. r[m + lo - 1] = mid[m]
    BY <1>1, <2>1, Zenon
  <2> QED
    BY <1>4, <2>1, <2>2
<1>5. ASSUME NEW j \in 1 .. Len(list), j < lo \/ hi <= j, Holds(list[j], s)
      PROVE  \E i \in 1 .. Len(r) : Holds(r[i], s)
  <2>1. CASE j < lo
    <3>0. j \in 1 .. Len(r)
      <4>1. Len(r) = Len(list) - (hi - lo) + Len(mid)
        BY <1>1
      <4> QED
        BY <1>2, <2>1, <4>1
    <3>1. r[j] = list[j]
      BY <1>1, <2>1, <3>0
    <3> QED
      BY <1>5, <3>0, <3>1
  <2>2. CASE hi <= j
    <3>0. j \in Nat /\ j <= Len(list)
      BY <1>2
    <3>1. down(j) \in 1 .. Len(r) /\ ~(down(j) < lo) /\ ~(down(j) < lo + Len(mid))
          /\ up(down(j)) = j
      <4>1. Len(r) = Len(list) - (hi - lo) + Len(mid)
        BY <1>1
      <4> QED
        BY <1>2, <2>2, <3>0, <4>1
    <3>2. r[down(j)] = list[j]
      BY <1>1, <3>1, Zenon
    <3> QED
      BY <1>5, <3>1, <3>2
  <2> QED
    BY <1>5, <2>1, <2>2
<1>6. s \in Cover(r) <=> \E i \in 1 .. Len(r) : Holds(r[i], s)
  BY DEF Cover
<1> HIDE DEF up, down
<1> QED
  BY <1>3, <1>4, <1>5, <1>6, Zenon

-----------------------------------------------------------------------------
(* Searching.                                                              *)

LEMMA SearchFacts ==
    ASSUME NEW list, Sorted(list), NEW seq \in Nat, NEW i, i = Search(list, seq)
    PROVE  /\ i \in 1 .. Len(list) + 1
           /\ i <= Len(list) => list[i].to >= seq
           /\ \A j \in 1 .. i - 1 : list[j].to < seq
<1>1. Len(list) \in Nat /\ \A j \in 1 .. Len(list) : list[j].to \in Nat
  BY SortedFacts
<1> DEFINE ends == {k \in 1 .. Len(list) + 1 : k <= Len(list) => list[k].to >= seq}
<1>2. ends \subseteq Nat /\ Len(list) + 1 \in ends
  BY <1>1
<1>3. PICK k \in ends : \A y \in ends : k <= y
  BY <1>2, LeastOfNat, Zenon
<1>4. ASSUME NEW j \in 1 .. k - 1
      PROVE  list[j].to < seq
  <2>1. k \in Nat /\ k <= Len(list) + 1 /\ j \in 1 .. Len(list) + 1 /\ j <= Len(list) /\ ~(k <= j)
    BY <1>1
  <2>2. j \notin ends
    BY <1>3, <2>1
  <2>3. ~(list[j].to >= seq) /\ list[j].to \in Nat
    BY <1>1, <2>1, <2>2
  <2> QED
    BY <2>3
<1>5. \E x \in 1 .. Len(list) + 1 :
         /\ x <= Len(list) => list[x].to >= seq
         /\ \A j \in 1 .. x - 1 : list[j].to < seq
  BY <1>3, <1>4
<1> QED
  BY <1>5, Zenon DEF Search

LEMMA AbsorbedFacts ==
    ASSUME NEW list, Sorted(list), NEW from \in SeqSpace, NEW to \in SeqSpace, from <= to,
           NEW lo, NEW hi, lo = Absorbed(list, from, to)[1], hi = Absorbed(list, from, to)[2]
    PROVE  /\ lo \in 1 .. Len(list) + 1 /\ hi \in lo .. Len(list) + 1
           /\ \A j \in 1 .. lo - 1 : list[j].to + 1 < from
           /\ \A j \in lo .. hi - 1 : from <= list[j].to + 1 /\ list[j].from <= to + 1
           /\ \A j \in hi .. Len(list) : to + 1 < list[j].from
<1>0. /\ Len(list) \in Nat /\ from \in Nat /\ to \in Nat /\ to <= MaxSeq /\ MaxSeq \in Nat
      /\ \A j \in 1 .. Len(list) : /\ list[j].from \in Nat /\ list[j].to \in Nat
                                   /\ list[j].from <= list[j].to /\ list[j].to <= MaxSeq
      /\ \A i, j \in 1 .. Len(list) : i < j => list[i].to + 1 < list[j].from
  BY SortedFacts, SpaceFacts
<1> DEFINE low == IF from = 0 THEN from ELSE from - 1
<1>1. low \in Nat /\ lo = Search(list, low)
  BY <1>0 DEF Absorbed
<1>2. /\ lo \in 1 .. Len(list) + 1
      /\ lo <= Len(list) => list[lo].to >= low
      /\ \A j \in 1 .. lo - 1 : list[j].to < low
  BY <1>1, SearchFacts, Zenon
<1>3. \A j \in 1 .. lo - 1 : list[j].to + 1 < from
  <2> SUFFICES ASSUME NEW j \in 1 .. lo - 1
               PROVE  list[j].to + 1 < from
    OBVIOUS
  <2>1. list[j].to < low /\ j \in 1 .. Len(list)
    BY <1>0, <1>2
  <2> QED
    BY <1>0, <2>1
<1> DEFINE stops == {h \in lo .. Len(list) + 1 :
                        h <= Len(list) => to # MaxSeq /\ list[h].from > to + 1}
           Stop(h) == /\ \A j \in lo .. h - 1 : to = MaxSeq \/ list[j].from <= to + 1
                      /\ h <= Len(list) => to # MaxSeq /\ list[h].from > to + 1
<1>4. PICK k \in stops : \A y \in stops : k <= y
  <2>1. stops \subseteq Nat /\ Len(list) + 1 \in stops
    BY <1>0, <1>2
  <2> QED
    BY <2>1, LeastOfNat, Zenon
<1>5. \A j \in lo .. k - 1 : to = MaxSeq \/ list[j].from <= to + 1
  <2> SUFFICES ASSUME NEW j \in lo .. k - 1, to # MaxSeq
               PROVE  list[j].from <= to + 1
    OBVIOUS
  <2>1. j \in lo .. Len(list) + 1 /\ j <= Len(list) /\ ~(k <= j) /\ j \in 1 .. Len(list)
    BY <1>0, <1>2
  <2>2. j \notin stops
    BY <1>4, <2>1
  <2> QED
    BY <1>0, <2>1, <2>2
<1>6. \E h \in lo .. Len(list) + 1 : Stop(h)
  BY <1>4, <1>5
<1>7. hi = CHOOSE h \in lo .. Len(list) + 1 : Stop(h)
  BY <1>1, Zenon DEF Absorbed
<1>8. hi \in lo .. Len(list) + 1 /\ Stop(hi)
  BY <1>6, <1>7, Zenon
<1>9. \A j \in lo .. hi - 1 : from <= list[j].to + 1 /\ list[j].from <= to + 1
  <2> SUFFICES ASSUME NEW j \in lo .. hi - 1
               PROVE  from <= list[j].to + 1 /\ list[j].from <= to + 1
    OBVIOUS
  <2>1. j \in 1 .. Len(list) /\ lo \in 1 .. Len(list) /\ lo <= j
    BY <1>0, <1>2, <1>8, SMTT(20)
  <2>2. to = MaxSeq \/ list[j].from <= to + 1
    BY <1>8
  <2>3. list[j].from <= to + 1
    BY <1>0, <2>1, <2>2, SMTT(20)
  <2>4. list[lo].to >= low /\ list[lo].to <= list[j].to
    BY <1>2, <2>1, SortedRises
  <2>5. list[lo].to \in Nat /\ list[j].to \in Nat /\ from \in Nat
    BY <1>0, <2>1
  <2>6. from <= list[j].to + 1
    BY <2>4, <2>5, SMTT(20)
  <2> QED
    BY <2>3, <2>6
<1>10. \A j \in hi .. Len(list) : to + 1 < list[j].from
  <2> SUFFICES ASSUME NEW j \in hi .. Len(list)
               PROVE  to + 1 < list[j].from
    OBVIOUS
  <2>1. j \in 1 .. Len(list) /\ hi \in 1 .. Len(list) /\ hi <= j /\ hi <= Len(list)
    BY <1>0, <1>2, <1>8, SMTT(20)
  <2>2. list[hi].from > to + 1
    BY <1>8, <2>1
  <2>3. list[hi].from <= list[j].from
    BY <2>1, SortedRises
  <2> QED
    BY <1>0, <2>1, <2>2, <2>3, SMTT(20)
<1> QED
  BY <1>2, <1>3, <1>8, <1>9, <1>10

-----------------------------------------------------------------------------
(* The operations.                                                         *)

LEMMA OneSorted ==
    ASSUME NEW x \in Interval, x.from <= x.to
    PROVE  Sorted(<<x>>) /\ Len(<<x>>) = 1 /\ <<x>>[1] = x
BY DEF Sorted

LEMMA NoneSorted == Sorted(<<>>) /\ Len(<<>>) = 0
BY DEF Sorted

\* Putting one interval in the place of those from lo up to hi.
LEMMA ReplaceFacts ==
    ASSUME NEW list, Sorted(list),
           NEW lo \in 1 .. Len(list) + 1, NEW hi \in lo .. Len(list) + 1,
           NEW x \in Interval, x.from <= x.to,
           \A j \in 1 .. lo - 1 : list[j].to + 1 < x.from,
           \A j \in hi .. Len(list) : x.to + 1 < list[j].from,
           NEW r, r = Splice(list, lo, hi, <<x>>)
    PROVE  /\ Sorted(r) /\ Len(r) = Len(list) - (hi - lo) + 1
           /\ \A s \in SeqSpace :
                 s \in Cover(r)
                    <=> \/ Holds(x, s)
                        \/ \E j \in 1 .. Len(list) : (j < lo \/ hi <= j) /\ Holds(list[j], s)
<1>1. PICK mid : mid = <<x>>
  OBVIOUS
<1>2. Sorted(mid) /\ Len(mid) = 1 /\ mid[1] = x /\ mid \in Seq(Interval) /\ list \in Seq(Interval)
  BY <1>1, OneSorted, SortedFacts
<1>3. IsSplice(r, list, lo, hi, mid)
  BY <1>1, <1>2, SpliceFacts, Zenon
<1>4. /\ \A m \in 1 .. Len(mid), j \in 1 .. lo - 1 : list[j].to + 1 < mid[m].from
      /\ \A m \in 1 .. Len(mid), j \in hi .. Len(list) : mid[m].to + 1 < list[j].from
  <2>1. \A m \in 1 .. Len(mid) : mid[m] = x
    BY <1>2
  <2> QED
    BY <2>1, Zenon
<1>5. Sorted(r) /\ Len(r) = Len(list) - (hi - lo) + 1
  <2>1. Sorted(r) /\ Len(r) = Len(list) - (hi - lo) + Len(mid)
    BY <1>2, <1>3, <1>4, SpliceSorted, Zenon
  <2> QED
    BY <1>2, <2>1
<1>6. ASSUME NEW s \in SeqSpace
      PROVE  s \in Cover(r)
                <=> \/ Holds(x, s)
                    \/ \E j \in 1 .. Len(list) : (j < lo \/ hi <= j) /\ Holds(list[j], s)
  <2>1. s \in Cover(r)
           <=> \/ \E m \in 1 .. Len(mid) : Holds(mid[m], s)
               \/ \E j \in 1 .. Len(list) : (j < lo \/ hi <= j) /\ Holds(list[j], s)
    BY <1>2, <1>3, SpliceCovers
  <2>2. (\E m \in 1 .. Len(mid) : Holds(mid[m], s)) <=> Holds(x, s)
    <3>1. 1 \in 1 .. Len(mid) /\ \A m \in 1 .. Len(mid) : mid[m] = x
      BY <1>2
    <3> QED
      BY <3>1
  <2> QED
    BY <2>1, <2>2
<1> QED
  BY <1>5, <1>6

\* Add leaves a canonical list, at most one interval longer, that covers the new
\* range as well.
LEMMA AddFacts ==
    ASSUME NEW list, Sorted(list), NEW from \in SeqSpace, NEW to \in SeqSpace, from <= to,
           NEW r, r = ListAdd(list, from, to)
    PROVE  /\ Sorted(r) /\ Len(r) \in Nat /\ Len(r) <= Len(list) + 1
           /\ Cover(r) = Cover(list) \cup {s \in SeqSpace : from <= s /\ s <= to}
<1>0. /\ Len(list) \in Nat /\ from \in Nat /\ to \in Nat /\ to <= MaxSeq /\ MaxSeq \in Nat
      /\ \A j \in 1 .. Len(list) : /\ list[j].from \in Nat /\ list[j].to \in Nat
                                   /\ list[j].from <= list[j].to /\ list[j].to <= MaxSeq
      /\ \A i, j \in 1 .. Len(list) : i < j => list[i].to + 1 < list[j].from
  BY SortedFacts, SpaceFacts
<1>1. PICK lo, hi : lo = Absorbed(list, from, to)[1] /\ hi = Absorbed(list, from, to)[2]
  OBVIOUS
<1>2. /\ lo \in 1 .. Len(list) + 1 /\ hi \in lo .. Len(list) + 1
      /\ \A j \in 1 .. lo - 1 : list[j].to + 1 < from
      /\ \A j \in lo .. hi - 1 : from <= list[j].to + 1 /\ list[j].from <= to + 1
      /\ \A j \in hi .. Len(list) : to + 1 < list[j].from
  BY <1>1, AbsorbedFacts
<1>3. PICK x : x = IF lo < hi
                   THEN [from |-> IF list[lo].from < from THEN list[lo].from ELSE from,
                         to   |-> IF list[hi - 1].to > to THEN list[hi - 1].to ELSE to]
                   ELSE [from |-> from, to |-> to]
  BY Zenon
<1>4. r = Splice(list, lo, hi, <<x>>)
  BY <1>1, <1>3 DEF ListAdd
<1>5. /\ x \in Interval /\ x.from \in Nat /\ x.to \in Nat /\ x.from <= from /\ to <= x.to
      /\ lo < hi => /\ x.from = from \/ x.from = list[lo].from
                    /\ x.to = to \/ x.to = list[hi - 1].to
                    /\ x.from <= list[lo].from /\ list[hi - 1].to <= x.to
      /\ ~(lo < hi) => x.from = from /\ x.to = to
  <2>1. CASE lo < hi
    <3>1. lo \in 1 .. Len(list) /\ hi - 1 \in 1 .. Len(list)
      BY <1>0, <1>2, <2>1
    <3>2. PICK a, b : /\ a = IF list[lo].from < from THEN list[lo].from ELSE from
                      /\ b = IF list[hi - 1].to > to THEN list[hi - 1].to ELSE to
      OBVIOUS
    <3>3. x = [from |-> a, to |-> b]
      BY <1>3, <2>1, <3>2
    <3>4. /\ a \in Nat /\ b \in Nat /\ a <= from /\ to <= b /\ b <= MaxSeq
          /\ a = from \/ a = list[lo].from
          /\ b = to \/ b = list[hi - 1].to
          /\ a <= list[lo].from /\ list[hi - 1].to <= b
      <4>1. list[lo].from \in Nat /\ list[hi - 1].to \in Nat /\ list[hi - 1].to <= MaxSeq
        BY <1>0, <3>1
      <4>2. from \in Nat /\ to \in Nat /\ MaxSeq \in Nat /\ to <= MaxSeq
        BY <1>0
      <4> QED
        BY <3>2, <4>1, <4>2
    <3>5. a \in SeqSpace /\ b \in SeqSpace
      BY <1>0, <3>4, SpaceFacts
    <3>6. x.from = a /\ x.to = b /\ x \in Interval
      BY <3>3, <3>5 DEF Interval
    <3> QED
      BY <2>1, <3>4, <3>6
  <2>2. CASE ~(lo < hi)
    BY <1>0, <1>3, <2>2, SpaceFacts DEF Interval
  <2> QED
    BY <2>1, <2>2
<1>6. \A j \in 1 .. lo - 1 : list[j].to + 1 < x.from
  <2> SUFFICES ASSUME NEW j \in 1 .. lo - 1
               PROVE  list[j].to + 1 < x.from
    OBVIOUS
  <2>1. j \in 1 .. Len(list) /\ list[j].to + 1 < from /\ j < lo
    BY <1>0, <1>2
  <2>2. CASE x.from = from
    BY <2>1, <2>2
  <2>3. CASE lo < hi /\ x.from = list[lo].from
    <3>1. lo \in 1 .. Len(list)
      BY <1>0, <1>2, <2>3
    <3> QED
      BY <1>0, <2>1, <2>3, <3>1
  <2> QED
    BY <1>5, <2>2, <2>3
<1>7. \A j \in hi .. Len(list) : x.to + 1 < list[j].from
  <2> SUFFICES ASSUME NEW j \in hi .. Len(list)
               PROVE  x.to + 1 < list[j].from
    OBVIOUS
  <2>1. j \in 1 .. Len(list) /\ to + 1 < list[j].from /\ hi <= j
    BY <1>0, <1>2
  <2>2. CASE x.to = to
    BY <2>1, <2>2
  <2>3. CASE lo < hi /\ x.to = list[hi - 1].to
    <3>1. hi - 1 \in 1 .. Len(list) /\ hi - 1 < j
      BY <1>0, <1>2, <2>1, <2>3
    <3> QED
      BY <1>0, <2>1, <2>3, <3>1
  <2> QED
    BY <1>5, <2>2, <2>3
<1>8. /\ Sorted(r) /\ Len(r) = Len(list) - (hi - lo) + 1
      /\ \A s \in SeqSpace :
            s \in Cover(r)
               <=> \/ Holds(x, s)
                   \/ \E j \in 1 .. Len(list) : (j < lo \/ hi <= j) /\ Holds(list[j], s)
  <2>1. x.from <= x.to
    BY <1>0, <1>5
  <2> QED
    BY <1>2, <1>4, <1>5, <1>6, <1>7, <2>1, ReplaceFacts, Zenon
<1>9. Len(r) \in Nat /\ Len(r) <= Len(list) + 1
  BY <1>0, <1>2, <1>8, SortedFacts
<1>10. ASSUME NEW s \in SeqSpace, Holds(x, s)
       PROVE  s \in Cover(list) \/ (from <= s /\ s <= to)
  <2>0. s \in Nat /\ x.from <= s /\ s <= x.to
    BY <1>10, SpaceFacts DEF Holds
  <2>1. CASE s < from
    <3>1. lo < hi /\ x.from = list[lo].from
      BY <1>0, <1>5, <2>0, <2>1
    <3>2. lo \in 1 .. Len(list) /\ lo \in lo .. hi - 1
      BY <1>0, <1>2, <3>1
    <3>3. from <= list[lo].to + 1
      BY <1>2, <3>2
    <3>4. Holds(list[lo], s)
      BY <1>0, <2>0, <2>1, <3>1, <3>2, <3>3 DEF Holds
    <3> QED
      BY <3>2, <3>4 DEF Cover
  <2>2. CASE to < s
    <3>1. lo < hi /\ x.to = list[hi - 1].to
      BY <1>0, <1>5, <2>0, <2>2
    <3>2. hi - 1 \in 1 .. Len(list) /\ hi - 1 \in lo .. hi - 1
      BY <1>0, <1>2, <3>1
    <3>3. list[hi - 1].from <= to + 1
      BY <1>2, <3>2
    <3>4. Holds(list[hi - 1], s)
      BY <1>0, <2>0, <2>2, <3>1, <3>2, <3>3 DEF Holds
    <3> QED
      BY <3>2, <3>4 DEF Cover
  <2> QED
    BY <1>0, <2>0, <2>1, <2>2
<1>11. ASSUME NEW s \in SeqSpace, NEW j \in 1 .. Len(list), Holds(list[j], s), ~(j < lo \/ hi <= j)
       PROVE  Holds(x, s)
  <2>1. lo < hi /\ lo \in 1 .. Len(list) /\ hi - 1 \in 1 .. Len(list) /\ lo <= j /\ j <= hi - 1
    BY <1>0, <1>2, <1>11
  <2>2. list[lo].from <= list[j].from /\ list[j].to <= list[hi - 1].to
    BY <2>1, SortedRises
  <2>3. list[j].from <= s /\ s <= list[j].to /\ s \in Nat
    BY <1>11, SpaceFacts DEF Holds
  <2>4. x.from <= list[lo].from /\ list[hi - 1].to <= x.to
    BY <1>5, <2>1
  <2>5. /\ x.from \in Nat /\ x.to \in Nat /\ list[lo].from \in Nat /\ list[j].from \in Nat
        /\ list[j].to \in Nat /\ list[hi - 1].to \in Nat
    BY <1>0, <1>5, <2>1
  <2>6. \A a, b, c \in Nat : a <= b /\ b <= c => a <= c
    OBVIOUS
  <2>7. x.from <= list[j].from /\ list[j].to <= x.to
    BY <2>2, <2>4, <2>5, <2>6, Zenon
  <2>8. x.from <= s /\ s <= x.to
    BY <2>3, <2>5, <2>6, <2>7, Zenon
  <2> QED
    BY <2>8, Zenon DEF Holds
<1>12. ASSUME NEW s \in SeqSpace, from <= s, s <= to
       PROVE  Holds(x, s)
  BY <1>0, <1>5, <1>12, SpaceFacts DEF Holds
<1>13. ASSUME NEW s \in SeqSpace
       PROVE  s \in Cover(r) <=> s \in Cover(list) \/ (from <= s /\ s <= to)
  <2>1. s \in Cover(list) <=> \E j \in 1 .. Len(list) : Holds(list[j], s)
    BY DEF Cover
  <2> QED
    BY <1>8, <1>10, <1>11, <1>12, <2>1, Zenon
<1>14. Cover(r) \subseteq SeqSpace /\ Cover(list) \subseteq SeqSpace
  BY DEF Cover
<1>15. Cover(r) = Cover(list) \cup {s \in SeqSpace : from <= s /\ s <= to}
  BY <1>13, <1>14
<1> QED
  BY <1>8, <1>9, <1>15

LEMMA FindFacts ==
    ASSUME NEW list, Sorted(list), NEW seq \in SeqSpace, NEW i, i = Find(list, seq)
    PROVE  /\ i = 0 => seq \notin Cover(list)
           /\ i # 0 => i \in 1 .. Len(list) /\ Holds(list[i], seq) /\ seq \in Cover(list)
<1>0. /\ Len(list) \in Nat /\ seq \in Nat
      /\ \A j \in 1 .. Len(list) : list[j].from \in Nat /\ list[j].to \in Nat
  BY SortedFacts, SpaceFacts
<1>1. PICK k : k = Search(list, seq)
  OBVIOUS
<1>2. /\ k \in 1 .. Len(list) + 1
      /\ k <= Len(list) => list[k].to >= seq
      /\ \A j \in 1 .. k - 1 : list[j].to < seq
  BY <1>0, <1>1, SearchFacts, Zenon
<1>3. i = IF k <= Len(list) /\ list[k].from <= seq THEN k ELSE 0
  BY <1>1 DEF Find
<1>4. CASE k <= Len(list) /\ list[k].from <= seq
  <2>1. i = k /\ k # 0 /\ k \in 1 .. Len(list)
    BY <1>0, <1>2, <1>3, <1>4
  <2>2. Holds(list[k], seq)
    BY <1>0, <1>2, <1>4, <2>1 DEF Holds
  <2> QED
    BY <2>1, <2>2 DEF Cover
<1>5. CASE ~(k <= Len(list) /\ list[k].from <= seq)
  <2>1. i = 0
    BY <1>3, <1>5
  <2>2. ASSUME NEW j \in 1 .. Len(list), Holds(list[j], seq)
        PROVE  FALSE
    <3>1. list[j].from <= seq /\ seq <= list[j].to /\ list[j].to \in Nat /\ list[j].from \in Nat
      BY <1>0, <2>2 DEF Holds
    <3>2. ~(j \in 1 .. k - 1)
      BY <1>0, <1>2, <3>1
    <3>3. k <= j /\ k \in 1 .. Len(list) /\ k <= Len(list)
      BY <1>0, <1>2, <3>2
    <3>4. list[k].from <= list[j].from /\ list[k].from \in Nat
      BY <1>0, <3>3, SortedRises, Zenon
    <3>5. list[k].from <= seq
      BY <1>0, <3>1, <3>4
    <3> QED
      BY <1>5, <3>3, <3>5
  <2> QED
    BY <2>1, <2>2 DEF Cover
<1> QED
  BY <1>4, <1>5

\* What is left of an interval when one of its numbers is filled.
LEMMA RestFacts ==
    ASSUME NEW in \in Interval, NEW seq \in SeqSpace, Holds(in, seq),
           NEW mid, mid = Rest(in, seq)
    PROVE  /\ Sorted(mid) /\ Len(mid) \in 0 .. 2
           /\ \A m \in 1 .. Len(mid) : in.from <= mid[m].from /\ mid[m].to <= in.to
           /\ \A s \in SeqSpace :
                 (\E m \in 1 .. Len(mid) : Holds(mid[m], s)) <=> Holds(in, s) /\ s # seq
<1> DEFINE below == [from |-> in.from, to |-> seq - 1]
           above == [from |-> seq + 1, to |-> in.to]
<1>0. /\ in.from \in Nat /\ in.to \in Nat /\ seq \in Nat /\ MaxSeq \in Nat
      /\ in.from <= seq /\ seq <= in.to /\ in.to <= MaxSeq
  BY SpaceFacts DEF Interval, Holds
<1>1. CASE in.from = in.to
  <2>1. mid = <<>>
    BY <1>0, <1>1 DEF Rest
  <2>2. Sorted(mid) /\ Len(mid) = 0
    BY <2>1, NoneSorted
  <2>3. \A s \in SeqSpace : ~(Holds(in, s) /\ s # seq)
    BY <1>0, <1>1, SpaceFacts DEF Holds
  <2> QED
    BY <2>2, <2>3
<1>2. ASSUME in.from < in.to, seq = in.from \/ seq = in.to,
             NEW x, x = IF seq = in.from THEN above ELSE below
      PROVE  /\ mid = <<x>> /\ x \in Interval /\ x.from <= x.to
             /\ in.from <= x.from /\ x.to <= in.to
             /\ \A s \in SeqSpace : Holds(x, s) <=> Holds(in, s) /\ s # seq
  <2>1. CASE seq = in.from
    <3>1. mid = <<x>>
      BY <1>0, <1>2, <2>1 DEF Rest
    <3>2. x.from = seq + 1 /\ x.to = in.to /\ x \in Interval
      BY <1>0, <1>2, <2>1, SpaceFacts DEF Interval
    <3> QED
      BY <1>0, <1>2, <2>1, <3>1, <3>2, SpaceFacts DEF Holds
  <2>2. CASE seq = in.to
    <3>0. seq # in.from
      BY <1>0, <1>2, <2>2
    <3>1. mid = <<x>>
      BY <1>0, <1>2, <2>2, <3>0 DEF Rest
    <3>2. x.from = in.from /\ x.to = seq - 1 /\ x \in Interval
      BY <1>0, <1>2, <2>2, <3>0, SpaceFacts DEF Interval
    <3> QED
      BY <1>0, <1>2, <2>2, <3>1, <3>2, SpaceFacts DEF Holds
  <2> QED
    BY <1>2, <2>1, <2>2
<1>3. CASE in.from < in.to /\ (seq = in.from \/ seq = in.to)
  <2>1. PICK x : x = IF seq = in.from THEN above ELSE below
    BY Zenon
  <2> HIDE DEF above, below
  <2>2. /\ mid = <<x>> /\ x \in Interval /\ x.from <= x.to
        /\ in.from <= x.from /\ x.to <= in.to
        /\ \A s \in SeqSpace : Holds(x, s) <=> Holds(in, s) /\ s # seq
    BY <1>2, <1>3, <2>1
  <2>3. Sorted(mid) /\ Len(mid) = 1 /\ mid[1] = x
    BY <2>2, OneSorted
  <2>4. 1 \in 1 .. Len(mid) /\ \A m \in 1 .. Len(mid) : mid[m] = x
    BY <2>3
  <2> QED
    BY <2>2, <2>3, <2>4
<1>4. CASE in.from < seq /\ seq < in.to
  <2>1. mid = <<below, above>>
    BY <1>0, <1>4 DEF Rest
  <2>2. /\ below \in Interval /\ above \in Interval
        /\ below.from = in.from /\ below.to = seq - 1 /\ above.from = seq + 1 /\ above.to = in.to
    BY <1>0, <1>4, SpaceFacts DEF Interval
  <2> HIDE DEF below, above
  <2>3. mid \in Seq(Interval) /\ Len(mid) = 2 /\ mid[1] = below /\ mid[2] = above
    BY <2>1, <2>2
  <2>4. \A m \in 1 .. Len(mid) : m = 1 \/ m = 2
    BY <2>3
  <2>5. Sorted(mid)
    BY <1>0, <1>4, <2>2, <2>3, <2>4 DEF Sorted
  <2>6. \A s \in SeqSpace : Holds(below, s) \/ Holds(above, s) <=> Holds(in, s) /\ s # seq
    BY <1>0, <1>4, <2>2, SpaceFacts DEF Holds
  <2>7. 1 \in 1 .. Len(mid) /\ 2 \in 1 .. Len(mid)
    BY <2>3
  <2>8. \A s : (\E m \in 1 .. Len(mid) : Holds(mid[m], s)) <=> Holds(below, s) \/ Holds(above, s)
    BY <2>3, <2>4, <2>7
  <2>9. \A m \in 1 .. Len(mid) : in.from <= mid[m].from /\ mid[m].to <= in.to
    BY <1>0, <1>4, <2>2, <2>3, <2>4
  <2> QED
    BY <2>3, <2>5, <2>6, <2>8, <2>9
<1> QED
  BY <1>0, <1>1, <1>3, <1>4

\* Fill leaves a canonical list, at most one interval longer, without seq.
LEMMA FillFacts ==
    ASSUME NEW list, Sorted(list), NEW seq \in SeqSpace,
           NEW i \in 1 .. Len(list), Holds(list[i], seq),
           NEW r, r = ListFill(list, i, seq)
    PROVE  /\ Sorted(r) /\ Len(r) \in Nat /\ Len(r) <= Len(list) + 1
           /\ Cover(r) = Cover(list) \ {seq}
<1>0. /\ list \in Seq(Interval) /\ Len(list) \in Nat /\ seq \in Nat
      /\ \A j \in 1 .. Len(list) : /\ list[j] \in Interval /\ list[j].from <= list[j].to
                                   /\ list[j].from \in Nat /\ list[j].to \in Nat
      /\ \A h, j \in 1 .. Len(list) : h < j => list[h].to + 1 < list[j].from
  BY SortedFacts, SpaceFacts
<1>1. PICK mid : mid = Rest(list[i], seq)
  OBVIOUS
<1>2. /\ Sorted(mid) /\ Len(mid) \in 0 .. 2
      /\ \A m \in 1 .. Len(mid) : list[i].from <= mid[m].from /\ mid[m].to <= list[i].to
      /\ \A s \in SeqSpace :
            (\E m \in 1 .. Len(mid) : Holds(mid[m], s)) <=> Holds(list[i], s) /\ s # seq
  BY <1>0, <1>1, RestFacts, Zenon
<1>3. i \in 1 .. Len(list) + 1 /\ i + 1 \in i .. Len(list) + 1 /\ i \in Nat
  BY <1>0
<1>4. IsSplice(r, list, i, i + 1, mid)
  <2>1. mid \in Seq(Interval)
    BY <1>2, SortedFacts
  <2>2. r = Splice(list, i, i + 1, mid)
    BY <1>1 DEF ListFill
  <2> QED
    BY <1>0, <1>3, <2>1, <2>2, SpliceFacts
<1>5. /\ \A m \in 1 .. Len(mid), j \in 1 .. i - 1 : list[j].to + 1 < mid[m].from
      /\ \A m \in 1 .. Len(mid), j \in i + 1 .. Len(list) : mid[m].to + 1 < list[j].from
  <2>0. \A m \in 1 .. Len(mid) : mid[m].from \in Nat /\ mid[m].to \in Nat
    BY <1>2, SortedFacts
  <2>1. ASSUME NEW m \in 1 .. Len(mid), NEW j \in 1 .. i - 1
        PROVE  list[j].to + 1 < mid[m].from
    <3>1. j \in 1 .. Len(list) /\ j < i
      BY <1>0
    <3>2. list[j].to + 1 < list[i].from /\ list[j].to \in Nat /\ list[i].from \in Nat
      BY <1>0, <3>1
    <3> QED
      BY <1>2, <2>0, <3>2, SMTT(20)
  <2>2. ASSUME NEW m \in 1 .. Len(mid), NEW j \in i + 1 .. Len(list)
        PROVE  mid[m].to + 1 < list[j].from
    <3>1. j \in 1 .. Len(list) /\ i < j
      BY <1>0
    <3>2. list[i].to + 1 < list[j].from /\ list[i].to \in Nat /\ list[j].from \in Nat
      BY <1>0, <3>1
    <3> QED
      BY <1>2, <2>0, <3>2, SMTT(20)
  <2> QED
    BY <2>1, <2>2
<1>6. Sorted(r) /\ Len(r) = Len(list) - (i + 1 - i) + Len(mid)
  <2>1. Sorted(mid)
    BY <1>2
  <2>2. PICK hi : hi = i + 1
    OBVIOUS
  <2>3. /\ i \in 1 .. Len(list) + 1 /\ hi \in i .. Len(list) + 1
        /\ IsSplice(r, list, i, hi, mid)
        /\ \A m \in 1 .. Len(mid), j \in 1 .. i - 1 : list[j].to + 1 < mid[m].from
        /\ \A m \in 1 .. Len(mid), j \in hi .. Len(list) : mid[m].to + 1 < list[j].from
    BY <1>3, <1>4, <1>5, <2>2
  <2>4. Sorted(r) /\ Len(r) = Len(list) - (hi - i) + Len(mid)
    BY <2>1, <2>3, SpliceSorted, Zenon
  <2> QED
    BY <2>2, <2>4
<1>7. Len(r) \in Nat /\ Len(r) <= Len(list) + 1
  BY <1>0, <1>2, <1>3, <1>6, SMTT(20)
<1>8. ASSUME NEW s \in SeqSpace
      PROVE  s \in Cover(r) <=> s \in Cover(list) /\ s # seq
  <2>1. s \in Cover(r)
           <=> \/ \E m \in 1 .. Len(mid) : Holds(mid[m], s)
               \/ \E j \in 1 .. Len(list) : (j < i \/ i + 1 <= j) /\ Holds(list[j], s)
    BY <1>2, <1>3, <1>4, SpliceCovers, Zenon
  <2>2. ASSUME NEW j \in 1 .. Len(list), j < i \/ i + 1 <= j, Holds(list[j], s)
        PROVE  s # seq
    BY <1>0, <2>2, SpaceFacts, SMTT(20) DEF Holds
  <2>3. s \in Cover(list) <=> \E j \in 1 .. Len(list) : Holds(list[j], s)
    BY DEF Cover
  <2>4. \A j \in 1 .. Len(list) : j = i \/ j < i \/ i + 1 <= j
    BY <1>0
  <2>5. (\E m \in 1 .. Len(mid) : Holds(mid[m], s)) <=> Holds(list[i], s) /\ s # seq
    BY <1>2
  <2> QED
    BY <2>1, <2>2, <2>3, <2>4, <2>5, Zenon
<1>9. Cover(r) \subseteq SeqSpace /\ Cover(list) \subseteq SeqSpace
  BY DEF Cover
<1> QED
  BY <1>6, <1>7, <1>8, <1>9, Zenon

\* The pair that enforceCap merges: the first of those with the narrowest hole.
Hole(list, i) == list[i + 1].from - list[i].to
IsBest(list, i) ==
    /\ i \in 1 .. Len(list) - 1
    /\ \A j \in 1 .. Len(list) - 1 : Hole(list, i) <= Hole(list, j)
    /\ \A j \in 1 .. i - 1 : Hole(list, i) < Hole(list, j)

LEMMA BestExists ==
    ASSUME NEW list, Sorted(list), Len(list) > 1
    PROVE  \E i : IsBest(list, i)
<1>0. /\ Len(list) \in Nat
      /\ \A j \in 1 .. Len(list) - 1 : Hole(list, j) \in Nat
  <2>1. Len(list) \in Nat
    BY SortedFacts
  <2>2. ASSUME NEW j \in 1 .. Len(list) - 1
        PROVE  Hole(list, j) \in Nat
    <3>1. j \in 1 .. Len(list) /\ j + 1 \in 1 .. Len(list) /\ j < j + 1
      BY <2>1
    <3>2. list[j].to + 1 < list[j + 1].from /\ list[j].to \in Nat /\ list[j + 1].from \in Nat
      BY <3>1, SortedFacts
    <3> QED
      BY <3>2 DEF Hole
  <2> QED
    BY <2>1, <2>2
<1> DEFINE widths == {Hole(list, j) : j \in 1 .. Len(list) - 1}
<1>1. widths \subseteq Nat /\ widths # {}
  <2>1. 1 \in 1 .. Len(list) - 1
    BY <1>0
  <2> QED
    BY <1>0, <2>1
<1>2. PICK w \in widths : \A y \in widths : w <= y
  BY <1>1, LeastOfNat, Zenon
<1> DEFINE narrow == {j \in 1 .. Len(list) - 1 : Hole(list, j) = w}
<1>3. narrow \subseteq Nat /\ narrow # {}
  BY <1>0, <1>2
<1>4. PICK i \in narrow : \A y \in narrow : i <= y
  BY <1>3, LeastOfNat, Zenon
<1>5. \A j \in 1 .. Len(list) - 1 : Hole(list, i) <= Hole(list, j)
  BY <1>2, <1>4
<1>6. ASSUME NEW j \in 1 .. i - 1
      PROVE  Hole(list, i) < Hole(list, j)
  <2>1. j \in 1 .. Len(list) - 1 /\ ~(i <= j) /\ i \in 1 .. Len(list) - 1
    BY <1>0, <1>4
  <2>2. j \notin narrow
    BY <1>4, <2>1
  <2>3. Hole(list, j) # w /\ w <= Hole(list, j) /\ Hole(list, i) = w
    BY <1>2, <1>4, <2>1, <2>2, Zenon
  <2> QED
    BY <1>0, <2>1, <2>3
<1> QED
  BY <1>4, <1>5, <1>6 DEF IsBest

\* enforceCap on a list that is one interval too long.
LEMMA CapFacts ==
    ASSUME NEW list, Sorted(list), Len(list) > MaxIntervals, NEW r, r = Cap(list)
    PROVE  \E b : /\ IsBest(list, b)
                  /\ Sorted(r) /\ Len(r) = Len(list) - 1
                  /\ Cover(r) = Cover(list) \cup
                        {s \in SeqSpace : list[b].to < s /\ s < list[b + 1].from}
<1>0. /\ list \in Seq(Interval) /\ Len(list) \in Nat /\ Len(list) > 1
      /\ \A j \in 1 .. Len(list) : /\ list[j] \in Interval /\ list[j].from <= list[j].to
                                   /\ list[j].from \in Nat /\ list[j].to \in Nat
                                   /\ list[j].to <= MaxSeq
      /\ \A h, j \in 1 .. Len(list) : h < j => list[h].to + 1 < list[j].from
  BY SortedFacts, SpaceFacts
<1>1. PICK b : b = CHOOSE i \in 1 .. Len(list) - 1 :
                      /\ \A j \in 1 .. Len(list) - 1 : Hole(list, i) <= Hole(list, j)
                      /\ \A j \in 1 .. i - 1 : Hole(list, i) < Hole(list, j)
  OBVIOUS
<1>2. IsBest(list, b)
  <2>1. \E i : IsBest(list, i)
    BY <1>0, BestExists
  <2>2. \E i \in 1 .. Len(list) - 1 :
           /\ \A j \in 1 .. Len(list) - 1 : Hole(list, i) <= Hole(list, j)
           /\ \A j \in 1 .. i - 1 : Hole(list, i) < Hole(list, j)
    BY <2>1 DEF IsBest
  <2> QED
    BY <1>1, <2>2, Zenon DEF IsBest
<1>3. PICK x : x = [from |-> list[b].from, to |-> list[b + 1].to]
  BY Zenon
<1>4. r = Splice(list, b, b + 2, <<x>>)
  <2>1. ~(Len(list) <= MaxIntervals)
    BY <1>0, SpaceFacts
  <2> QED
    BY <1>1, <1>3, <2>1, Zenon DEF Cap, Hole
<1>5. /\ b \in 1 .. Len(list) /\ b + 1 \in 1 .. Len(list) /\ b \in Nat
      /\ b \in 1 .. Len(list) + 1 /\ b + 2 \in b .. Len(list) + 1
  BY <1>0, <1>2 DEF IsBest
<1>6. list[b].to + 1 < list[b + 1].from
  <2>1. b < b + 1
    BY <1>5
  <2> QED
    BY <1>0, <1>5, <2>1
<1>7. /\ list[b].from \in Nat /\ list[b].to \in Nat /\ list[b].from <= list[b].to
      /\ list[b + 1].from \in Nat /\ list[b + 1].to \in Nat /\ list[b + 1].from <= list[b + 1].to
      /\ list[b] \in Interval /\ list[b + 1] \in Interval
  BY <1>0, <1>5
<1>8. x \in Interval /\ x.from = list[b].from /\ x.to = list[b + 1].to /\ x.from <= x.to
  <2>1. x \in Interval /\ x.from = list[b].from /\ x.to = list[b + 1].to
    BY <1>3, <1>7 DEF Interval
  <2> QED
    BY <1>6, <1>7, <2>1
<1>9. \A j \in 1 .. b - 1 : list[j].to + 1 < x.from
  <2> SUFFICES ASSUME NEW j \in 1 .. b - 1
               PROVE  list[j].to + 1 < list[b].from
    BY <1>8
  <2>1. j \in 1 .. Len(list) /\ j < b
    BY <1>0, <1>5
  <2> QED
    BY <1>0, <1>5, <2>1, Zenon
<1>10. \A j \in b + 2 .. Len(list) : x.to + 1 < list[j].from
  <2> SUFFICES ASSUME NEW j \in b + 2 .. Len(list)
               PROVE  list[b + 1].to + 1 < list[j].from
    BY <1>8
  <2>1. j \in 1 .. Len(list) /\ b + 1 < j
    BY <1>0, <1>5
  <2> QED
    BY <1>0, <1>5, <2>1
<1>11. /\ Sorted(r) /\ Len(r) = Len(list) - (b + 2 - b) + 1
       /\ \A s \in SeqSpace :
             s \in Cover(r)
                <=> \/ Holds(x, s)
                    \/ \E j \in 1 .. Len(list) : (j < b \/ b + 2 <= j) /\ Holds(list[j], s)
  BY <1>4, <1>5, <1>8, <1>9, <1>10, ReplaceFacts
<1>12. Len(r) = Len(list) - 1
  BY <1>0, <1>5, <1>11
<1>13. ASSUME NEW s \in SeqSpace
       PROVE  s \in Cover(r)
                 <=> s \in Cover(list) \/ (list[b].to < s /\ s < list[b + 1].from)
  <2>0. s \in Nat
    BY SpaceFacts
  <2>1. Holds(x, s) <=> \/ Holds(list[b], s) \/ Holds(list[b + 1], s)
                        \/ list[b].to < s /\ s < list[b + 1].from
    BY <1>6, <1>7, <1>8, <2>0, SMTT(20) DEF Holds
  <2>2. s \in Cover(list) <=> \E j \in 1 .. Len(list) : Holds(list[j], s)
    BY DEF Cover
  <2>3. \A j \in 1 .. Len(list) : j = b \/ j = b + 1 \/ j < b \/ b + 2 <= j
    BY <1>0, <1>5
  <2>4. s \in Cover(r)
           <=> \/ Holds(x, s)
               \/ \E j \in 1 .. Len(list) : (j < b \/ b + 2 <= j) /\ Holds(list[j], s)
    BY <1>11, Zenon
  <2> QED
    BY <1>5, <2>1, <2>2, <2>3, <2>4, Zenon
<1>14. Cover(r) \subseteq SeqSpace /\ Cover(list) \subseteq SeqSpace
  BY DEF Cover
<1>15. Cover(r) = Cover(list) \cup {s \in SeqSpace : list[b].to < s /\ s < list[b + 1].from}
  BY <1>13, <1>14, Zenon
<1> QED
  BY <1>2, <1>11, <1>12, <1>15, Zenon

-----------------------------------------------------------------------------
(* What the list covers, as the set operators see it.                      *)

LEMMA EndsCovered ==
    ASSUME NEW list, Sorted(list), NEW i \in 1 .. Len(list)
    PROVE  list[i].from \in Cover(list) /\ list[i].to \in Cover(list)
<1>1. /\ list[i].from \in Nat /\ list[i].to \in Nat /\ list[i].from <= list[i].to
      /\ list[i].to <= MaxSeq
  BY SortedFacts
<1>2. list[i].from \in SeqSpace /\ list[i].to \in SeqSpace
  BY <1>1, SpaceFacts
<1>3. Holds(list[i], list[i].from) /\ Holds(list[i], list[i].to)
  BY <1>1 DEF Holds
<1> QED
  BY <1>2, <1>3 DEF Cover

\* An interval ends where the covered run ends.
LEMMA RunEnds ==
    ASSUME NEW list, Sorted(list), NEW s
    PROVE  s \in Cover(list) /\ s + 1 \notin Cover(list)
              <=> \E i \in 1 .. Len(list) : s = list[i].to
<1>1. ASSUME NEW i \in 1 .. Len(list), s = list[i].to
      PROVE  s \in Cover(list) /\ s + 1 \notin Cover(list)
  <2>1. s \in Cover(list)
    BY <1>1, EndsCovered
  <2>2. ASSUME NEW j \in 1 .. Len(list), Holds(list[j], s + 1)
        PROVE  FALSE
    BY <1>1, <2>2, SortedFacts, SMTT(20) DEF Holds
  <2> QED
    BY <2>1, <2>2 DEF Cover
<1>2. ASSUME s \in Cover(list), s + 1 \notin Cover(list)
      PROVE  \E i \in 1 .. Len(list) : s = list[i].to
  <2>1. PICK i \in 1 .. Len(list) : Holds(list[i], s)
    BY <1>2 DEF Cover
  <2>2. /\ s \in Nat /\ list[i].from \in Nat /\ list[i].to \in Nat
        /\ list[i].from <= s /\ s <= list[i].to /\ list[i].to <= MaxSeq
    BY <1>2, <2>1, SortedFacts, SpaceFacts DEF Cover, Holds
  <2>3. ASSUME s # list[i].to
        PROVE  FALSE
    <3>1. s + 1 \in SeqSpace /\ Holds(list[i], s + 1)
      BY <2>2, <2>3, SpaceFacts DEF Holds
    <3> QED
      BY <1>2, <3>1 DEF Cover
  <2> QED
    BY <2>3
<1> QED
  BY <1>1, <1>2

\* An interval starts where the covered run starts.
LEMMA RunStarts ==
    ASSUME NEW list, Sorted(list), NEW s \in Cover(list), s # 0, s - 1 \notin Cover(list)
    PROVE  \E i \in 1 .. Len(list) : s = list[i].from
<1>1. PICK i \in 1 .. Len(list) : Holds(list[i], s)
  BY DEF Cover
<1>2. /\ s \in Nat /\ list[i].from \in Nat /\ list[i].to \in Nat
      /\ list[i].from <= s /\ s <= list[i].to /\ list[i].to <= MaxSeq
  BY <1>1, SortedFacts, SpaceFacts DEF Cover, Holds
<1>3. ASSUME s # list[i].from
      PROVE  FALSE
  <2>1. s - 1 \in SeqSpace /\ Holds(list[i], s - 1)
    BY <1>2, <1>3, SpaceFacts DEF Holds
  <2> QED
    BY <2>1 DEF Cover
<1> QED
  BY <1>3

\* As many runs as intervals.
LEMMA CountFacts ==
    ASSUME NEW list, Sorted(list)
    PROVE  IntervalCount(Cover(list)) = Len(list)
<1> DEFINE ends == {s \in Cover(list) : s + 1 \notin Cover(list)}
           f == [i \in 1 .. Len(list) |-> list[i].to]
<1>1. Len(list) \in Nat /\ \A i, j \in 1 .. Len(list) : list[i].to = list[j].to => i = j
  BY SortedFacts
<1>2. f \in Bijection(1 .. Len(list), ends)
  <2>1. \A i \in 1 .. Len(list) : f[i] \in ends
    BY RunEnds
  <2>2. \A s \in ends : \E i \in 1 .. Len(list) : f[i] = s
    BY RunEnds
  <2>3. \A i, j \in 1 .. Len(list) : f[i] = f[j] => i = j
    BY <1>1
  <2> HIDE DEF ends
  <2>4. f \in [1 .. Len(list) -> ends]
    BY <2>1
  <2> QED
    BY <2>2, <2>3, <2>4 DEF Bijection, Injection, Surjection, IsInjective
<1>3. ExistsBijection(1 .. Len(list), ends)
  BY <1>2 DEF ExistsBijection
<1> HIDE DEF ends
<1>4. Cardinality(ends) = Len(list)
  BY <1>1, <1>3, FS_CountingElements
<1> QED
  BY <1>4 DEF IntervalCount, ends

\* The holes of the set lie between neighbours of the list.
LEMMA HoleFacts ==
    ASSUME NEW list, Sorted(list), NEW h
    PROVE  h \in Holes(Cover(list))
              <=> \E i \in 1 .. Len(list) - 1 : h = <<list[i].to, list[i + 1].from>>
<1>0. /\ Len(list) \in Nat
      /\ \A j \in 1 .. Len(list) : /\ list[j].from \in Nat /\ list[j].to \in Nat
                                   /\ list[j].from <= list[j].to /\ list[j].to <= MaxSeq
      /\ \A i, j \in 1 .. Len(list) : i < j => list[i].to + 1 < list[j].from
      /\ Cover(list) \subseteq SeqSpace /\ SeqSpace = 0 .. MaxSeq /\ MaxSeq \in Nat
  BY SortedFacts, SpaceFacts DEF Cover
<1>1. ASSUME NEW i \in 1 .. Len(list) - 1, h = <<list[i].to, list[i + 1].from>>
      PROVE  h \in Holes(Cover(list))
  <2>1. i \in 1 .. Len(list) /\ i + 1 \in 1 .. Len(list) /\ i < i + 1
    BY <1>0
  <2>2. h \in Cover(list) \X Cover(list) /\ h[1] = list[i].to /\ h[2] = list[i + 1].from
    BY <1>1, <2>1, EndsCovered
  <2>3. h[1] + 1 < h[2]
    BY <1>0, <2>1, <2>2
  <2>4. ASSUME NEW s \in SeqSpace, h[1] < s, s < h[2], NEW j \in 1 .. Len(list), Holds(list[j], s)
        PROVE  FALSE
    <3>0. s \in Nat /\ list[j].from <= s /\ s <= list[j].to
      BY <1>0, <2>4 DEF Holds
    <3>1. CASE j <= i
      <4>1. list[j].to <= list[i].to
        BY <2>1, <3>1, SortedRises, Zenon
      <4> QED
        BY <1>0, <2>1, <2>2, <2>4, <3>0, <4>1
    <3>2. CASE i + 1 <= j
      <4>1. list[i + 1].from <= list[j].from
        BY <2>1, <3>2, SortedRises, Zenon
      <4> QED
        BY <1>0, <2>1, <2>2, <2>4, <3>0, <4>1
    <3> QED
      BY <1>0, <3>1, <3>2
  <2>5. \A s \in SeqSpace : h[1] < s /\ s < h[2] => s \notin Cover(list)
    BY <2>4 DEF Cover
  <2> QED
    BY <2>2, <2>3, <2>5, Zenon DEF Holes
<1>2. ASSUME h \in Holes(Cover(list))
      PROVE  \E i \in 1 .. Len(list) - 1 : h = <<list[i].to, list[i + 1].from>>
  <2>1. PICK a \in Cover(list), b \in Cover(list) : h = <<a, b>>
    BY <1>2 DEF Holes
  <2>2. /\ a + 1 < b /\ a \in Nat /\ b \in Nat /\ b <= MaxSeq
        /\ \A s \in SeqSpace : a < s /\ s < b => s \notin Cover(list)
    BY <1>0, <1>2, <2>1 DEF Holes
  <2>3. a + 1 \notin Cover(list) /\ b - 1 \notin Cover(list) /\ b # 0
    BY <1>0, <2>2
  <2>4. PICK i \in 1 .. Len(list) : a = list[i].to
    BY <2>3, RunEnds
  <2>5. PICK j \in 1 .. Len(list) : b = list[j].from
    BY <2>3, RunStarts
  <2>6. i < j
    <3> SUFFICES ASSUME j <= i
                 PROVE  FALSE
      BY <1>0
    <3>1. list[j].from <= list[i].from
      BY SortedRises
    <3> QED
      BY <1>0, <2>2, <2>4, <2>5, <3>1
  <2>7. i + 1 \in 1 .. Len(list) /\ i \in 1 .. Len(list) - 1
    BY <1>0, <2>6
  <2>8. j = i + 1
    <3> SUFFICES ASSUME i + 1 < j
                 PROVE  FALSE
      BY <1>0, <2>6
    <3>1. list[i].to + 1 < list[i + 1].from /\ list[i + 1].to + 1 < list[j].from
      BY <1>0, <2>7
    <3>2. list[i + 1].from \in Cover(list) /\ a < list[i + 1].from /\ list[i + 1].from < b
      <4>1. /\ list[i].to \in Nat /\ list[i + 1].from \in Nat /\ list[i + 1].to \in Nat
            /\ list[j].from \in Nat /\ list[i + 1].from <= list[i + 1].to
        BY <1>0, <2>7
      <4>2. list[i + 1].from \in Cover(list)
        BY <2>7, EndsCovered
      <4> QED
        BY <2>4, <2>5, <3>1, <4>1, <4>2, SMTT(20)
    <3> QED
      BY <1>0, <2>2, <3>2, Zenon
  <2> QED
    BY <2>1, <2>4, <2>5, <2>7, <2>8, Zenon
<1> QED
  BY <1>1, <1>2

\* The pair enforceCap merges is the narrowest hole of the set.
LEMMA NarrowestFacts ==
    ASSUME NEW list, Sorted(list), NEW b, IsBest(list, b)
    PROVE  NarrowestHole(Cover(list)) = <<list[b].to, list[b + 1].from>>
<1> DEFINE holes == Holes(Cover(list))
           P(h) == \A k \in holes : \/ h[2] - h[1] < k[2] - k[1]
                                    \/ h[2] - h[1] = k[2] - k[1] /\ h[1] <= k[1]
           h0 == <<list[b].to, list[b + 1].from>>
<1>0. /\ Len(list) \in Nat /\ b \in 1 .. Len(list) - 1
      /\ \A j \in 1 .. Len(list) : list[j].from \in Nat /\ list[j].to \in Nat
  BY SortedFacts DEF IsBest
<1>1. \A h \in holes : h[1] \in Nat /\ h[2] \in Nat /\ h = <<h[1], h[2]>>
  <2> SUFFICES ASSUME NEW h \in holes
               PROVE  h[1] \in Nat /\ h[2] \in Nat /\ h = <<h[1], h[2]>>
    OBVIOUS
  <2>1. PICK i \in 1 .. Len(list) - 1 : h = <<list[i].to, list[i + 1].from>>
    BY HoleFacts
  <2>2. i \in 1 .. Len(list) /\ i + 1 \in 1 .. Len(list)
    BY <1>0
  <2> QED
    BY <1>0, <2>1, <2>2
<1>2. h0 \in holes
  BY <1>0, HoleFacts, Zenon
<1>3. P(h0)
  <2> SUFFICES ASSUME NEW k \in holes
               PROVE  \/ h0[2] - h0[1] < k[2] - k[1]
                      \/ h0[2] - h0[1] = k[2] - k[1] /\ h0[1] <= k[1]
    BY Zenon
  <2>1. PICK j \in 1 .. Len(list) - 1 : k = <<list[j].to, list[j + 1].from>>
    BY HoleFacts
  <2>2. /\ j \in 1 .. Len(list) /\ j + 1 \in 1 .. Len(list)
        /\ b \in 1 .. Len(list) /\ b + 1 \in 1 .. Len(list)
    BY <1>0
  <2>3. /\ h0[2] - h0[1] = Hole(list, b) /\ k[2] - k[1] = Hole(list, j)
        /\ h0[1] = list[b].to /\ k[1] = list[j].to
    BY <2>1 DEF Hole
  <2>4. /\ Hole(list, b) \in Int /\ Hole(list, j) \in Int
        /\ list[b].to \in Nat /\ list[j].to \in Nat
    BY <1>0, <2>2 DEF Hole
  <2>5. CASE j < b
    <3>1. j \in 1 .. b - 1
      BY <1>0, <2>5
    <3>2. Hole(list, b) < Hole(list, j)
      BY <3>1 DEF IsBest
    <3> QED
      BY <2>3, <3>2
  <2>6. CASE b <= j
    <3>1. Hole(list, b) <= Hole(list, j)
      BY DEF IsBest
    <3>2. list[b].to <= list[j].to
      BY <2>2, <2>6, SortedRises, Zenon
    <3> HIDE DEF h0
    <3> QED
      BY <2>3, <2>4, <3>1, <3>2
  <2> QED
    BY <1>0, <2>5, <2>6
<1>4. ASSUME NEW h \in holes, P(h)
      PROVE  h = h0
  <2>0. h0[1] \in Nat /\ h0[2] \in Nat /\ h[1] \in Nat /\ h[2] \in Nat
    BY <1>1, <1>2, Zenon
  <2>1. \/ h[2] - h[1] < h0[2] - h0[1]
        \/ h[2] - h[1] = h0[2] - h0[1] /\ h[1] <= h0[1]
    BY <1>2, <1>4, Zenon
  <2>2. \/ h0[2] - h0[1] < h[2] - h[1]
        \/ h0[2] - h0[1] = h[2] - h[1] /\ h0[1] <= h[1]
    BY <1>3
  <2>5. h0 = <<h0[1], h0[2]>> /\ h = <<h[1], h[2]>>
    BY <1>1, <1>2
  <2> HIDE DEF h0, holes
  <2>3. h[1] = h0[1] /\ h[2] = h0[2]
    BY <2>0, <2>1, <2>2
  <2> QED
    BY <2>3, <2>5
<1>5. NarrowestHole(Cover(list)) = CHOOSE h \in holes : P(h)
  BY DEF NarrowestHole
<1> HIDE DEF holes, P, h0
<1>6. (CHOOSE h \in holes : P(h)) = h0
  BY <1>2, <1>3, <1>4, Zenon
<1> QED
  BY <1>5, <1>6 DEF h0

\* enforceCap on the list is enforceCap on the set it covers.
LEMMA CapImplements ==
    ASSUME NEW list, Sorted(list), Len(list) <= MaxIntervals + 1, NEW t \in BOOLEAN
    PROVE  /\ Sorted(Cap(list)) /\ Len(Cap(list)) <= MaxIntervals
           /\ EnforceCap([missing |-> Cover(list), truncated |-> t])
                 = [missing |-> Cover(Cap(list)), truncated |-> (t \/ Len(list) > MaxIntervals)]
<1>0. Len(list) \in Nat /\ MaxIntervals \in Nat
  BY SortedFacts, SpaceFacts
<1>1. PICK g : g = [missing |-> Cover(list), truncated |-> t]
  BY Zenon
<1>2. g.missing = Cover(list) /\ g.truncated = t
  BY <1>1
<1>3. IntervalCount(g.missing) = Len(list)
  BY <1>2, CountFacts
<1>4. CASE Len(list) <= MaxIntervals
  <2>1. Cap(list) = list
    BY <1>4 DEF Cap
  <2>2. EnforceCap(g) = g
    BY <1>3, <1>4 DEF EnforceCap
  <2>3. (t \/ Len(list) > MaxIntervals) = t
    BY <1>0, <1>4
  <2> QED
    BY <1>1, <1>4, <2>1, <2>2, <2>3
<1>5. CASE Len(list) > MaxIntervals
  <2>1. PICK b : /\ IsBest(list, b)
                 /\ Sorted(Cap(list)) /\ Len(Cap(list)) = Len(list) - 1
                 /\ Cover(Cap(list)) = Cover(list) \cup
                       {s \in SeqSpace : list[b].to < s /\ s < list[b + 1].from}
    BY <1>5, CapFacts
  <2>2. NarrowestHole(g.missing) = <<list[b].to, list[b + 1].from>>
    BY <1>2, <2>1, NarrowestFacts
  <2>3. ~(IntervalCount(g.missing) <= MaxIntervals)
    BY <1>0, <1>3, <1>5
  <2>4. EnforceCap(g) = [missing |-> Cover(Cap(list)), truncated |-> TRUE]
    <3>1. PICK h : h = NarrowestHole(g.missing)
      OBVIOUS
    <3>2. EnforceCap(g) = [missing   |-> g.missing \cup {s \in SeqSpace : h[1] < s /\ s < h[2]},
                           truncated |-> TRUE]
      BY <2>3, <3>1 DEF EnforceCap
    <3>3. h[1] = list[b].to /\ h[2] = list[b + 1].from
      BY <2>2, <3>1
    <3>4. Cover(Cap(list)) = g.missing \cup {s \in SeqSpace : h[1] < s /\ s < h[2]}
      BY <1>2, <2>1, <3>3, Zenon
    <3> QED
      BY <3>2, <3>4
  <2>5. (t \/ Len(list) > MaxIntervals) = TRUE
    BY <1>5
  <2>6. Len(Cap(list)) <= MaxIntervals
    BY <1>0, <2>1
  <2> QED
    BY <1>1, <2>1, <2>4, <2>5, <2>6, Zenon
<1> QED
  BY <1>0, <1>4, <1>5

-----------------------------------------------------------------------------
(* The specification.                                                      *)

LEMMA CoveredIsCover ==
    ASSUME NEW list, Sorted(list)
    PROVE  UNION {in.from .. in.to : in \in Range(list)} = Cover(list)
<1> DEFINE covered == UNION {in.from .. in.to : in \in Range(list)}
<1>1. /\ list \in Seq(Interval) /\ Len(list) \in Nat
      /\ \A i \in 1 .. Len(list) : /\ list[i].from \in Nat /\ list[i].to \in Nat
                                   /\ list[i].to <= MaxSeq
  BY SortedFacts
<1>2. DOMAIN list = 1 .. Len(list)
  BY <1>1, LenProperties
<1>3. Range(list) = {list[i] : i \in 1 .. Len(list)}
  BY <1>2 DEF Range
<1>4. ASSUME NEW s \in covered
      PROVE  s \in Cover(list)
  <2>1. PICK i \in 1 .. Len(list) : s \in list[i].from .. list[i].to
    BY <1>3, <1>4
  <2>2. s \in SeqSpace /\ Holds(list[i], s)
    BY <1>1, <2>1, SpaceFacts DEF Holds
  <2> QED
    BY <2>2 DEF Cover
<1>5. ASSUME NEW s \in Cover(list)
      PROVE  s \in covered
  <2>1. PICK i \in 1 .. Len(list) : Holds(list[i], s)
    BY DEF Cover
  <2>2. s \in list[i].from .. list[i].to
    BY <1>1, <2>1, SpaceFacts DEF Cover, Holds
  <2> QED
    BY <1>3, <2>2
<1> QED
  BY <1>4, <1>5

\* The gap set the list stands for.
Gaps == [missing |-> Covered, truncated |-> truncated]

LEMMA GapsFacts ==
    ASSUME ListInv
    PROVE  Gaps = [missing |-> Cover(intervals), truncated |-> truncated]
BY CoveredIsCover, Zenon DEF ListInv, Gaps, Covered

LEMMA GapsFactsNext ==
    ASSUME ListInv'
    PROVE  Gaps' = [missing |-> Cover(intervals'), truncated |-> truncated']
<1>1. Sorted(intervals')
  BY DEF ListInv
<1>2. Covered' = Cover(intervals')
  BY <1>1, CoveredIsCover DEF Covered
<1> QED
  BY <1>2 DEF Gaps

\* A list at most one interval too long, cut to the cap.
LEMMA CappedStep ==
    ASSUME NEW list, Sorted(list), Len(list) <= MaxIntervals + 1, truncated \in BOOLEAN,
           intervals' = Cap(list), truncated' = (truncated \/ Len(list) > MaxIntervals)
    PROVE  /\ ListInv'
           /\ Gaps' = EnforceCap([missing |-> Cover(list), truncated |-> truncated])
<1>1. /\ Sorted(Cap(list)) /\ Len(Cap(list)) <= MaxIntervals
      /\ EnforceCap([missing |-> Cover(list), truncated |-> truncated])
            = [missing   |-> Cover(Cap(list)),
               truncated |-> (truncated \/ Len(list) > MaxIntervals)]
  BY CapImplements
<1>2. Sorted(intervals') /\ Len(intervals') <= MaxIntervals
  BY <1>1
<1>3. truncated' \in BOOLEAN
  OBVIOUS
<1>4. ListInv'
  BY <1>2, <1>3 DEF ListInv
<1> QED
  BY <1>1, <1>4, GapsFactsNext

LEMMA Updated ==
    ASSUME NEW m, NEW n, NEW t
    PROVE  [[missing |-> m, truncated |-> t] EXCEPT !.missing = n]
              = [missing |-> n, truncated |-> t]
OBVIOUS

LEMMA AddStep ==
    ASSUME ListInv, NEW from \in SeqSpace, NEW to \in SeqSpace, from <= to,
           AddInterval(from, to)
    PROVE  ListInv' /\ Gaps' = Add(Gaps, from, to)
<1>1. PICK list : list = ListAdd(intervals, from, to)
  OBVIOUS
<1>2. /\ intervals' = Cap(list)
      /\ truncated' = (truncated \/ Len(list) > MaxIntervals)
  BY <1>1 DEF AddInterval
<1>3. Sorted(intervals) /\ Len(intervals) <= MaxIntervals /\ truncated \in BOOLEAN
  BY DEF ListInv
<1>4. /\ Sorted(list) /\ Len(list) \in Nat /\ Len(list) <= Len(intervals) + 1
      /\ Cover(list) = Cover(intervals) \cup {s \in SeqSpace : from <= s /\ s <= to}
  BY <1>1, <1>3, AddFacts
<1>5. Len(list) <= MaxIntervals + 1
  BY <1>3, <1>4, SortedFacts, SpaceFacts
<1>6. /\ ListInv'
      /\ Gaps' = EnforceCap([missing |-> Cover(list), truncated |-> truncated])
  BY <1>2, <1>3, <1>4, <1>5, CappedStep, Zenon
<1>7. [Gaps EXCEPT !.missing = @ \cup {s \in SeqSpace : from <= s /\ s <= to}]
         = [missing |-> Cover(list), truncated |-> truncated]
  <2>1. Gaps = [missing |-> Cover(intervals), truncated |-> truncated]
    BY GapsFacts
  <2>2. Gaps.missing \cup {s \in SeqSpace : from <= s /\ s <= to} = Cover(list)
    BY <1>4, <2>1
  <2> QED
    BY <2>1, <2>2, Updated
<1> QED
  BY <1>6, <1>7 DEF Add

LEMMA FillStep ==
    ASSUME ListInv, NEW seq \in SeqSpace, FillSeq(seq)
    PROVE  ListInv' /\ Contains(Gaps, seq) /\ Gaps' = Fill(Gaps, seq)
<1>1. PICK i : i = Find(intervals, seq)
  OBVIOUS
<1>2. PICK list : list = ListFill(intervals, i, seq)
  OBVIOUS
<1>3. /\ i # 0 /\ intervals' = Cap(list)
      /\ truncated' = (truncated \/ Len(list) > MaxIntervals)
  BY <1>1, <1>2 DEF FillSeq
<1>4. Sorted(intervals) /\ Len(intervals) <= MaxIntervals /\ truncated \in BOOLEAN
  BY DEF ListInv
<1>5. i \in 1 .. Len(intervals) /\ Holds(intervals[i], seq) /\ seq \in Cover(intervals)
  BY <1>1, <1>3, <1>4, FindFacts
<1>6. /\ Sorted(list) /\ Len(list) \in Nat /\ Len(list) <= Len(intervals) + 1
      /\ Cover(list) = Cover(intervals) \ {seq}
  BY <1>2, <1>4, <1>5, FillFacts, Zenon
<1>7. Len(list) <= MaxIntervals + 1
  BY <1>4, <1>6, SortedFacts, SpaceFacts
<1>8. /\ ListInv'
      /\ Gaps' = EnforceCap([missing |-> Cover(list), truncated |-> truncated])
  BY <1>3, <1>4, <1>6, <1>7, CappedStep, Zenon
<1>9. [Gaps EXCEPT !.missing = @ \ {seq}] = [missing |-> Cover(list), truncated |-> truncated]
  <2>1. Gaps = [missing |-> Cover(intervals), truncated |-> truncated]
    BY GapsFacts
  <2>2. Gaps.missing \ {seq} = Cover(list)
    BY <1>6, <2>1
  <2> QED
    BY <2>1, <2>2, Updated
<1>10. Contains(Gaps, seq)
  BY <1>5, GapsFacts DEF Contains
<1> QED
  BY <1>8, <1>9, <1>10 DEF Fill

LEMMA EmptyList ==
    /\ ListInit => ListInv /\ Gaps = EmptyGaps
    /\ Clear => ListInv' /\ Gaps' = EmptyGaps
<1>0. Sorted(<<>>) /\ Len(<<>>) = 0 /\ Cover(<<>>) = {} /\ 0 <= MaxIntervals
  BY NoneSorted, SpaceFacts DEF Cover
<1>1. ASSUME ListInit
      PROVE  ListInv /\ Gaps = EmptyGaps
  <2>1. ListInv
    BY <1>0, <1>1, Zenon DEF ListInit, ListInv
  <2> QED
    BY <1>0, <1>1, <2>1, GapsFacts DEF ListInit, EmptyGaps
<1>2. ASSUME Clear
      PROVE  ListInv' /\ Gaps' = EmptyGaps
  <2>1. ListInv'
    BY <1>0, <1>2, Zenon DEF Clear, ListInv
  <2> QED
    BY <1>0, <1>2, <2>1, GapsFactsNext DEF Clear, EmptyGaps
<1> QED
  BY <1>1, <1>2

LEMMA ListInvKept == ListInv /\ [ListNext]_listVars => ListInv'
<1> SUFFICES ASSUME ListInv, [ListNext]_listVars
             PROVE  ListInv'
  OBVIOUS
<1>1. ASSUME NEW from \in SeqSpace, NEW to \in SeqSpace, from <= to, AddInterval(from, to)
      PROVE  ListInv'
  BY <1>1, AddStep
<1>2. ASSUME NEW seq \in SeqSpace, FillSeq(seq)
      PROVE  ListInv'
  BY <1>2, FillStep
<1>3. CASE Clear
  BY <1>3, EmptyList
<1>4. CASE UNCHANGED listVars
  BY <1>4 DEF listVars, ListInv
<1> QED
  BY <1>1, <1>2, <1>3, <1>4 DEF ListNext

\* ListIsSound: every list of intervals a gap set goes through is sorted, without
\* touching or overlapping neighbours, and no longer than the cap, for every
\* sequence space and every cap.
THEOREM ListStaysSound == ListSpec => []ListIsSound
<1>1. ListInit => ListInv
  BY EmptyList
<1>2. ListInv /\ [ListNext]_listVars => ListInv'
  BY ListInvKept
<1>3. ListInv => ListIsSound
  <2> SUFFICES ASSUME ListInv
               PROVE  ListIsSound
    OBVIOUS
  <2>1. /\ Sorted(intervals) /\ intervals \in Seq(Interval) /\ Len(intervals) \in Nat
        /\ Len(intervals) <= MaxIntervals /\ truncated \in BOOLEAN
        /\ \A i \in 1 .. Len(intervals) : /\ intervals[i] \in Interval
                                          /\ intervals[i].from <= intervals[i].to
        /\ \A i, j \in 1 .. Len(intervals) : i < j => intervals[i].to + 1 < intervals[j].from
    BY SortedFacts DEF ListInv
  <2>2. DOMAIN intervals = 1 .. Len(intervals)
    BY <2>1, LenProperties
  <2>3. Range(intervals) \subseteq Interval
    BY <2>1, <2>2, Zenon DEF Range
  <2>4. \A i \in 1 .. Len(intervals) - 1 : intervals[i].to + 1 < intervals[i + 1].from
    <3> SUFFICES ASSUME NEW i \in 1 .. Len(intervals) - 1
                 PROVE  intervals[i].to + 1 < intervals[i + 1].from
      OBVIOUS
    <3>1. i \in 1 .. Len(intervals) /\ i + 1 \in 1 .. Len(intervals) /\ i < i + 1
      BY <2>1
    <3> QED
      BY <2>1, <3>1
  <2> QED
    BY <2>1, <2>2, <2>3, <2>4, Zenon DEF ListIsSound, ListBounded, Normalized
<1> QED
  BY <1>1, <1>2, <1>3, PTL DEF ListSpec

\* The operators of the instance are those of GapSet.
LEMMA SameOperators ==
    /\ Abstract!SeqSpace = SeqSpace
    /\ \A g : Abstract!EnforceCap(g) = EnforceCap(g)
<1>1. Abstract!SeqSpace = SeqSpace
  BY DEF Abstract!SeqSpace, SeqSpace
<1>2. \A m : Abstract!Holes(m) = Holes(m)
  BY <1>1, Zenon DEF Abstract!Holes, Holes
<1>3. \A m : Abstract!NarrowestHole(m) = NarrowestHole(m)
  BY <1>2, Zenon DEF Abstract!NarrowestHole, NarrowestHole
<1>4. \A m : Abstract!IntervalCount(m) = IntervalCount(m)
  BY Zenon DEF Abstract!IntervalCount, IntervalCount, Abstract!Cardinality, Cardinality
<1>5. \A g : Abstract!EnforceCap(g) = EnforceCap(g)
  BY <1>1, <1>3, <1>4, Zenon DEF Abstract!EnforceCap, EnforceCap
<1> QED
  BY <1>1, <1>5

\* ImplementsGapSet: whatever the list does, the numbers it covers change by
\* exactly the operators the sequence tracker is specified with, the merge that
\* the cap forces included. Add, Fill, Clear and enforceCap may be read as
\* operations on a set of numbers, for every sequence space and every cap.
THEOREM ListImplementsSet == ListSpec => ImplementsGapSet
<1>1. ListInit => ListInv /\ Abstract!Init
  BY EmptyList DEF Gaps, Abstract!Init, Abstract!EmptyGaps, EmptyGaps
<1>2. ListInv /\ [ListNext]_listVars => [Abstract!Next]_Gaps
  <2> SUFFICES ASSUME ListInv, [ListNext]_listVars
               PROVE  [Abstract!Next]_Gaps
    OBVIOUS
  <2>1. ASSUME NEW from \in SeqSpace, NEW to \in SeqSpace, from <= to, AddInterval(from, to)
        PROVE  Abstract!Next
    <3>1. Gaps' = Add(Gaps, from, to)
      BY <2>1, AddStep
    <3>2. Abstract!AddGap(from, to)
      BY <3>1, SameOperators, Zenon DEF Abstract!AddGap, Abstract!Add, Add, Gaps
    <3> QED
      BY <2>1, <3>2 DEF Abstract!Next, Abstract!SeqSpace, SeqSpace
  <2>2. ASSUME NEW seq \in SeqSpace, FillSeq(seq)
        PROVE  Abstract!Next
    <3>1. Contains(Gaps, seq) /\ Gaps' = Fill(Gaps, seq)
      BY <2>2, FillStep
    <3>2. Abstract!FillGap(seq)
      BY <3>1, SameOperators, Zenon
         DEF Abstract!FillGap, Abstract!Fill, Fill, Gaps, Abstract!Contains, Contains
    <3> QED
      BY <2>2, <3>2 DEF Abstract!Next, Abstract!SeqSpace, SeqSpace
  <2>3. CASE Clear
    <3>1. Gaps' = EmptyGaps
      BY <2>3, EmptyList
    <3> QED
      BY <3>1 DEF Abstract!Next, Abstract!ClearGaps, Abstract!EmptyGaps, EmptyGaps, Gaps
  <2>4. CASE UNCHANGED listVars
    BY <2>4 DEF listVars, Gaps, Covered
  <2> QED
    BY <2>1, <2>2, <2>3, <2>4 DEF ListNext
<1> QED
  BY <1>1, <1>2, ListInvKept, PTL DEF ListSpec, ImplementsGapSet, Abstract!Spec, Gaps
=============================================================================
