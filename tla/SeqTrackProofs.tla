--------------------------- MODULE SeqTrackProofs ---------------------------
(***************************************************************************)
(* What SeqTrack guarantees for any number of publishers, any sequence     *)
(* space and any thresholds: its fields keep their types, a gap is never   *)
(* missed (I4), and below the top of the sequence space no gap is invented *)
(* and no event is accepted twice (I5).                                    *)
(***************************************************************************)
EXTENDS SeqTrack, TLAPS

USE MaxSeqAssumption

-----------------------------------------------------------------------------
(* The gap set.                                                            *)

\* Whatever enforceCap merges, the result is a gap set.
LEMMA EnforceCapType == ASSUME NEW g \in GapSets PROVE EnforceCap(g) \in GapSets
BY DEF EnforceCap, GapSets

\* enforceCap only ever adds numbers, and leaves a set alone unless it marks it
\* truncated: this is why the cap may invent gaps and can not hide one.
LEMMA EnforceCapKeeps ==
    ASSUME NEW g \in GapSets
    PROVE  /\ g.missing \subseteq EnforceCap(g).missing
           /\ ~EnforceCap(g).truncated => EnforceCap(g) = g
BY DEF EnforceCap, GapSets

\* Add contains the old numbers and the new interval, and nothing else unless
\* it is truncated.
LEMMA AddGaps ==
    ASSUME NEW g \in GapSets, NEW from, NEW to
    PROVE  /\ Add(g, from, to) \in GapSets
           /\ g.missing \subseteq Add(g, from, to).missing
           /\ \A s \in SeqSpace : from <= s /\ s <= to => s \in Add(g, from, to).missing
           /\ ~Add(g, from, to).truncated =>
                 /\ ~g.truncated
                 /\ \A s \in Add(g, from, to).missing :
                        s \in g.missing \/ (from <= s /\ s <= to)
<1> DEFINE h == [g EXCEPT !.missing = @ \cup {s \in SeqSpace : from <= s /\ s <= to}]
<1>1. /\ h \in GapSets
      /\ h.missing = g.missing \cup {s \in SeqSpace : from <= s /\ s <= to}
      /\ h.truncated = g.truncated
  BY DEF GapSets
<1>2. Add(g, from, to) = EnforceCap(h)
  BY DEF Add
<1> HIDE DEF h
<1> QED
  BY <1>1, <1>2, EnforceCapType, EnforceCapKeeps

\* Fill gives up the one number, and no other.
LEMMA FillGaps ==
    ASSUME NEW g \in GapSets, NEW seq
    PROVE  /\ Fill(g, seq) \in GapSets
           /\ g.missing \ {seq} \subseteq Fill(g, seq).missing
           /\ ~Fill(g, seq).truncated => /\ ~g.truncated
                                         /\ Fill(g, seq).missing = g.missing \ {seq}
<1> DEFINE h == [g EXCEPT !.missing = @ \ {seq}]
<1>1. /\ h \in GapSets
      /\ h.missing = g.missing \ {seq}
      /\ h.truncated = g.truncated
  BY DEF GapSets
<1>2. Fill(g, seq) = EnforceCap(h)
  BY DEF Fill
<1> HIDE DEF h
<1> QED
  BY <1>1, <1>2, EnforceCapType, EnforceCapKeeps

-----------------------------------------------------------------------------
(* Types.                                                                  *)

\* A number of the stream is in the space, and so is a successor.
LEMMA SuccType == ASSUME NEW x \in SeqSpace PROVE Succ(x) \in SeqSpace
BY DEF Succ, SeqSpace

\* An entry written by Update is well-typed when the record it is given is.
LEMMA UpdateType ==
    ASSUME TypeOK, NEW p \in Publishers, NEW st \in PubState, Update(p, st)
    PROVE  pubs' \in [Publishers -> PubState \cup {Unknown}] /\ now' \in Nat
BY DEF TypeOK, Update, PubState

-----------------------------------------------------------------------------
(* What the building blocks of the actions do.                             *)

\* Update rewrites the publisher's own entry, and only the fields it is given.
LEMMA UpdateEffect ==
    ASSUME TypeOK, NEW p \in Publishers, NEW st \in PubState, Update(p, st)
    PROVE  /\ pubs'[p].hwm = st.hwm
           /\ pubs'[p].gaps = st.gaps
           /\ pubs'[p] \in PubState
           /\ \A q \in Publishers \ {p} : pubs'[q] = pubs[q]
BY DEF TypeOK, Update, PubState

\* Count counts one event of one publisher.
LEMMA CountEffect ==
    ASSUME TypeOK, NEW p \in Publishers, NEW s \in SeqSpace, Count(p, s)
    PROVE  /\ taken' \in [Publishers -> [SeqSpace -> 0 .. 2]]
           /\ base' = base
           /\ taken'[p][s] # 0
           /\ taken[p][s] = 0 => taken'[p][s] = 1
           /\ \A t \in SeqSpace \ {s} : taken'[p][t] = taken[p][t]
           /\ \A q \in Publishers \ {p} : taken'[q] = taken[q]
<1> DEFINE n == IF taken[p][s] = 0 THEN 1 ELSE 2
<1>1. taken' = [taken EXCEPT ![p] = [taken[p] EXCEPT ![s] = n]] /\ base' = base
  BY DEF Count, TypeOK
<1>2. taken[p] \in [SeqSpace -> 0 .. 2] /\ n \in 1 .. 2
  BY DEF TypeOK
<1>3. [taken[p] EXCEPT ![s] = n] \in [SeqSpace -> 0 .. 2]
  BY <1>2
<1> QED
  BY <1>1, <1>2, <1>3 DEF TypeOK

\* Rebase starts the publisher's history anew.
LEMMA RebaseEffect ==
    ASSUME TypeOK, NEW p \in Publishers, NEW s \in SeqSpace, Rebase(p, s)
    PROVE  /\ taken' \in [Publishers -> [SeqSpace -> 0 .. 2]]
           /\ base' \in [Publishers -> SeqSpace]
           /\ base'[p] = s
           /\ taken'[p][s] = 1
           /\ \A t \in SeqSpace \ {s} : taken'[p][t] = 0
           /\ \A q \in Publishers \ {p} : taken'[q] = taken[q] /\ base'[q] = base[q]
<1>1. [Never EXCEPT ![s] = 1] \in [SeqSpace -> 0 .. 2]
  BY DEF Never
<1>2. taken' = [taken EXCEPT ![p] = [Never EXCEPT ![s] = 1]]
  BY DEF Rebase
<1> QED
  BY <1>1, <1>2 DEF Rebase, TypeOK, Never

\* AcceptFirstSeen admits one publisher, and the others stay or are evicted.
LEMMA FirstSeenEffect ==
    ASSUME TypeOK, NEW p \in Publishers, NEW e \in Epochs, NEW s \in Seqs,
           AcceptFirstSeen(p, e, s)
    PROVE  /\ pubs' \in [Publishers -> PubState \cup {Unknown}]
           /\ pubs'[p] \in PubState
           /\ pubs'[p].hwm = s /\ pubs'[p].gaps = EmptyGaps
           /\ \A q \in Publishers \ {p} : pubs'[q] = pubs[q] \/ pubs'[q] = Unknown
<1>1. Fresh(e, s) \in PubState /\ Fresh(e, s).hwm = s /\ Fresh(e, s).gaps = EmptyGaps
  BY SeqsAssumption DEF Fresh, PubState, TypeOK, EmptyGaps, GapSets
<1> QED
  BY <1>1 DEF AcceptFirstSeen, TypeOK

-----------------------------------------------------------------------------
(* One step of Next.                                                       *)

\* Types are preserved by every step.
LEMMA TypeStep == ASSUME TypeOK, [Next]_vars PROVE TypeOK'
<1> USE SeqsAssumption, SuccType DEF EmptyGaps
<1>0. EmptyGaps \in GapSets
  BY DEF GapSets
<1>1. ASSUME NEW p \in Publishers, NEW e \in Epochs, NEW s \in Seqs, Observe(p, e, s)
      PROVE  TypeOK'
  <2>0. s \in SeqSpace
    OBVIOUS
  <2>1. CASE AcceptFirstSeen(p, e, s)
    BY <2>0, <2>1, FirstSeenEffect, RebaseEffect DEF AcceptFirstSeen, TypeOK
  <2>2. ASSUME pubs[p] # Unknown, ~AcceptFirstSeen(p, e, s) PROVE TypeOK'
    <3>1. pubs[p] \in PubState
      BY <2>2 DEF TypeOK
    <3>2. CASE DeclaredRestart(p, e, s)
      <4>1. [pubs[p] EXCEPT !.epoch = e, !.hwm = s, !.gaps = EmptyGaps] \in PubState
        BY <1>0, <2>0, <3>1, Zenon DEF PubState
      <4> QED
        BY <2>0, <3>2, <4>1, UpdateType, RebaseEffect DEF DeclaredRestart, TypeOK
    <3>3. CASE DropStaleEpoch(p, e, s)
      BY <3>1, <3>3, UpdateType DEF DropStaleEpoch, TypeOK
    <3>4. CASE Accept(p, e, s)
      <4>1. [pubs[p] EXCEPT !.hwm = s] \in PubState
        BY <2>0, <3>1 DEF PubState
      <4> QED
        BY <2>0, <3>4, <4>1, UpdateType, CountEffect DEF Accept, TypeOK
    <3>5. CASE AcceptWithGap(p, e, s)
      <4>1. Add(pubs[p].gaps, Succ(pubs[p].hwm), s - 1) \in GapSets
        BY <3>1, AddGaps DEF PubState
      <4>2. [pubs[p] EXCEPT !.hwm = s, !.gaps = Add(@, Succ(pubs[p].hwm), s - 1)] \in PubState
        BY <2>0, <3>1, <4>1, Zenon DEF PubState
      <4> QED
        BY <2>0, <3>5, <4>2, UpdateType, CountEffect DEF AcceptWithGap, TypeOK
    <3>6. CASE ImplicitRestart(p, e, s)
      <4>1. [pubs[p] EXCEPT !.hwm = s, !.gaps = EmptyGaps] \in PubState
        BY <1>0, <2>0, <3>1, Zenon DEF PubState
      <4> QED
        BY <2>0, <3>6, <4>1, UpdateType, RebaseEffect DEF ImplicitRestart, TypeOK
    <3>7. CASE AcceptLateFill(p, e, s)
      <4>1. Fill(pubs[p].gaps, s) \in GapSets
        BY <3>1, FillGaps DEF PubState
      <4>2. [pubs[p] EXCEPT !.gaps = Fill(@, s)] \in PubState
        BY <3>1, <4>1 DEF PubState
      <4> QED
        BY <2>0, <3>7, <4>2, UpdateType, CountEffect DEF AcceptLateFill, TypeOK
    <3>8. CASE DropDuplicate(p, e, s)
      BY <3>1, <3>8, UpdateType DEF DropDuplicate, TypeOK
    <3> QED
      BY <1>1, <2>2, <3>2, <3>3, <3>4, <3>5, <3>6, <3>7, <3>8 DEF Observe
  <2> QED
    BY <1>1, <2>1, <2>2 DEF Observe, DeclaredRestart, DropStaleEpoch, SameEpoch, Accept,
       AcceptWithGap, ImplicitRestart, AcceptLateFill, DropDuplicate
<1>2. ASSUME NEW p \in Publishers, ClearGaps(p) PROVE TypeOK'
  <2>1. pubs[p] \in PubState
    BY <1>2 DEF ClearGaps, TypeOK
  <2>2. [pubs[p] EXCEPT !.gaps = EmptyGaps] \in PubState
    BY <1>0, <2>1, Zenon DEF PubState
  <2>3. pubs' = [pubs EXCEPT ![p] = [pubs[p] EXCEPT !.gaps = EmptyGaps]]
    BY <1>2 DEF ClearGaps, TypeOK
  <2> QED
    BY <1>2, <2>2, <2>3 DEF ClearGaps, TypeOK
<1>3. CASE Reset
  BY <1>3 DEF Reset, TypeOK, Never, SeqSpace
<1>4. CASE Tick
  BY <1>4 DEF Tick, TypeOK
<1>5. CASE UNCHANGED vars
  BY <1>5 DEF vars, TypeOK
<1> QED
  BY <1>1, <1>2, <1>3, <1>4, <1>5 DEF Next

\* Every reachable state of the tracker is well-typed: no high-water mark leaves
\* the sequence space and no operation writes a malformed entry.
THEOREM TypeCorrect == Spec => []TypeOK
<1>1. Init => TypeOK
  BY DEF Init, TypeOK, Never, SeqSpace
<1> QED
  BY <1>1, TypeStep, PTL DEF Spec

-----------------------------------------------------------------------------
(* No gap is missed.                                                       *)

\* NoGapMissed is inductive given the types: an accepted number is counted in
\* the step that moves the high-water mark past it or takes it out of the gap
\* set, and the cap never takes a number out.
LEMMA NoGapMissedStep ==
    ASSUME TypeOK, NoGapMissed, [Next]_vars
    PROVE  NoGapMissed'
<1> DEFINE Accounted(p) == pubs[p] # Unknown =>
             \A s \in SeqSpace : base[p] <= s /\ s <= pubs[p].hwm /\ taken[p][s] = 0
                                 => s \in pubs[p].gaps.missing
<1>0. TypeOK'
  BY TypeStep
<1>1. \A p \in Publishers : Accounted(p)
  BY DEF NoGapMissed, Known, TypeOK, PubState, SeqSpace, Contains
<1>2. SUFFICES ASSUME NEW q \in Publishers PROVE Accounted(q)'
  BY <1>0, <1>2 DEF NoGapMissed, Known, TypeOK, PubState, SeqSpace, Contains
<1> USE SeqsAssumption DEF SeqSpace
<1>3. ASSUME NEW p \in Publishers, NEW e \in Epochs, NEW s \in Seqs, Observe(p, e, s)
      PROVE  Accounted(q)'
  <2>0. s \in SeqSpace
    OBVIOUS
  <2>1. CASE AcceptFirstSeen(p, e, s)
    <3>1. Rebase(p, s)
      BY <2>1 DEF AcceptFirstSeen
    <3> QED
      BY <1>1, <2>0, <2>1, <3>1, FirstSeenEffect, RebaseEffect, SMTT(20)
  <2>2. CASE pubs[p] # Unknown
    <3>1. pubs[p] \in PubState /\ pubs[p].gaps \in GapSets /\ pubs[p].hwm \in SeqSpace
      BY <2>2 DEF TypeOK, PubState
    <3>2. CASE DeclaredRestart(p, e, s)
      <4>1. [pubs[p] EXCEPT !.epoch = e, !.hwm = s, !.gaps = EmptyGaps] \in PubState
        BY <3>1, Zenon DEF PubState, EmptyGaps, GapSets
      <4>2. Update(p, [pubs[p] EXCEPT !.epoch = e, !.hwm = s, !.gaps = EmptyGaps]) /\ Rebase(p, s)
        BY <3>2 DEF DeclaredRestart
      <4>3. pubs'[p].hwm = s /\ \A r \in Publishers \ {p} : pubs'[r] = pubs[r]
        BY <3>1, <4>1, <4>2, UpdateEffect, Zenon DEF PubState
      <4> QED
        BY <1>1, <2>0, <4>2, <4>3, RebaseEffect
    <3>3. CASE DropStaleEpoch(p, e, s)
      BY <1>1, <2>2, <3>1, <3>3, UpdateEffect DEF DropStaleEpoch
    <3>4. CASE Accept(p, e, s)
      <4>1. [pubs[p] EXCEPT !.hwm = s] \in PubState
        BY <2>0, <3>1 DEF PubState
      <4>2. Update(p, [pubs[p] EXCEPT !.hwm = s]) /\ Count(p, s) /\ s = pubs[p].hwm + 1
        BY <3>4 DEF Accept, InOrder, Succ
      <4>3. /\ pubs'[p].hwm = s /\ pubs'[p].gaps = pubs[p].gaps
            /\ \A r \in Publishers \ {p} : pubs'[r] = pubs[r]
        BY <3>1, <4>1, <4>2, UpdateEffect DEF PubState
      <4>4. CASE q = p
        <5>1. /\ base' = base /\ taken'[p][s] # 0
              /\ \A t \in SeqSpace \ {s} : taken'[p][t] = taken[p][t]
          BY <2>0, <4>2, CountEffect
        <5> QED
          BY <1>1, <2>0, <2>2, <3>1, <4>2, <4>3, <4>4, <5>1
      <4>5. CASE q # p
        BY <1>1, <2>0, <4>2, <4>3, <4>5, CountEffect
      <4> QED
        BY <4>4, <4>5
    <3>5. CASE AcceptWithGap(p, e, s)
      <4> DEFINE g == Add(pubs[p].gaps, Succ(pubs[p].hwm), s - 1)
      <4>1. /\ g \in GapSets
            /\ pubs[p].gaps.missing \subseteq g.missing
            /\ \A t \in SeqSpace : Succ(pubs[p].hwm) <= t /\ t <= s - 1 => t \in g.missing
        BY <3>1, AddGaps
      <4> HIDE DEF g
      <4>2. [pubs[p] EXCEPT !.hwm = s, !.gaps = g] \in PubState
        BY <2>0, <3>1, <4>1, Zenon DEF PubState
      <4>3. Update(p, [pubs[p] EXCEPT !.hwm = s, !.gaps = g]) /\ Count(p, s)
        BY <3>5 DEF AcceptWithGap, g
      <4>4. /\ pubs'[p].hwm = s /\ pubs'[p].gaps = g
            /\ \A r \in Publishers \ {p} : pubs'[r] = pubs[r]
        BY <3>1, <4>2, <4>3, UpdateEffect, Zenon DEF PubState
      <4>5. CASE q = p
        <5>1. /\ base' = base /\ base[p] \in SeqSpace
              /\ taken'[p][s] # 0
              /\ \A t \in SeqSpace \ {s} : taken'[p][t] = taken[p][t]
          BY <2>0, <4>3, CountEffect DEF TypeOK
        <5>2. \A t \in SeqSpace : t > pubs[p].hwm => Succ(pubs[p].hwm) <= t
          BY <3>1 DEF Succ
        <5> QED
          BY <1>1, <2>0, <2>2, <3>1, <4>1, <4>4, <4>5, <5>1, <5>2
      <4>6. CASE q # p
        BY <1>1, <2>0, <4>3, <4>4, <4>6, CountEffect
      <4> QED
        BY <4>5, <4>6
    <3>6. CASE ImplicitRestart(p, e, s)
      <4>1. [pubs[p] EXCEPT !.hwm = s, !.gaps = EmptyGaps] \in PubState
        BY <3>1, Zenon DEF PubState, EmptyGaps, GapSets
      <4>2. Update(p, [pubs[p] EXCEPT !.hwm = s, !.gaps = EmptyGaps]) /\ Rebase(p, s)
        BY <3>6 DEF ImplicitRestart
      <4>3. pubs'[p].hwm = s /\ \A r \in Publishers \ {p} : pubs'[r] = pubs[r]
        BY <3>1, <4>1, <4>2, UpdateEffect, Zenon DEF PubState
      <4> QED
        BY <1>1, <2>0, <4>2, <4>3, RebaseEffect
    <3>7. CASE AcceptLateFill(p, e, s)
      <4> DEFINE g == Fill(pubs[p].gaps, s)
      <4>1. g \in GapSets /\ pubs[p].gaps.missing \ {s} \subseteq g.missing
        BY <3>1, FillGaps
      <4> HIDE DEF g
      <4>2. [pubs[p] EXCEPT !.gaps = g] \in PubState
        BY <3>1, <4>1 DEF PubState
      <4>3. Update(p, [pubs[p] EXCEPT !.gaps = g]) /\ Count(p, s)
        BY <3>7 DEF AcceptLateFill, g
      <4>4. /\ pubs'[p].hwm = pubs[p].hwm /\ pubs'[p].gaps = g
            /\ \A r \in Publishers \ {p} : pubs'[r] = pubs[r]
        BY <3>1, <4>2, <4>3, UpdateEffect DEF PubState
      <4> QED
        BY <1>1, <2>0, <2>2, <4>1, <4>3, <4>4, CountEffect
    <3>8. CASE DropDuplicate(p, e, s)
      BY <1>1, <2>2, <3>1, <3>8, UpdateEffect DEF DropDuplicate
    <3> QED
      BY <1>3, <2>1, <3>2, <3>3, <3>4, <3>5, <3>6, <3>7, <3>8 DEF Observe
  <2> QED
    BY <1>3, <2>1, <2>2 DEF Observe, DeclaredRestart, DropStaleEpoch, SameEpoch, Accept,
       AcceptWithGap, ImplicitRestart, AcceptLateFill, DropDuplicate
<1>4. ASSUME NEW p \in Publishers, ClearGaps(p) PROVE Accounted(q)'
  <2>1. pubs[p] \in PubState
    BY <1>4 DEF ClearGaps, TypeOK
  <2>2. /\ pubs'[p].hwm = pubs[p].hwm
        /\ \A r \in Publishers \ {p} : pubs'[r] = pubs[r] /\ taken'[r] = taken[r]
        /\ \A t \in SeqSpace : base[p] <= t /\ t <= pubs[p].hwm => taken'[p][t] = 1
        /\ base' = base
    BY <1>4, <2>1 DEF ClearGaps, TypeOK, PubState
  <2> QED
    BY <1>1, <2>2
<1>5. CASE Reset
  BY <1>5 DEF Reset
<1>6. CASE Tick
  BY <1>1, <1>6 DEF Tick
<1>7. CASE UNCHANGED vars
  BY <1>1, <1>7 DEF vars
<1> QED
  BY <1>3, <1>4, <1>5, <1>6, <1>7 DEF Next

\* Invariant I4: whatever the publishers send, in whatever order, a number the
\* tracker has passed and never accepted is in the gap set - for every number of
\* publishers, every sequence space, wrap-around included, and every cap.
THEOREM GapNeverMissed == Spec => []NoGapMissed
<1>1. Init => TypeOK /\ NoGapMissed
  BY DEF Init, TypeOK, Never, SeqSpace, NoGapMissed, Known
<1>2. TypeOK /\ NoGapMissed /\ [Next]_vars => (TypeOK /\ NoGapMissed)'
  BY TypeStep, NoGapMissedStep
<1> QED
  BY <1>1, <1>2, PTL DEF Spec

-----------------------------------------------------------------------------
(* Below the top of the sequence space, the gap set is exact.              *)

\* What makes NoFalseGap and AcceptedOnce inductive: the accepted numbers lie
\* between the baseline and the high-water mark, so a number past the mark is
\* new, and one in the gap set is too.
Exact(p) ==
    pubs[p] # Unknown =>
        /\ pubs[p].hwm \in Seqs
        /\ base[p] <= pubs[p].hwm
        /\ ~pubs[p].gaps.truncated =>
              /\ \A s \in pubs[p].gaps.missing :
                     base[p] < s /\ s < pubs[p].hwm /\ taken[p][s] = 0
              /\ \A s \in SeqSpace :
                     /\ taken[p][s] <= 1
                     /\ taken[p][s] > 0 => base[p] <= s /\ s <= pubs[p].hwm

\* Exact is about one publisher: what happens to another does not disturb it.
LEMMA OtherExact ==
    ASSUME NEW q \in Publishers, Exact(q), pubs'[q] = pubs[q] \/ pubs'[q] = Unknown,
           base'[q] = base[q], taken'[q] = taken[q]
    PROVE  Exact(q)'
BY DEF Exact

\* A new baseline is exact.
LEMMA RebaseExact ==
    ASSUME TypeOK, NEW p \in Publishers, NEW s \in Seqs, Rebase(p, s),
           pubs'[p].hwm = s, pubs'[p].gaps = EmptyGaps
    PROVE  Exact(p)'
<1>1. s \in SeqSpace
  BY SeqsAssumption
<1>2. /\ base'[p] = s /\ taken'[p][s] = 1
      /\ \A t \in SeqSpace \ {s} : taken'[p][t] = 0
  BY <1>1, RebaseEffect
<1>3. pubs'[p].gaps.missing = {} /\ s <= s
  BY <1>1 DEF EmptyGaps, SeqSpace
<1>4. \A t \in SeqSpace : /\ taken'[p][t] <= 1
                          /\ taken'[p][t] > 0 => s <= t /\ t <= s
  BY <1>1, <1>2 DEF SeqSpace
<1> QED
  BY <1>2, <1>3, <1>4 DEF Exact

\* Every step keeps the gap set exact. At MaxSeq the successor wraps and it is
\* not, which is why the streams considered stop short of it.
LEMMA ExactStep ==
    ASSUME MaxSeq \notin Seqs, TypeOK, \A p \in Publishers : Exact(p), [Next]_vars,
           NEW q \in Publishers
    PROVE  Exact(q)'
<1>0. TypeOK'
  BY TypeStep
<1>1. \A p \in Publishers : Exact(p)
  OBVIOUS
<1> USE SeqsAssumption DEF SeqSpace, Exact
<1>3. ASSUME NEW p \in Publishers, NEW e \in Epochs, NEW s \in Seqs, Observe(p, e, s)
      PROVE  Exact(q)'
  <2>0. s \in SeqSpace
    BY Zenon
  <2>1. CASE AcceptFirstSeen(p, e, s)
    <3>1. Rebase(p, s)
      BY <2>1 DEF AcceptFirstSeen
    <3>2. CASE q = p
      BY <2>1, <3>1, <3>2, FirstSeenEffect, RebaseExact
    <3>3. CASE q # p
      <4>1. pubs'[q] = pubs[q] \/ pubs'[q] = Unknown
        BY <2>1, <3>3, FirstSeenEffect
      <4>2. base'[q] = base[q] /\ taken'[q] = taken[q]
        BY <2>0, <3>1, <3>3, RebaseEffect, SMTT(20)
      <4> QED
        BY <1>1, <4>1, <4>2, OtherExact
    <3> QED
      BY <3>2, <3>3
  <2>2. CASE pubs[p] # Unknown
    <3>1. /\ pubs[p] \in PubState /\ pubs[p].gaps \in GapSets /\ pubs[p].hwm \in SeqSpace
          /\ pubs[p].hwm # MaxSeq
          /\ base[p] \in SeqSpace
          /\ taken[p] \in [SeqSpace -> 0 .. 2]
      BY <1>1, <2>2 DEF TypeOK, PubState
    <3>2. CASE DeclaredRestart(p, e, s)
      <4>1. [pubs[p] EXCEPT !.epoch = e, !.hwm = s, !.gaps = EmptyGaps] \in PubState
        BY <3>1, Zenon DEF PubState, EmptyGaps, GapSets
      <4>2. Update(p, [pubs[p] EXCEPT !.epoch = e, !.hwm = s, !.gaps = EmptyGaps]) /\ Rebase(p, s)
        BY <3>2 DEF DeclaredRestart
      <4>3. /\ pubs'[p].hwm = s /\ pubs'[p].gaps = EmptyGaps
            /\ \A r \in Publishers \ {p} : pubs'[r] = pubs[r]
        BY <3>1, <4>1, <4>2, UpdateEffect, Zenon DEF PubState
      <4>4. CASE q = p
        BY <4>2, <4>3, <4>4, RebaseExact
      <4>5. CASE q # p
        <5>1. pubs'[q] = pubs[q] /\ base'[q] = base[q] /\ taken'[q] = taken[q]
          BY <2>0, <4>2, <4>3, <4>5, RebaseEffect
        <5> QED
          BY <1>1, <5>1, OtherExact
      <4> QED
        BY <4>4, <4>5
    <3>3. CASE DropStaleEpoch(p, e, s)
      BY <1>1, <2>2, <3>1, <3>3, UpdateEffect DEF DropStaleEpoch
    <3>4. CASE Accept(p, e, s)
      <4>1. [pubs[p] EXCEPT !.hwm = s] \in PubState
        BY <2>0, <3>1 DEF PubState
      <4>2. Update(p, [pubs[p] EXCEPT !.hwm = s]) /\ Count(p, s) /\ s = pubs[p].hwm + 1
        BY <3>4 DEF Accept, InOrder, Succ
      <4>3. /\ pubs'[p].hwm = s /\ pubs'[p].gaps = pubs[p].gaps
            /\ \A r \in Publishers \ {p} : pubs'[r] = pubs[r]
        BY <3>1, <4>1, <4>2, UpdateEffect DEF PubState
      <4>4. CASE q = p /\ ~pubs[p].gaps.truncated
        <5>1. taken[p][s] = 0
          BY <1>1, <2>0, <2>2, <3>1, <4>2, <4>4
        <5>2. /\ base' = base /\ taken'[p][s] = 1
              /\ \A t \in SeqSpace \ {s} : taken'[p][t] = taken[p][t]
          BY <2>0, <4>2, <5>1, CountEffect
        <5>3. \A t \in pubs[p].gaps.missing : base[p] < t /\ t < s /\ taken'[p][t] = 0
          BY <1>1, <2>0, <2>2, <3>1, <4>2, <4>4, <5>1, <5>2, SMTT(20) DEF GapSets
        <5>4. \A t \in SeqSpace : /\ taken'[p][t] <= 1
                                  /\ taken'[p][t] > 0 => base[p] <= t /\ t <= s
          BY <1>1, <2>0, <2>2, <3>1, <4>2, <4>4, <5>2
        <5> QED
          BY <1>1, <2>0, <2>2, <3>1, <4>2, <4>3, <4>4, <5>2, <5>3, <5>4
      <4>5. CASE q = p /\ pubs[p].gaps.truncated
        BY <1>1, <2>0, <2>2, <3>1, <4>2, <4>3, <4>5, CountEffect
      <4>6. CASE q # p
        BY <1>1, <2>0, <4>2, <4>3, <4>6, CountEffect
      <4> QED
        BY <4>4, <4>5, <4>6
    <3>5. CASE AcceptWithGap(p, e, s)
      <4> DEFINE g == Add(pubs[p].gaps, Succ(pubs[p].hwm), s - 1)
      <4>1. /\ g \in GapSets
            /\ ~g.truncated => /\ ~pubs[p].gaps.truncated
                               /\ \A t \in g.missing : t \in pubs[p].gaps.missing
                                     \/ (pubs[p].hwm + 1 <= t /\ t <= s - 1)
        BY <3>1, AddGaps DEF Succ
      <4> HIDE DEF g
      <4>2. [pubs[p] EXCEPT !.hwm = s, !.gaps = g] \in PubState
        BY <2>0, <3>1, <4>1, Zenon DEF PubState
      <4>3. /\ Update(p, [pubs[p] EXCEPT !.hwm = s, !.gaps = g]) /\ Count(p, s)
            /\ s > pubs[p].hwm + 1
        BY <3>1, <3>5 DEF AcceptWithGap, SkipsAhead, Succ, g
      <4>4. /\ pubs'[p].hwm = s /\ pubs'[p].gaps = g
            /\ \A r \in Publishers \ {p} : pubs'[r] = pubs[r]
        BY <3>1, <4>2, <4>3, UpdateEffect, Zenon DEF PubState
      <4>5. CASE q = p /\ ~g.truncated
        <5>1. \A t \in SeqSpace : t > pubs[p].hwm => taken[p][t] = 0
          BY <1>1, <2>2, <3>1, <4>1, <4>5
        <5>2. /\ base' = base /\ taken'[p][s] = 1
              /\ \A t \in SeqSpace \ {s} : taken'[p][t] = taken[p][t]
          BY <2>0, <3>1, <4>3, <5>1, CountEffect
        <5>3. \A t \in g.missing : base[p] < t /\ t < s /\ taken'[p][t] = 0
          BY <1>1, <2>0, <2>2, <3>1, <4>1, <4>3, <4>5, <5>1, <5>2, SMTT(20) DEF GapSets
        <5>4. \A t \in SeqSpace : /\ taken'[p][t] <= 1
                                  /\ taken'[p][t] > 0 => base[p] <= t /\ t <= s
          BY <1>1, <2>0, <2>2, <3>1, <4>1, <4>3, <4>5, <5>2
        <5> QED
          BY <1>1, <2>0, <2>2, <3>1, <4>3, <4>4, <4>5, <5>2, <5>3, <5>4
      <4>6. CASE q = p /\ g.truncated
        BY <1>1, <2>0, <2>2, <3>1, <4>3, <4>4, <4>6, CountEffect
      <4>7. CASE q # p
        BY <1>1, <2>0, <4>3, <4>4, <4>7, CountEffect
      <4> QED
        BY <4>5, <4>6, <4>7
    <3>6. CASE ImplicitRestart(p, e, s)
      <4>1. [pubs[p] EXCEPT !.hwm = s, !.gaps = EmptyGaps] \in PubState
        BY <3>1, Zenon DEF PubState, EmptyGaps, GapSets
      <4>2. Update(p, [pubs[p] EXCEPT !.hwm = s, !.gaps = EmptyGaps]) /\ Rebase(p, s)
        BY <3>6 DEF ImplicitRestart
      <4>3. /\ pubs'[p].hwm = s /\ pubs'[p].gaps = EmptyGaps
            /\ \A r \in Publishers \ {p} : pubs'[r] = pubs[r]
        BY <3>1, <4>1, <4>2, UpdateEffect, Zenon DEF PubState
      <4>4. CASE q = p
        BY <4>2, <4>3, <4>4, RebaseExact
      <4>5. CASE q # p
        <5>1. pubs'[q] = pubs[q] /\ base'[q] = base[q] /\ taken'[q] = taken[q]
          BY <2>0, <4>2, <4>3, <4>5, RebaseEffect
        <5> QED
          BY <1>1, <5>1, OtherExact
      <4> QED
        BY <4>4, <4>5
    <3>7. CASE AcceptLateFill(p, e, s)
      <4> DEFINE g == Fill(pubs[p].gaps, s)
      <4>1. /\ g \in GapSets
            /\ ~g.truncated => ~pubs[p].gaps.truncated /\ g.missing = pubs[p].gaps.missing \ {s}
        BY <3>1, FillGaps
      <4> HIDE DEF g
      <4>2. [pubs[p] EXCEPT !.gaps = g] \in PubState
        BY <3>1, <4>1 DEF PubState
      <4>3. /\ Update(p, [pubs[p] EXCEPT !.gaps = g]) /\ Count(p, s)
            /\ s \in pubs[p].gaps.missing
        BY <3>7 DEF AcceptLateFill, Contains, g
      <4>4. /\ pubs'[p].hwm = pubs[p].hwm /\ pubs'[p].gaps = g
            /\ \A r \in Publishers \ {p} : pubs'[r] = pubs[r]
        BY <3>1, <4>2, <4>3, UpdateEffect DEF PubState
      <4>5. CASE q = p /\ ~g.truncated
        <5>1. /\ base' = base /\ taken'[p][s] = 1
              /\ \A t \in SeqSpace \ {s} : taken'[p][t] = taken[p][t]
          BY <1>1, <2>0, <2>2, <3>1, <4>1, <4>3, <4>5, CountEffect
        <5>2. \A t \in g.missing : base[p] < t /\ t < pubs[p].hwm /\ taken'[p][t] = 0
          BY <1>1, <2>2, <4>1, <4>5, <5>1 DEF GapSets
        <5>3. \A t \in SeqSpace :
                  /\ taken'[p][t] <= 1
                  /\ taken'[p][t] > 0 => base[p] <= t /\ t <= pubs[p].hwm
          BY <1>1, <2>0, <2>2, <3>1, <4>1, <4>3, <4>5, <5>1
        <5> QED
          BY <1>1, <2>2, <4>4, <4>5, <5>1, <5>2, <5>3
      <4>6. CASE q = p /\ g.truncated
        BY <1>1, <2>0, <2>2, <4>3, <4>4, <4>6, CountEffect
      <4>7. CASE q # p
        BY <1>1, <2>0, <4>3, <4>4, <4>7, CountEffect
      <4> QED
        BY <4>5, <4>6, <4>7
    <3>8. CASE DropDuplicate(p, e, s)
      BY <1>1, <2>2, <3>1, <3>8, UpdateEffect DEF DropDuplicate
    <3> QED
      BY <1>3, <2>1, <3>2, <3>3, <3>4, <3>5, <3>6, <3>7, <3>8 DEF Observe
  <2> QED
    BY <1>3, <2>1, <2>2 DEF Observe, DeclaredRestart, DropStaleEpoch, SameEpoch, Accept,
       AcceptWithGap, ImplicitRestart, AcceptLateFill, DropDuplicate
<1>4. ASSUME NEW p \in Publishers, ClearGaps(p) PROVE Exact(q)'
  <2>1. pubs[p] \in PubState /\ pubs[p] # Unknown
    BY <1>4 DEF ClearGaps, TypeOK
  <2>2. /\ pubs'[p].hwm = pubs[p].hwm /\ pubs'[p].gaps = EmptyGaps
        /\ \A r \in Publishers \ {p} : pubs'[r] = pubs[r] /\ taken'[r] = taken[r]
        /\ taken'[p] = [t \in SeqSpace |-> IF base[p] <= t /\ t <= pubs[p].hwm THEN 1 ELSE 0]
        /\ base' = base
    BY <1>4, <2>1 DEF ClearGaps, TypeOK, PubState
  <2> QED
    BY <1>1, <2>1, <2>2 DEF EmptyGaps
<1>5. CASE Reset
  BY <1>5 DEF Reset
<1>6. CASE Tick
  BY <1>1, <1>6 DEF Tick
<1>7. CASE UNCHANGED vars
  BY <1>1, <1>7 DEF vars
<1> QED
  BY <1>3, <1>4, <1>5, <1>6, <1>7, Zenon DEF Next

\* For streams that stop short of MaxSeq, the gap set of every publisher is
\* exact until the cap truncates it (no number is suspected that was accepted),
\* and no event of an incarnation is accepted twice (I5).
THEOREM GapSetExact == ASSUME MaxSeq \notin Seqs PROVE Spec => []ExactUntilTruncated
<1> DEFINE IInv == TypeOK /\ \A p \in Publishers : Exact(p)
<1>1. Init => IInv
  BY DEF Init, TypeOK, Never, SeqSpace, Exact
<1>2. IInv /\ [Next]_vars => IInv'
  BY TypeStep, ExactStep
<1>3. IInv => ExactUntilTruncated
  BY DEF Exact, ExactUntilTruncated, NoFalseGap, AcceptedOnce, Known
<1> QED
  BY <1>1, <1>2, <1>3, PTL DEF Spec
=============================================================================
