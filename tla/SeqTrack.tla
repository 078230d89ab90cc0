------------------------------ MODULE SeqTrack ------------------------------
(***************************************************************************)
(* pkg/seqtrack/seqtrack.go: the sequence tracker. Observe classifies each *)
(* event against its publisher's high-water mark and gap set; it is the    *)
(* one place where driftwatch learns that it has missed something.         *)
(*                                                                         *)
(* The stream is arbitrary: any publisher may send any epoch and sequence  *)
(* number at any time, so losses, duplicates, reorderings and restarts are *)
(* all among the behaviours. The counters that only feed the status page   *)
(* (EventCount, RestartCount, Incarnation, FirstSeen) are left out.        *)
(***************************************************************************)
EXTENDS GapSet

CONSTANTS
    Publishers,     \* publisher IDs; numbers, so that they have an order
    Epochs,         \* the epochs publishers declare
    Seqs,           \* the sequence numbers publishers send
    MaxPublishers,  \* Config.MaxPublishers
    Delta,          \* Config.ImplicitRestartDelta
    Ceiling,        \* Config.ImplicitRestartCeiling
    MaxTime,        \* bound: the last instant of the clock
    Unknown         \* a publisher the map has no entry for

ASSUME PublishersAssumption == Publishers \subseteq Nat
ASSUME EpochsAssumption == Epochs \subseteq Nat
ASSUME SeqsAssumption == Seqs \subseteq SeqSpace
ASSUME LimitsAssumption == /\ MaxPublishers \in Nat \ {0}
                           /\ Delta \in Nat /\ Ceiling \in Nat
                           /\ MaxTime \in Nat

PubState == [epoch : Epochs, hwm : SeqSpace, gaps : GapSets, lastSeen : Nat]

ASSUME UnknownAssumption == Unknown \notin PubState

VARIABLES
    pubs,   \* Tracker.pubs
    now,    \* the injected clock
    base,   \* history: the sequence the current incarnation was adopted at
    taken   \* history: how often each of its numbers was accepted (0, 1, many)

vars == <<pubs, now, base, taken>>

Known == {p \in Publishers : pubs[p] # Unknown}

Never == [s \in SeqSpace |-> 0]

Init ==
    /\ pubs = [p \in Publishers |-> Unknown]
    /\ now = 0
    /\ base = [p \in Publishers |-> 0]
    /\ taken = [p \in Publishers |-> Never]

\* The clock moves between calls; several calls may read the same instant.
Tick == now < MaxTime /\ now' = now + 1 /\ UNCHANGED <<pubs, base, taken>>

\* st.HWM + 1 in uint64 arithmetic.
Succ(hwm) == IF hwm = MaxSeq THEN 0 ELSE hwm + 1

\* What a later event of the same incarnation adds to the history.
Count(p, s) ==
    /\ taken' = [taken EXCEPT ![p][s] = IF @ = 0 THEN 1 ELSE 2]
    /\ UNCHANGED base

\* The event is a new baseline: what came before it is not accounted for.
Rebase(p, s) ==
    /\ base' = [base EXCEPT ![p] = s]
    /\ taken' = [taken EXCEPT ![p] = [Never EXCEPT ![s] = 1]]

\* evictOldestLocked picks the least recently seen publisher, by ID among equals.
Oldest ==
    CHOOSE p \in Known :
        \A q \in Known :
            \/ pubs[p].lastSeen < pubs[q].lastSeen
            \/ pubs[p].lastSeen = pubs[q].lastSeen /\ p <= q

Evicted == IF Cardinality(Known) >= MaxPublishers THEN {Oldest} ELSE {}

Fresh(e, s) == [epoch |-> e, hwm |-> s, gaps |-> EmptyGaps, lastSeen |-> now]

\* AcceptFirstSeen: admitLocked adopts the sequence as a baseline.
AcceptFirstSeen(p, e, s) ==
    /\ pubs[p] = Unknown
    /\ pubs' = [q \in Publishers |->
                  IF q = p THEN Fresh(e, s)
                  ELSE IF q \in Evicted THEN Unknown ELSE pubs[q]]
    /\ Rebase(p, s)
    /\ UNCHANGED now

\* The publisher is known, and its entry becomes st with LastSeen refreshed.
Update(p, st) ==
    /\ pubs' = [pubs EXCEPT ![p] = [st EXCEPT !.lastSeen = now]]
    /\ UNCHANGED now

\* AcceptAfterRestart for a declared epoch.
DeclaredRestart(p, e, s) ==
    /\ pubs[p] # Unknown
    /\ e > pubs[p].epoch
    /\ Update(p, [pubs[p] EXCEPT !.epoch = e, !.hwm = s, !.gaps = EmptyGaps])
    /\ Rebase(p, s)

DropStaleEpoch(p, e, s) ==
    /\ pubs[p] # Unknown
    /\ e < pubs[p].epoch
    /\ Update(p, pubs[p])
    /\ UNCHANGED <<base, taken>>

SameEpoch(p, e) == pubs[p] # Unknown /\ e = pubs[p].epoch

InOrder(p, s) == pubs[p].hwm # MaxSeq /\ s = Succ(pubs[p].hwm)

SkipsAhead(p, s) == ~InOrder(p, s) /\ s > Succ(pubs[p].hwm)

Behind(p, s) == ~InOrder(p, s) /\ ~SkipsAhead(p, s)

Accept(p, e, s) ==
    /\ SameEpoch(p, e)
    /\ InOrder(p, s)
    /\ Update(p, [pubs[p] EXCEPT !.hwm = s])
    /\ Count(p, s)

AcceptWithGap(p, e, s) ==
    /\ SameEpoch(p, e)
    /\ SkipsAhead(p, s)
    /\ Update(p, [pubs[p] EXCEPT !.hwm = s, !.gaps = Add(@, Succ(pubs[p].hwm), s - 1)])
    /\ Count(p, s)

\* isImplicitRestart
LooksRestarted(p, s) ==
    /\ pubs[p].hwm > s
    /\ pubs[p].hwm - s > Delta
    /\ s < Ceiling

\* AcceptAfterRestart when nothing was declared.
ImplicitRestart(p, e, s) ==
    /\ SameEpoch(p, e)
    /\ Behind(p, s)
    /\ LooksRestarted(p, s)
    /\ Update(p, [pubs[p] EXCEPT !.hwm = s, !.gaps = EmptyGaps])
    /\ Rebase(p, s)

\* Mutant: an event that fills a gap is accepted and the gap is left open.
AcceptLateFillKeeps(p, e, s) ==
    /\ SameEpoch(p, e)
    /\ Behind(p, s)
    /\ ~LooksRestarted(p, s)
    /\ Contains(pubs[p].gaps, s)
    /\ Update(p, pubs[p])
    /\ Count(p, s)

AcceptLateFill(p, e, s) ==
    /\ SameEpoch(p, e)
    /\ Behind(p, s)
    /\ ~LooksRestarted(p, s)
    /\ Contains(pubs[p].gaps, s)
    /\ Update(p, [pubs[p] EXCEPT !.gaps = Fill(@, s)])
    /\ Count(p, s)

DropDuplicate(p, e, s) ==
    /\ SameEpoch(p, e)
    /\ Behind(p, s)
    /\ ~LooksRestarted(p, s)
    /\ ~Contains(pubs[p].gaps, s)
    /\ Update(p, pubs[p])
    /\ UNCHANGED <<base, taken>>

\* Observe: exactly one of these is enabled for any event.
Observe(p, e, s) ==
    \/ AcceptFirstSeen(p, e, s)
    \/ DeclaredRestart(p, e, s)
    \/ DropStaleEpoch(p, e, s)
    \/ Accept(p, e, s)
    \/ AcceptWithGap(p, e, s)
    \/ ImplicitRestart(p, e, s)
    \/ AcceptLateFill(p, e, s)
    \/ DropDuplicate(p, e, s)

\* ClearGaps, on snapshot completion: every number up to the high-water mark
\* is accounted for by the snapshot.
ClearGaps(p) ==
    /\ pubs[p] # Unknown
    /\ pubs' = [pubs EXCEPT ![p].gaps = EmptyGaps]
    /\ taken' = [taken EXCEPT ![p] =
                   [s \in SeqSpace |-> IF base[p] <= s /\ s <= pubs[p].hwm THEN 1 ELSE 0]]
    /\ UNCHANGED <<now, base>>

\* Reset drops the whole map.
Reset ==
    /\ pubs' = [p \in Publishers |-> Unknown]
    /\ base' = [p \in Publishers |-> 0]
    /\ taken' = [p \in Publishers |-> Never]
    /\ UNCHANGED now

Next ==
    \/ \E p \in Publishers, e \in Epochs, s \in Seqs : Observe(p, e, s)
    \/ \E p \in Publishers : ClearGaps(p)
    \/ Reset
    \/ Tick

Spec == Init /\ [][Next]_vars

\* Tracker.Trust: FALSE for Suspect.
Complete(p) ==
    pubs[p] = Unknown \/ (pubs[p].gaps.missing = {} /\ ~pubs[p].gaps.truncated)

-----------------------------------------------------------------------------
\* Fields keep their types.
TypeOK ==
    /\ pubs \in [Publishers -> PubState \cup {Unknown}]
    /\ now \in Nat
    /\ base \in [Publishers -> SeqSpace]
    /\ taken \in [Publishers -> [SeqSpace -> 0 .. 2]]

\* Invariant I4 of docs/CORRECTNESS.md: a number between the baseline and the
\* high-water mark that was never accepted is in the gap set, and so the
\* publisher is suspect - through coalescing, splits, fills and the cap.
NoGapMissed ==
    \A p \in Known : \A s \in base[p] .. pubs[p].hwm :
        taken[p][s] = 0 => Contains(pubs[p].gaps, s)

\* Until the cap truncates it, the gap set holds nothing else: a number that
\* was accepted is not expected again, and none outside the observed range is.
\* Otherwise keys stay suspect for events that were never lost.
NoFalseGap ==
    \A p \in Known : ~pubs[p].gaps.truncated =>
        \A s \in pubs[p].gaps.missing :
            base[p] < s /\ s < pubs[p].hwm /\ taken[p][s] = 0

\* Invariant I5 (and I1): while the gap set is exact no event of an incarnation
\* is accepted twice, in whatever order duplicates and late fills arrive.
AcceptedOnce ==
    \A p \in Known : ~pubs[p].gaps.truncated =>
        \A s \in SeqSpace : taken[p][s] <= 1

\* Invariant I9: no gap set has more intervals than the cap, also when a late
\* event splits one.
IntervalsBounded ==
    \A p \in Known : IntervalCount(pubs[p].gaps.missing) <= MaxIntervals

\* The publisher map stays within MaxPublishers, whoever comes and goes.
PublishersBounded == Cardinality(Known) <= MaxPublishers

\* As long as the cap has cost nothing, the tracker is exact: it holds no gap for
\* a number that arrived, and accepts none twice.
ExactUntilTruncated == NoFalseGap /\ AcceptedOnce
=============================================================================
