------------------------------- MODULE GapSet -------------------------------
(***************************************************************************)
(* The gap set of pkg/seqtrack/gapset.go, as its callers see it.           *)
(*                                                                         *)
(* The Go type keeps a sorted list of disjoint, non-adjacent intervals.    *)
(* Such a list is determined by the numbers it covers, so here a gap set   *)
(* records that set of numbers, and an interval is a maximal run of it.    *)
(* GapList models the list itself, and is shown to implement these         *)
(* operators.                                                              *)
(***************************************************************************)
EXTENDS Integers, FiniteSets

CONSTANTS
    MaxSeq,         \* top of the sequence space (^uint64(0) in the code)
    MaxIntervals    \* Config.MaxGapIntervals

ASSUME MaxSeqAssumption == MaxSeq \in Nat
ASSUME MaxIntervalsAssumption == MaxIntervals \in Nat \ {0}

\* The sequence numbers a uint64 can hold.
SeqSpace == 0 .. MaxSeq

GapSets == [missing : SUBSET SeqSpace, truncated : BOOLEAN]

\* NewGapSet, and what Clear leaves.
EmptyGaps == [missing |-> {}, truncated |-> FALSE]

\* Contains
Contains(g, seq) == seq \in g.missing

\* One interval per maximal run, named by the last number of the run.
IntervalCount(missing) == Cardinality({s \in missing : s + 1 \notin missing})

\* The holes between consecutive runs, as <<end of one, start of the next>>.
Holes(missing) ==
    {h \in missing \X missing :
        /\ h[1] + 1 < h[2]
        /\ \A s \in SeqSpace : h[1] < s /\ s < h[2] => s \notin missing}

\* The narrowest hole, the lowest one among equals.
NarrowestHole(missing) ==
    CHOOSE h \in Holes(missing) :
        \A k \in Holes(missing) :
            \/ h[2] - h[1] < k[2] - k[1]
            \/ h[2] - h[1] = k[2] - k[1] /\ h[1] <= k[1]

\* Mutant: past the cap the interval above the narrowest hole is dropped.
EnforceCapDrops(g) ==
    IF IntervalCount(g.missing) <= MaxIntervals
    THEN g
    ELSE LET h == NarrowestHole(g.missing)
         IN  [missing |-> {s \in g.missing : s <= h[1]}, truncated |-> TRUE]

\* enforceCap. Add and Fill lengthen the list by at most one interval, so its
\* loop runs at most once: IntervalsBounded of SeqTrack and GapList.
EnforceCap(g) ==
    IF IntervalCount(g.missing) <= MaxIntervals
    THEN g
    ELSE LET h == NarrowestHole(g.missing)
         IN  [missing   |-> g.missing \cup {s \in SeqSpace : h[1] < s /\ s < h[2]},
              truncated |-> TRUE]

Add(g, from, to) ==
    EnforceCap([g EXCEPT !.missing = @ \cup {s \in SeqSpace : from <= s /\ s <= to}])

\* Mutant: the cap is forgotten when filling splits an interval.
FillUncapped(g, seq) == [g EXCEPT !.missing = @ \ {seq}]

Fill(g, seq) == EnforceCap([g EXCEPT !.missing = @ \ {seq}])
=============================================================================
