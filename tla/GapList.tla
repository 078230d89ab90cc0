------------------------------ MODULE GapList -------------------------------
(***************************************************************************)
(* The interval list of pkg/seqtrack/gapset.go, statement by statement:    *)
(* the binary searches, the splices and the cap. Its specification is      *)
(* AbstractGaps; the refinement mapping forgets how the numbers are cut    *)
(* into intervals.                                                         *)
(***************************************************************************)
EXTENDS GapSet, Sequences, Functions

VARIABLES
    intervals,  \* g.intervals
    truncated   \* g.truncated

listVars == <<intervals, truncated>>

Interval == [from : SeqSpace, to : SeqSpace]

\* sort.Search: the index of the first interval that ends at seq or later, one
\* past the end when none does.
Search(list, seq) ==
    CHOOSE i \in 1 .. Len(list) + 1 :
        /\ i <= Len(list) => list[i].to >= seq
        /\ \A j \in 1 .. i - 1 : list[j].to < seq

\* list[:lo] + mid + list[hi:], in Go's half-open indices shifted by one.
Splice(list, lo, hi, mid) ==
    SubSeq(list, 1, lo - 1) \o mid \o SubSeq(list, hi, Len(list))

\* Mutant: the narrowest pair is merged by dropping its upper interval.
CapDrops(list) ==
    IF Len(list) <= MaxIntervals
    THEN list
    ELSE LET hole(i) == list[i + 1].from - list[i].to
             best == CHOOSE i \in 1 .. Len(list) - 1 :
                        /\ \A j \in 1 .. Len(list) - 1 : hole(i) <= hole(j)
                        /\ \A j \in 1 .. i - 1 : hole(i) < hole(j)
         IN  Splice(list, best + 1, best + 2, <<>>)

\* enforceCap: the first pair with the smallest hole becomes one interval. A
\* list is at most one interval too long when enforceCap is called.
Cap(list) ==
    IF Len(list) <= MaxIntervals
    THEN list
    ELSE LET hole(i) == list[i + 1].from - list[i].to
             best == CHOOSE i \in 1 .. Len(list) - 1 :
                        /\ \A j \in 1 .. Len(list) - 1 : hole(i) <= hole(j)
                        /\ \A j \in 1 .. i - 1 : hole(i) < hole(j)
         IN  Splice(list, best, best + 2,
                    <<[from |-> list[best].from, to |-> list[best + 1].to]>>)

\* Mutant: adjacent intervals are not absorbed.
AbsorbedOverlap(list, from, to) ==
    LET lo == Search(list, from)
    IN  <<lo, CHOOSE h \in lo .. Len(list) + 1 :
                /\ \A j \in lo .. h - 1 : to = MaxSeq \/ list[j].from <= to
                /\ h <= Len(list) => to # MaxSeq /\ list[h].from > to>>

\* The half-open range [lo, hi) of the intervals that touch or abut [from, to].
Absorbed(list, from, to) ==
    LET lo == Search(list, IF from = 0 THEN from ELSE from - 1)
    IN  <<lo, CHOOSE h \in lo .. Len(list) + 1 :
                /\ \A j \in lo .. h - 1 : to = MaxSeq \/ list[j].from <= to + 1
                /\ h <= Len(list) => to # MaxSeq /\ list[h].from > to + 1>>

\* Add: absorb, then put the merged interval in the place of what it absorbed.
ListAdd(list, from, to) ==
    LET range  == Absorbed(list, from, to)
        lo     == range[1]
        hi     == range[2]
        merged == IF lo < hi
                  THEN [from |-> IF list[lo].from < from THEN list[lo].from ELSE from,
                        to   |-> IF list[hi - 1].to > to THEN list[hi - 1].to ELSE to]
                  ELSE [from |-> from, to |-> to]
    IN  Splice(list, lo, hi, <<merged>>)

\* find: the index of the interval holding seq, 0 when there is none.
Find(list, seq) ==
    LET i == Search(list, seq)
    IN  IF i <= Len(list) /\ list[i].from <= seq THEN i ELSE 0

\* The switch of Fill: what takes the place of the interval that held seq.
Rest(in, seq) ==
    LET below == [from |-> in.from, to |-> seq - 1]
        above == [from |-> seq + 1, to |-> in.to]
    IN  CASE in.from = in.to                  -> <<>>
          [] in.from < in.to /\ seq = in.from -> <<above>>
          [] in.from < in.to /\ seq = in.to   -> <<below>>
          [] in.from < seq /\ seq < in.to     -> <<below, above>>

\* Fill removes, shrinks or splits.
ListFill(list, i, seq) == Splice(list, i, i + 1, Rest(list[i], seq))

ListInit == intervals = <<>> /\ truncated = FALSE

AddInterval(from, to) ==
    LET list == ListAdd(intervals, from, to)
    IN  /\ intervals' = Cap(list)
        /\ truncated' = (truncated \/ Len(list) > MaxIntervals)

FillSeq(seq) ==
    LET i == Find(intervals, seq)
        list == ListFill(intervals, i, seq)
    IN  /\ i # 0
        /\ intervals' = Cap(list)
        /\ truncated' = (truncated \/ Len(list) > MaxIntervals)

Clear == intervals' = <<>> /\ truncated' = FALSE

ListNext ==
    \/ \E from, to \in SeqSpace : from <= to /\ AddInterval(from, to)
    \/ \E seq \in SeqSpace : FillSeq(seq)
    \/ Clear

ListSpec == ListInit /\ [][ListNext]_listVars

-----------------------------------------------------------------------------
\* The fields keep their types, and no list is longer than the cap (invariant
\* I9 of docs/CORRECTNESS.md), also when Fill splits an interval.
ListBounded ==
    /\ Range(intervals) \subseteq Interval
    /\ Len(intervals) <= MaxIntervals
    /\ truncated \in BOOLEAN

\* "Sorted by From, non-overlapping and non-adjacent": what the binary searches
\* of Add and find rely on, and what the merges and splits of one call could
\* break for the next.
Normalized ==
    /\ \A i \in DOMAIN intervals : intervals[i].from <= intervals[i].to
    /\ \A i \in 1 .. Len(intervals) - 1 : intervals[i].to + 1 < intervals[i + 1].from

\* The numbers the list covers.
Covered == UNION {in.from .. in.to : in \in Range(intervals)}

Abstract == INSTANCE AbstractGaps WITH gaps <- [missing |-> Covered, truncated |-> truncated]

\* Every call on the list has, on the numbers it covers, exactly the effect of
\* the set operators that the sequence tracker is specified with.
ImplementsGapSet == Abstract!Spec

\* The list of intervals is in its canonical form and within its cap.
ListIsSound == ListBounded /\ Normalized
=============================================================================
