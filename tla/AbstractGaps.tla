---------------------------- MODULE AbstractGaps ----------------------------
(***************************************************************************)
(* What a gap set promises its callers: Add and Fill change the set of     *)
(* missing numbers as the operators of GapSet say, whatever list of        *)
(* intervals stores it.                                                    *)
(***************************************************************************)
EXTENDS GapSet

VARIABLE gaps

Init == gaps = EmptyGaps

AddGap(from, to) == gaps' = Add(gaps, from, to)

FillGap(seq) == Contains(gaps, seq) /\ gaps' = Fill(gaps, seq)

ClearGaps == gaps' = EmptyGaps

Next ==
    \/ \E from, to \in SeqSpace : from <= to /\ AddGap(from, to)
    \/ \E seq \in SeqSpace : FillGap(seq)
    \/ ClearGaps

Spec == Init /\ [][Next]_gaps
=============================================================================
