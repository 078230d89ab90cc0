----------------------------- MODULE MCValues -------------------------------
(***************************************************************************)
(* The parts that hand values on: the projections, the batch read,         *)
(* adoption, the comparison, the published episodes, the scan of the       *)
(* store, the list of gaps, the reorder buffer, and the fake clock that    *)
(* their tests run on. A behaviour is one of a single component, named by  *)
(* part, while the others rest in an initial state.                        *)
(***************************************************************************)
EXTENDS Projection, Adopt, Differ, Episodes, Clock, GapList, ReorderBuffer, MCScan

CONSTANTS a, b, c

\* Lists with an empty field, a repeated one, and one more than the cap.
MCFields == {<<a>>, <<a, Empty, b>>, <<a, a, b>>, <<a, b, a>>, <<a, b, c>>, <<Empty>>}

MCDeltas == {-3, -1, 1, 2}

\* A batch of two keys, one of which goes on changing.
MCBatch == <<"k", "l">>

MCMax == [k |-> 3, l |-> 1]

VARIABLE part

ValueVars ==
    <<part, foldVars, adoptVars, differVars, episodeVars, clockVars, listVars, reorderVars, scanVars>>

ValueInit ==
    /\ part \in {"fold", "adopt", "differ", "episodes", "clock", "gaps", "reorder", "scan"}
    /\ FoldInit /\ AdoptInit /\ DifferInit /\ EpisodeInit /\ ClockInit /\ ListInit /\ ReorderInit /\ ScanInit
    /\ part # "fold" => proj = "scalar"
    /\ part # "adopt" => shape = "set"
    /\ part # "differ" => policy = "strict"
    /\ part # "scan" => present = {}

ValueNext ==
    /\ UNCHANGED part
    /\ \/ part = "fold" /\ FoldNext
          /\ UNCHANGED <<adoptVars, differVars, episodeVars, clockVars, listVars, reorderVars, scanVars>>
       \/ part = "adopt" /\ AdoptNext
          /\ UNCHANGED <<foldVars, differVars, episodeVars, clockVars, listVars, reorderVars, scanVars>>
       \/ part = "differ" /\ DifferNext
          /\ UNCHANGED <<foldVars, adoptVars, episodeVars, clockVars, listVars, reorderVars, scanVars>>
       \/ part = "episodes" /\ EpisodeNext
          /\ UNCHANGED <<foldVars, adoptVars, differVars, clockVars, listVars, reorderVars, scanVars>>
       \/ part = "clock" /\ ClockNext
          /\ UNCHANGED <<foldVars, adoptVars, differVars, episodeVars, listVars, reorderVars, scanVars>>
       \/ part = "gaps" /\ ListNext
          /\ UNCHANGED <<foldVars, adoptVars, differVars, episodeVars, clockVars, reorderVars, scanVars>>
       \/ part = "reorder" /\ ReorderNext
          /\ UNCHANGED <<foldVars, adoptVars, differVars, episodeVars, clockVars, listVars, scanVars>>
       \/ part = "scan" /\ ScanNext
          /\ UNCHANGED <<foldVars, adoptVars, differVars, episodeVars, clockVars, listVars, reorderVars>>

ValueFairness ==
    \/ part = "reorder" /\ ReorderFairness
    \/ part = "scan" /\ ScanFairness
    \/ part \in {"fold", "adopt", "differ", "episodes", "clock", "gaps"}

ValueSpec == ValueInit /\ [][ValueNext]_ValueVars /\ ValueFairness

\* ScanEnds, of the behaviours of the scan: the iterator of redis.go comes to
\* an end.
ScanFinishes == part = "scan" => ScanEnds

\* A scan without an error has seen every key that was there throughout, one that
\* goes round in circles is noticed, and each comes to an end.
ScanIsComplete == [](StableKeysSeen /\ LoopIsNoticed) /\ ScanFinishes
=============================================================================
