----------------------------- MODULE MCControl ------------------------------
(***************************************************************************)
(* The admission of manifests, the registry of runners, and the sweep loop *)
(* of one runner under fairness. A behaviour is one of a single component, *)
(* named by part, while the others rest in an initial state.               *)
(***************************************************************************)
EXTENDS MCSweeper, Registry, Admission

VARIABLE part

ControlVars ==
    <<part, vars, regVars, admVars>>

ControlInit ==
    /\ part \in {"sweeper", "registry", "admission"}
    /\ Init /\ RegInit /\ AdmInit

ControlNext ==
    /\ UNCHANGED part
    /\ \/ part = "sweeper" /\ Next
          /\ UNCHANGED <<regVars, admVars>>
       \/ part = "registry" /\ RegNext
          /\ UNCHANGED <<vars, admVars>>
       \/ part = "admission" /\ AdmNext
          /\ UNCHANGED <<vars, regVars>>

ControlFairness ==
    \/ part = "sweeper" /\ Fairness
    \/ part = "registry" /\ RegFairness
    \/ part = "admission" /\ AdmFairness

ControlSpec == ControlInit /\ [][ControlNext]_ControlVars /\ ControlFairness

\* LatestSpecServed, of the behaviours of the registry: a check that is left
\* alone ends up running at its latest spec.
LatestIsServed == part = "registry" => LatestSpecServed

\* The controller gets there: the latest spec of a check runs, a stored manifest
\* runs in the end, a deleted check is released, and a pause costs no oracle.
StoredIsServed == LatestIsServed /\ DeletionCompletes /\ StoredRuns /\ PauseKeepsOracle
=============================================================================
