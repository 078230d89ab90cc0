------------------------------ MODULE MCSigns -------------------------------
(***************************************************************************)
(* The lag estimator, with one probe slot for a key that changes while it  *)
(* is measured and one that does not, and the reports of the controller.   *)
(* The unit of time of the estimator is the base poll interval. A          *)
(* behaviour is one of a single component, named by part, while the others *)
(* rest in an initial state.                                               *)
(***************************************************************************)
EXTENDS Lag, Reporting

VARIABLE part

SignsVars ==
    <<part, lagVars, reportVars>>

SignsInit ==
    /\ part \in {"lag", "reporting"}
    /\ LagInit /\ ReportInit
    /\ part # "reporting" => moving = "source"

SignsNext ==
    /\ UNCHANGED part
    /\ \/ part = "lag" /\ LagNext
          /\ UNCHANGED <<reportVars>>
       \/ part = "reporting" /\ ReportNext
          /\ UNCHANGED <<lagVars>>

SignsFairness ==
    \/ part = "lag" /\ LagFairness
    \/ part = "reporting" /\ ReportFairness

SignsSpec == SignsInit /\ [][SignsNext]_SignsVars /\ SignsFairness
=============================================================================
