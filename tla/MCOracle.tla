----------------------------- MODULE MCOracle -------------------------------
(***************************************************************************)
(* The sequence tracker, the settlement index of the oracle and its trust  *)
(* states. A behaviour is one of a single component, named by part, while  *)
(* the others rest in an initial state.                                    *)
(***************************************************************************)
EXTENDS SeqTrack, Oracle, OracleTrust, TLC

\* Keys of the oracle are only compared for equality.
KeySymmetry == Permutations(Keys)

\* Gap signals come in while the applier writes and the bootstrapper adopts, and
\* the publishers' keyspaces are partitioned, so the applier marks by pattern.
WatcherCalls ==
    ({"applier"} \X {"Apply", "MarkPattern", "ClearSuspect", "ClearPattern"})
        \cup {<<"watcher", "MarkSuspect">>, <<"bootstrap", "AdoptSnapshot">>}

VARIABLE part

CoreVars ==
    <<part, vars, oracleVars, trustVars>>

CoreInit ==
    /\ part \in {"seqtrack", "oracle", "trust"}
    /\ Init /\ OracleInit /\ TrustInit
    /\ part # "oracle" => window = MaxWindow

CoreNext ==
    /\ UNCHANGED part
    /\ \/ part = "seqtrack" /\ Next
          /\ UNCHANGED <<oracleVars, trustVars>>
       \/ part = "oracle" /\ OracleNext
          /\ UNCHANGED <<vars, trustVars>>
       \/ part = "trust" /\ TrustNext
          /\ UNCHANGED <<vars, oracleVars>>

CoreSpec == CoreInit /\ [][CoreNext]_CoreVars

\* The three components keep their types, and the tracker its two limits: the
\* intervals it keeps of a publisher (maxIntervals) and the publishers it keeps
\* (maxPublishers).
OracleInBounds ==
    /\ TypeOK /\ IntervalsBounded /\ PublishersBounded
    /\ OracleTypeOK /\ TrustTypeOK
=============================================================================
