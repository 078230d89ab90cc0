------------------------------ MODULE MCFeeds -------------------------------
(***************************************************************************)
(* The NATS, memory and file sources and the extras scan side by side. A   *)
(* behaviour is one of a single component, named by part, while the others *)
(* rest in an initial state.                                               *)
(***************************************************************************)
EXTENDS NatsSource, MemorySource, FileSource, Extras

VARIABLE part

FeedVars ==
    <<part, natsVars, memVars, fileVars, extrasVars>>

FeedInit ==
    /\ part \in {"nats", "memory", "file", "extras"}
    /\ NatsInit /\ MemInit /\ FileInit /\ ExtrasInit
    /\ part # "file" => file = <<>> /\ ~loop

FeedNext ==
    /\ UNCHANGED part
    /\ \/ part = "nats" /\ NatsNext
          /\ UNCHANGED <<memVars, fileVars, extrasVars>>
       \/ part = "memory" /\ MemNext
          /\ UNCHANGED <<natsVars, fileVars, extrasVars>>
       \/ part = "file" /\ FileNext
          /\ UNCHANGED <<natsVars, memVars, extrasVars>>
       \/ part = "extras" /\ ExtrasNext
          /\ UNCHANGED <<natsVars, memVars, fileVars>>

FeedFairness ==
    \/ part = "nats" /\ NatsFairness
    \/ part = "memory" /\ MemFairness
    \/ part = "file" /\ FileFairness
    \/ part = "extras" /\ ExtrasFairness

FeedSpec == FeedInit /\ [][FeedNext]_FeedVars /\ FeedFairness

\* No source loses anything in silence: NATS reports what its client dropped, the
\* memory source keeps order, and the file source is whole or returns an error.
FeedsAreFaithful == DropsReported /\ AcceptedInOrder /\ WholeOrError

\* The sources get there: a NATS loss is marked, a stopped NATS source returns, and
\* what is published to the memory source arrives.
FeedsAreLive == NatsLossMarked /\ NatsStops /\ PublishedArrives
=============================================================================
