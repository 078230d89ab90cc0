----------------------------- MODULE NatsSource -----------------------------
(***************************************************************************)
(* pkg/source/nats.go: core NATS. The client library reconnects by itself  *)
(* and buffers for a slow consumer; what it throws away it only counts.    *)
(* The source's loop forwards a message and then asks for that count. The  *)
(* library's callbacks run on a goroutine of their own.                    *)
(***************************************************************************)
EXTENDS Integers, Sequences

CONSTANTS
    ClientBuffer,       \* messages the client keeps for the loop
    NatsRaw,            \* room in the channel to the pipeline
    NatsGaps,           \* room in the gap channel
    MaxClientDrops      \* bound: messages the client throws away

ASSUME NatsAssumption ==
    {ClientBuffer, NatsRaw, NatsGaps, MaxClientDrops} \subseteq Nat \ {0}

VARIABLES
    natsRun,    \* where Run is
    link,       \* the client's connection: none, up or down
    msgs,       \* the channel the client writes to: sizes of the messages in it
    dropped,    \* what the client threw away so far
    saidDrops,  \* reportedDrops
    natsStop,   \* closed, cancelled
    natsUp,     \* Stats.Connected
    waiting,    \* messages and signals the pipeline has not read
    signals,
    unsaid      \* losses since the pipeline last read a signal, by where they happened

natsPipe == <<waiting, signals, unsaid>>
natsVars == <<natsRun, link, msgs, dropped, saidDrops, natsStop, natsUp, natsPipe>>

NatsInit ==
    /\ natsRun = "connect" /\ link = "none" /\ msgs = <<>>
    /\ dropped = 0 /\ saidDrops = 0
    /\ natsStop = {} /\ natsUp = FALSE
    /\ waiting = 0 /\ signals = 0 /\ unsaid = {}

\* gapChannel.signal
SignalOne(n) == IF n < NatsGaps THEN n + 1 ELSE n

\* connect and the subscriptions. A failure is final for this Run.
NatsConnect ==
    /\ natsRun = "connect"
    /\ \/ natsRun' = "deliver" /\ link' = "up" /\ natsUp' = TRUE
       \/ natsRun' = "returned" /\ UNCHANGED <<link, natsUp>>
    /\ UNCHANGED <<msgs, dropped, saidDrops, natsStop, natsPipe>>

-----------------------------------------------------------------------------
(* The client library.                                                     *)

\* A message is published. The client buffers it, throws it away, or is not there.
Published(size) ==
    /\ link # "none"
    /\ CASE link = "down" -> unsaid' = unsaid \cup {"missed"} /\ UNCHANGED <<msgs, dropped>>
         [] link = "up" /\ Len(msgs) < ClientBuffer ->
                msgs' = Append(msgs, size) /\ UNCHANGED <<dropped, unsaid>>
         [] OTHER -> /\ dropped < MaxClientDrops
                     /\ dropped' = dropped + 1
                     /\ unsaid' = unsaid \cup {"dropped"} /\ UNCHANGED msgs
    /\ UNCHANGED <<natsRun, link, saidDrops, natsStop, natsUp, waiting, signals>>

\* DisconnectErrHandler
Disconnects ==
    /\ link = "up"
    /\ link' = "down" /\ natsUp' = FALSE
    /\ UNCHANGED <<natsRun, msgs, dropped, saidDrops, natsStop, natsPipe>>

\* Mutant: the handler of the reconnect only sets the counters.
AfterReconnectQuiet == signals

\* The signal ReconnectHandler raises once the connection is back.
AfterReconnect == SignalOne(signals)

\* ReconnectHandler
ReconnectsSelf ==
    /\ link = "down"
    /\ link' = "up" /\ natsUp' = TRUE
    /\ signals' = AfterReconnect
    /\ UNCHANGED <<natsRun, msgs, dropped, saidDrops, natsStop, waiting, unsaid>>

-----------------------------------------------------------------------------
(* The loop of deliver.                                                    *)

\* Mutant: the loss is noted and the signal forgotten.
AfterAskingQuiet(n) == n

\* droppedCount is above reportedDrops: a signal more.
AfterAsking(n) == IF dropped > saidDrops THEN SignalOne(n) ELSE n

\* deliver: forward one message, then ask the client what it dropped.
Forward ==
    /\ natsRun = "deliver" /\ msgs # <<>>
    /\ msgs' = Tail(msgs)
    /\ IF "closed" \in natsStop
       THEN natsRun' = "returned" /\ link' = "none" /\ natsUp' = FALSE
            /\ UNCHANGED <<saidDrops, natsPipe>>
       ELSE /\ LET fits == Head(msgs) = "small" /\ waiting < NatsRaw
                   said == IF fits THEN signals ELSE SignalOne(signals)
               IN  /\ waiting' = IF fits THEN waiting + 1 ELSE waiting
                   /\ signals' = AfterAsking(said)
                   /\ unsaid' = IF fits THEN unsaid ELSE unsaid \cup {"refused"}
            /\ saidDrops' = dropped
            /\ UNCHANGED <<natsRun, link, natsUp>>
    /\ UNCHANGED <<dropped, natsStop>>

\* ctx.Done, and the deferred calls.
NatsCancelled ==
    /\ natsRun = "deliver" /\ "cancelled" \in natsStop
    /\ natsRun' = "returned" /\ link' = "none" /\ natsUp' = FALSE
    /\ UNCHANGED <<msgs, dropped, saidDrops, natsStop, natsPipe>>

NatsCancel ==
    /\ natsStop' = natsStop \cup {"cancelled"}
    /\ UNCHANGED <<natsRun, link, msgs, dropped, saidDrops, natsUp, natsPipe>>

\* Close: the connection is closed; the channel of the loop stays open.
NatsClose ==
    /\ natsStop' = natsStop \cup {"closed"}
    /\ link' = "none" /\ natsUp' = FALSE
    /\ UNCHANGED <<natsRun, msgs, dropped, saidDrops, natsPipe>>

-----------------------------------------------------------------------------
(* The pipeline.                                                           *)

NatsTake ==
    /\ waiting > 0
    /\ waiting' = waiting - 1
    /\ UNCHANGED <<natsRun, link, msgs, dropped, saidDrops, natsStop, natsUp, signals, unsaid>>

\* watchGaps: a mark covers every loss so far.
NatsMark ==
    /\ signals > 0
    /\ signals' = signals - 1 /\ unsaid' = {}
    /\ UNCHANGED <<natsRun, link, msgs, dropped, saidDrops, natsStop, natsUp, waiting>>

NatsNext ==
    \/ NatsConnect \/ Disconnects \/ ReconnectsSelf
    \/ \E size \in {"small", "big"} : Published(size)
    \/ Forward \/ NatsCancelled \/ NatsCancel \/ NatsClose
    \/ NatsTake \/ NatsMark

\* The loop, the client and the pipeline run. Connecting may fail.
NatsFairness ==
    /\ WF_natsVars(NatsConnect) /\ WF_natsVars(ReconnectsSelf)
    /\ WF_natsVars(Forward) /\ SF_natsVars(NatsCancelled)
    /\ WF_natsVars(NatsTake) /\ WF_natsVars(NatsMark)

NatsSpec == NatsInit /\ [][NatsNext]_natsVars /\ NatsFairness

-----------------------------------------------------------------------------
\* A message the source refused, or that was published while the client was
\* away, is followed by a mark: the signal of a reconnection comes when the
\* connection is back, after all that was missed (dial).
NatsLossMarked ==
    /\ "refused" \in unsaid ~> "refused" \notin unsaid
    /\ "missed" \in unsaid ~> ("missed" \notin unsaid \/ natsStop # {})

\* What the client threw away is covered by an unread signal, or will be when the
\* next message is forwarded, the only time the client is asked (deliver).
DropsReported == "dropped" \in unsaid => dropped > saidDrops \/ signals > 0

\* Run returns when the context is cancelled, whatever the client does.
NatsStops == "cancelled" \in natsStop ~> natsRun = "returned"
=============================================================================
