---------------------------- MODULE MemorySource ----------------------------
(***************************************************************************)
(* pkg/source/memory.go: Publish appends to a backlog under the lock and   *)
(* wakes Run, which takes the whole backlog, delivers it with a blocking   *)
(* send, and waits. Publish, Run and Close are three goroutines.           *)
(***************************************************************************)
EXTENDS Integers, Sequences

CONSTANTS
    MaxPublished,       \* bound: messages published
    Capacity,           \* MemorySource.capacity
    OutRoom             \* room in the channel to the pipeline

ASSUME MemoryAssumption == {MaxPublished, Capacity, OutRoom} \subseteq Nat \ {0}

VARIABLES
    next,       \* the number of the next message to publish
    backlog,    \* MemorySource.buf
    accepted,   \* the messages Publish said it had taken
    wakeful,    \* MemorySource.waiting: a notification is pending
    waker,      \* a Publish or Close that has let go of the lock, before it wakes Run
    memClosed,  \* MemorySource.closed
    memRun,     \* where Run is, with the batch it has taken
    out,        \* the channel to the pipeline
    taken,      \* what the pipeline has received
    cancelled   \* ctx is done

memVars == <<next, backlog, accepted, wakeful, waker, memClosed, memRun, out, taken, cancelled>>

MemInit ==
    /\ next = 1 /\ backlog = <<>> /\ accepted = <<>>
    /\ wakeful = FALSE /\ waker = 0 /\ memClosed = FALSE
    /\ memRun = [at |-> "take", batch |-> <<>>]
    /\ out = <<>> /\ taken = <<>>
    /\ cancelled = FALSE

\* Publish: refused when closed, full or too large; a message is its number.
Publish(large) ==
    /\ next <= MaxPublished
    /\ next' = next + 1
    /\ IF large \/ memClosed \/ Len(backlog) >= Capacity
       THEN UNCHANGED <<backlog, accepted, waker>>
       ELSE /\ backlog' = Append(backlog, next)
            /\ accepted' = Append(accepted, next)
            /\ waker' = waker + 1
    /\ UNCHANGED <<wakeful, memClosed, memRun, out, taken, cancelled>>

\* The non-blocking send on waiting, which one notification fills.
Wake ==
    /\ waker > 0
    /\ waker' = waker - 1
    /\ wakeful' = TRUE
    /\ UNCHANGED <<next, backlog, accepted, memClosed, memRun, out, taken, cancelled>>

Shut ==
    /\ ~memClosed
    /\ memClosed' = TRUE
    /\ waker' = waker + 1
    /\ UNCHANGED <<next, backlog, accepted, wakeful, memRun, out, taken, cancelled>>

CancelMem ==
    /\ ~cancelled
    /\ cancelled' = TRUE
    /\ UNCHANGED <<next, backlog, accepted, wakeful, waker, memClosed, memRun, out, taken>>

\* take: the whole backlog, or none.
Take ==
    /\ memRun.at = "take"
    /\ memRun' = IF backlog = <<>> THEN [at |-> "check", batch |-> <<>>]
                 ELSE [at |-> "send", batch |-> backlog]
    /\ backlog' = <<>>
    /\ UNCHANGED <<next, accepted, wakeful, waker, memClosed, out, taken, cancelled>>

\* send blocks until there is room or the context is done.
Send ==
    /\ memRun.at = "send" /\ memRun.batch # <<>>
    /\ \/ /\ Len(out) < OutRoom
          /\ out' = Append(out, Head(memRun.batch))
          /\ memRun' = [memRun EXCEPT !.batch = Tail(@)]
       \/ cancelled /\ memRun' = [memRun EXCEPT !.at = "returned"] /\ UNCHANGED out
    /\ UNCHANGED <<next, backlog, accepted, wakeful, waker, memClosed, taken, cancelled>>

\* The batch is done: look again. Nothing was there: return if closed, or wait.
Around ==
    /\ \/ /\ memRun.at = "send" /\ memRun.batch = <<>>
          /\ memRun' = [memRun EXCEPT !.at = "take"] /\ UNCHANGED wakeful
       \/ /\ memRun.at = "check"
          /\ memRun' = [memRun EXCEPT !.at = IF memClosed THEN "returned" ELSE "wait"]
          /\ UNCHANGED wakeful
       \/ /\ memRun.at = "wait" /\ wakeful
          /\ memRun' = [memRun EXCEPT !.at = "take"] /\ wakeful' = FALSE
       \/ /\ memRun.at = "wait" /\ cancelled
          /\ memRun' = [memRun EXCEPT !.at = "returned"] /\ UNCHANGED wakeful
    /\ UNCHANGED <<next, backlog, accepted, waker, memClosed, out, taken, cancelled>>

PipelineTakes ==
    /\ out # <<>>
    /\ out' = Tail(out) /\ taken' = Append(taken, Head(out))
    /\ UNCHANGED <<next, backlog, accepted, wakeful, waker, memClosed, memRun, cancelled>>

MemNext ==
    \/ \E large \in BOOLEAN : Publish(large)
    \/ Wake \/ Shut \/ CancelMem
    \/ Take \/ Send \/ Around \/ PipelineTakes

MemFairness ==
    /\ WF_memVars(Wake) /\ WF_memVars(Take) /\ WF_memVars(Send)
    /\ WF_memVars(Around) /\ WF_memVars(PipelineTakes)

MemSpec == MemInit /\ [][MemNext]_memVars /\ MemFairness

-----------------------------------------------------------------------------
\* Until the context is done, nothing Publish has accepted is lost or reordered
\* between the backlog, the batch of Run and the channel.
AcceptedInOrder == ~cancelled => accepted = taken \o out \o memRun.batch \o backlog

\* No wake-up is lost: what was accepted is delivered, unless the source is
\* stopped; one pending notification is enough (Publish).
PublishedArrives == []<>(memClosed \/ cancelled \/ taken = accepted)

\* Close "lets Run finish the backlog": a message accepted before it is delivered.
\* Does not hold: README, section 6.
BacklogFinished == []<>(cancelled \/ taken = accepted)
=============================================================================
