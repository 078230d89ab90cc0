----------------------------- MODULE ZmqSource ------------------------------
(***************************************************************************)
(* pkg/source/zmq.go: a SUB socket kept connected. Run opens one session   *)
(* after another; a session dials every endpoint, and a goroutine of its   *)
(* own sits in the blocking Recv and passes frames to the loop in receive. *)
(* A peer may vanish without an error, so the loop has an idle deadline.   *)
(* Frames that do not fit are dropped, and the loss is signalled on the    *)
(* gap channel of source.go, which the pipeline reads (watchGaps).         *)
(*                                                                         *)
(* A frame is good, junk (splitFrames refuses it) or big (over the cap).   *)
(***************************************************************************)
EXTENDS Integers, FiniteSets, Sequences

CONSTANTS
    Endpoints,
    IdleTimeout,        \* in units of the time that Elapses counts
    RawBuffer,          \* room in the channel to the pipeline
    GapBuffer,          \* room in the gap channel (16)
    MaxOrphans          \* bound: receivers that outlive their session

ASSUME ZmqAssumption == {IdleTimeout, RawBuffer, GapBuffer} \subseteq Nat \ {0}

VARIABLES
    up,         \* endpoints that listen
    moved,      \* endpoints that came back under another address
    linked,     \* endpoints the socket has a working connection to
    run,        \* where Run is, and how its session ended
    sock,       \* the session's socket: is it open, and is it in z.sock?
    receiver,   \* the receiving goroutine: what it does, or has in hand
    frames,     \* the channel between it and receive
    orphans,    \* receivers of earlier sessions
    idle,       \* age of the idle timer
    silence,    \* time since the session began or last delivered a frame
    stop,       \* what stops the source: closed (z.closed), cancelled (ctx)
    closing,    \* where Close is
    connected,  \* Stats.Connected
    raw, gaps,  \* messages and signals the pipeline has not read
    lost        \* a frame was dropped since the pipeline last read a signal

peers == <<up, moved>>
session == <<linked, run, sock, receiver, frames, orphans, idle, silence>>
pipeline == <<raw, gaps, lost>>
zmqVars == <<peers, session, stop, closing, connected, pipeline>>

NoSocket == [open |-> FALSE, shared |-> FALSE]

ZmqInit ==
    /\ up = Endpoints /\ moved = {} /\ linked = {}
    /\ run = [at |-> "top"]
    /\ sock = NoSocket
    /\ receiver = "none" /\ frames = <<>> /\ orphans = {}
    /\ idle = 0 /\ silence = 0
    /\ stop = {} /\ closing = "not"
    /\ connected = FALSE
    /\ raw = 0 /\ gaps = 0 /\ lost = FALSE

-----------------------------------------------------------------------------
(* The publishers, the pipeline, and time.                                 *)

\* A publisher goes away. Its connection is dead, whether or not Recv says so.
PeerGoes(e) ==
    /\ e \in up
    /\ up' = up \ {e} /\ linked' = linked \ {e}
    /\ UNCHANGED <<moved, run, sock, receiver, frames, orphans, idle, silence, stop, closing, connected, pipeline>>

\* It comes back under another address.
PeerReturns(e) ==
    /\ e \notin up
    /\ up' = up \cup {e} /\ moved' = moved \cup {e}
    /\ UNCHANGED <<session, stop, closing, connected, pipeline>>

PipelineReads ==
    /\ raw > 0
    /\ raw' = raw - 1
    /\ UNCHANGED <<peers, session, stop, closing, connected, gaps, lost>>

\* watchGaps takes a signal and marks everything suspect.
PipelineMarks ==
    /\ gaps > 0
    /\ gaps' = gaps - 1 /\ lost' = FALSE
    /\ UNCHANGED <<peers, session, stop, closing, connected, raw>>

\* Time passes in a session; an expired timer is served before any more does.
Elapses ==
    /\ run.at = "receive" /\ idle < IdleTimeout
    /\ idle' = idle + 1 /\ silence' = silence + 1
    /\ UNCHANGED <<peers, linked, run, sock, receiver, frames, orphans, stop, closing, connected, pipeline>>

\* gapChannel.signal: never blocks; a full channel holds unread signals already.
Signalled(n) == IF n < GapBuffer THEN n + 1 ELSE n

-----------------------------------------------------------------------------
(* The receiving goroutine.                                                *)

\* Recv returns a frame of a connected publisher.
RecvFrame ==
    /\ receiver = "blocked" /\ sock.open /\ linked # {}
    /\ receiver' \in {"good", "junk", "big"}
    /\ UNCHANGED <<peers, linked, run, sock, frames, orphans, idle, silence, stop, closing, connected, pipeline>>

\* The socket's context: its parent is done, or receive has let go of it.
SocketDone == "cancelled" \in stop \/ run.at = "release"

\* Recv returns an error: the socket is closed, or it notices a broken link.
RecvError ==
    /\ receiver = "blocked" /\ (SocketDone \/ ~sock.open \/ linked # Endpoints)
    /\ receiver' = "error"
    /\ UNCHANGED <<peers, linked, run, sock, frames, orphans, idle, silence, stop, closing, connected, pipeline>>

\* The result goes into the channel, or the socket's context is done.
HandOver ==
    /\ receiver \in {"good", "junk", "big", "error"}
    /\ \/ /\ frames = <<>>
          /\ frames' = <<receiver>>
          /\ receiver' = IF receiver = "error" THEN "done" ELSE "blocked"
       \/ /\ SocketDone
          /\ receiver' = "done" /\ UNCHANGED frames
    /\ UNCHANGED <<peers, linked, run, sock, orphans, idle, silence, stop, closing, connected, pipeline>>

\* A receiver whose session is over: the socket's context is done, and the
\* channel takes the last result without a reader.
Orphan(n) ==
    /\ n \in orphans
    /\ orphans' = orphans \ {n}
    /\ UNCHANGED <<peers, linked, run, sock, receiver, frames, idle, silence, stop, closing, connected, pipeline>>

-----------------------------------------------------------------------------
(* Run and session.                                                        *)

Goes(to) == run' = [at |-> to]

\* Run looks at the context and at the closed flag.
Top ==
    /\ run.at = "top"
    /\ IF stop # {} THEN Goes("returned") ELSE Goes("dial")
    /\ UNCHANGED <<peers, linked, sock, receiver, frames, orphans, idle, silence, stop, closing, connected, pipeline>>

\* session: the socket is created and shared with Close, then subscribed.
Dial ==
    /\ run.at = "dial"
    /\ sock' = [open |-> TRUE, shared |-> TRUE]
    /\ linked' = {}
    /\ \/ run' = [at |-> "connect", todo |-> Endpoints]
       \/ Goes("ended")     \* subscribe fails
    /\ UNCHANGED <<peers, receiver, frames, orphans, idle, silence, stop, closing, connected, pipeline>>

\* Mutant: the addresses found at the first attempt are kept.
ReachableCached(e) == sock.open /\ e \in up \ moved

\* resolve and Dial: the name is resolved afresh for every attempt.
Reachable(e) == sock.open /\ e \in up

Connect(e) ==
    /\ run.at = "connect" /\ e \in run.todo
    /\ run' = [run EXCEPT !.todo = @ \ {e}]
    /\ linked' = IF Reachable(e) THEN linked \cup {e} ELSE linked
    /\ UNCHANGED <<peers, sock, receiver, frames, orphans, idle, silence, stop, closing, connected, pipeline>>

\* One endpoint is enough; none ends the session.
Connected ==
    /\ run.at = "connect" /\ run.todo = {}
    /\ IF linked = {}
       THEN Goes("ended") /\ UNCHANGED <<connected, receiver, frames, idle, silence>>
       ELSE /\ Goes("receive")
            /\ connected' = TRUE
            /\ receiver' = "blocked" /\ frames' = <<>>
            /\ idle' = 0 /\ silence' = 0
    /\ UNCHANGED <<peers, linked, sock, orphans, stop, closing, pipeline>>

\* waitForReceiver releases the socket; the timer no longer matters.
Release(idled) ==
    /\ run' = [at |-> "release", idled |-> idled]
    /\ sock' = [sock EXCEPT !.open = FALSE] /\ linked' = {}
    /\ idle' = 0 /\ silence' = 0

\* ctx.Done, or the idle deadline.
Interrupted ==
    /\ run.at = "receive"
    /\ \/ "cancelled" \in stop /\ Release(FALSE)
       \/ idle = IdleTimeout /\ Release(TRUE)
    /\ UNCHANGED <<peers, receiver, frames, orphans, stop, closing, connected, pipeline>>

\* Mutant: the loss of an oversized frame is not signalled.
BigSignals(n) == n

\* deliver: the signal that goes with a frame over the cap.
Oversized(n) == Signalled(n)

\* deliver says whether the frame was usable; only that resets the deadline.
Postpones(f) == f = "good" /\ raw < RawBuffer

\* receive, for what comes from the channel; deliver, for a frame.
Receive ==
    /\ run.at = "receive" /\ frames # <<>>
    /\ frames' = <<>>
    /\ LET f == Head(frames)
       IN  IF f = "error" \/ "closed" \in stop
           THEN Release(FALSE) /\ UNCHANGED pipeline
           ELSE /\ idle' = IF Postpones(f) THEN 0 ELSE idle
                /\ silence' = IF f = "good" /\ raw < RawBuffer THEN 0 ELSE silence
                /\ raw' = IF f = "good" /\ raw < RawBuffer THEN raw + 1 ELSE raw
                /\ gaps' = CASE f = "big" -> Oversized(gaps)
                             [] f = "good" /\ raw = RawBuffer -> Signalled(gaps)
                             [] OTHER -> gaps
                /\ lost' = (lost \/ f = "big" \/ (f = "good" /\ raw = RawBuffer))
                /\ UNCHANGED <<run, sock, linked>>
    /\ UNCHANGED <<peers, receiver, orphans, stop, closing, connected>>

\* waitForReceiver: the receiver is done, or the grace period is over. An idle
\* session is signalled then.
Waited ==
    /\ run.at = "release"
    /\ \/ receiver = "done" /\ UNCHANGED orphans
       \/ /\ receiver # "done"
          /\ \E n \in 1 .. MaxOrphans : n \notin orphans /\ orphans' = orphans \cup {n}
    /\ Goes("ended")
    /\ receiver' = "none" /\ frames' = <<>>
    /\ gaps' = IF run.idled THEN Signalled(gaps) ELSE gaps
    /\ UNCHANGED <<peers, linked, sock, idle, silence, stop, closing, connected, raw, lost>>

\* The deferred calls of session, and what Run makes of its end: stop, or
\* signal the possible gap and wait.
SessionEnds ==
    /\ run.at = "ended"
    /\ sock' = NoSocket /\ linked' = {}
    /\ connected' = FALSE
    /\ IF stop # {}
       THEN Goes("returned") /\ UNCHANGED gaps
       ELSE Goes("backoff") /\ gaps' = Signalled(gaps)
    /\ UNCHANGED <<peers, receiver, frames, orphans, idle, silence, stop, closing, raw, lost>>

\* The wait before the next attempt, which only the context cuts short.
Backoff ==
    /\ run.at = "backoff"
    /\ Goes("top") \/ ("cancelled" \in stop /\ Goes("returned"))
    /\ UNCHANGED <<peers, linked, sock, receiver, frames, orphans, idle, silence, stop, closing, connected, pipeline>>

-----------------------------------------------------------------------------
(* Stopping.                                                               *)

CancelContext ==
    /\ stop' = stop \cup {"cancelled"}
    /\ UNCHANGED <<peers, session, closing, connected, pipeline>>

\* Close takes the socket under the lock ...
CloseBegins ==
    /\ closing = "not"
    /\ stop' = stop \cup {"closed"}
    /\ closing' = IF sock.shared THEN "socket" ELSE "none"
    /\ sock' = [sock EXCEPT !.shared = FALSE]
    /\ UNCHANGED <<peers, linked, run, receiver, frames, orphans, idle, silence, connected, pipeline>>

\* ... and closes it after, when the session may be over.
CloseEnds ==
    /\ closing \in {"socket", "none"}
    /\ closing' = "done"
    /\ sock' = [sock EXCEPT !.open = @ /\ (closing = "none" \/ sock.shared)]
    /\ connected' = FALSE
    /\ UNCHANGED <<peers, linked, run, receiver, frames, orphans, idle, silence, stop, pipeline>>

RunSteps ==
    \/ Top \/ Dial \/ (\E e \in Endpoints : Connect(e)) \/ Connected
    \/ Interrupted \/ Receive \/ Waited \/ SessionEnds \/ Backoff

ReceiverSteps == RecvFrame \/ RecvError \/ HandOver \/ \E n \in 1 .. MaxOrphans : Orphan(n)

ZmqNext ==
    \/ \E e \in Endpoints : PeerGoes(e) \/ PeerReturns(e)
    \/ PipelineReads \/ PipelineMarks \/ Elapses
    \/ RunSteps \/ ReceiverSteps
    \/ CancelContext \/ CloseBegins \/ CloseEnds

\* The goroutines run and time passes. Select serves a channel that stays ready
\* in the end, and subscribing does not fail for ever.
ZmqFairness ==
    /\ WF_zmqVars(RunSteps) /\ WF_zmqVars(CloseEnds)
    /\ SF_zmqVars(Interrupted)
    /\ SF_zmqVars(Dial /\ run'.at = "connect")
    /\ WF_zmqVars(HandOver) /\ WF_zmqVars(RecvError /\ (SocketDone \/ ~sock.open))
    /\ \A n \in 1 .. MaxOrphans : WF_zmqVars(Orphan(n))
    /\ WF_zmqVars(Elapses)
    /\ WF_zmqVars(PipelineReads) /\ WF_zmqVars(PipelineMarks)

ZmqSpec == ZmqInit /\ [][ZmqNext]_zmqVars /\ ZmqFairness

-----------------------------------------------------------------------------
\* A frame that was dropped is covered by a signal the pipeline has yet to read,
\* so a mark always follows the loss, although a full gap channel throws the
\* signal of that loss away (newGapChannel: "another adds nothing").
LossIsSignalled == lost => gaps > 0

\* A session that delivers nothing ends by the idle deadline, junk and dropped
\* frames notwithstanding ("it is usable data that postpones it").
SilenceBounded == run.at = "receive" => silence <= IdleTimeout

\* Run returns after the context is cancelled or Close is called, even if Close
\* comes between the loop's test and the socket it would have to close.
SourceStops == stop # {} ~> run.at = "returned"

\* Every receiver ends, the ones included that outlive the grace period: no
\* goroutine is leaked by a reconnect (the comment in receive).
ReceiversEnd == []<>(orphans = {})

\* When every endpoint listens from some time on, the source is connected to
\* one again and again, wherever the publishers have moved (resolveAll).
Reconnects == <>[](up = Endpoints /\ stop = {}) => []<>(linked # {})

\* Run's comment: an unreachable endpoint and a peer that goes away "are retried
\* forever": when every endpoint listens, the source gets back to each of them.
\* Does not hold: README, section 6.
EndpointRetried == <>[](up = Endpoints /\ stop = {}) => \A e \in Endpoints : []<>(e \in linked)

\* In a session neither a loss nor a silence goes unnoticed.
SessionIsWatched == LossIsSignalled /\ SilenceBounded

\* The source reconnects or stops, and leaves no goroutine behind.
SourceIsLive == SourceStops /\ ReceiversEnd /\ Reconnects
=============================================================================
