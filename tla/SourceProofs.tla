---------------------------- MODULE SourceProofs ----------------------------
(***************************************************************************)
(* What is proved of the sources, for any endpoints, buffers, files and    *)
(* bounds: a ZeroMQ session without traffic is ended and its loss is       *)
(* signalled, NATS reports what its client dropped, a replayed file is     *)
(* whole or ends with an error, and the memory source keeps what it has    *)
(* accepted, in order.                                                     *)
(***************************************************************************)
EXTENDS ZmqSource, MCFeeds, SequenceTheorems, TLAPS

-----------------------------------------------------------------------------
(* ZeroMQ.                                                                 *)

RunPlaces ==
    [at : {"top", "dial", "receive", "ended", "backoff", "returned"}]
        \cup [at : {"connect"}, todo : SUBSET Endpoints]
        \cup [at : {"release"}, idled : BOOLEAN]

\* In a session the timer is as old as the silence: the two are reset together.
ZmqInv ==
    /\ run \in RunPlaces
    /\ gaps \in Nat /\ idle \in Nat
    /\ lost => gaps > 0
    /\ run.at = "receive" => silence = idle /\ idle <= IdleTimeout

\* gapChannel.signal leaves at least one signal in the channel.
LEMMA SignalledFacts ==
    ASSUME NEW n \in Nat
    PROVE  Signalled(n) \in Nat /\ Signalled(n) > 0 /\ Oversized(n) = Signalled(n)
BY ZmqAssumption DEF Signalled, Oversized

\* The places of Run, as the steps write them.
LEMMA PlaceFacts ==
    /\ \A p \in {"top", "dial", "receive", "ended", "backoff", "returned"} :
          [at |-> p] \in RunPlaces /\ [at |-> p].at = p
    /\ \A e \in SUBSET Endpoints :
          [at |-> "connect", todo |-> e] \in RunPlaces /\ [at |-> "connect", todo |-> e].at = "connect"
    /\ \A b \in BOOLEAN :
          [at |-> "release", idled |-> b] \in RunPlaces /\ [at |-> "release", idled |-> b].at = "release"
BY DEF RunPlaces

\* No step loses a signal, and only usable frames and new sessions reset the timer.
LEMMA ZmqKeeps == ASSUME ZmqInv, [ZmqNext]_zmqVars PROVE ZmqInv'
<1> USE DEF ZmqInv, peers, session, pipeline, Goes
<1>1. CASE UNCHANGED zmqVars
  BY <1>1 DEF zmqVars
<1>2. ASSUME NEW e \in Endpoints, PeerGoes(e) \/ PeerReturns(e) \/ Connect(e) PROVE ZmqInv'
  <2>1. CASE PeerGoes(e) \/ PeerReturns(e)
    BY <2>1 DEF PeerGoes, PeerReturns
  <2>2. CASE Connect(e)
    <3>1. run = [at |-> "connect", todo |-> run.todo] /\ run.todo \subseteq Endpoints
      BY <2>2 DEF Connect, RunPlaces
    <3>2. run' = [at |-> "connect", todo |-> run.todo \ {e}]
      BY <2>2, <3>1 DEF Connect
    <3>3. run' \in RunPlaces /\ run'.at = "connect"
      BY <3>1, <3>2 DEF RunPlaces
    <3> QED
      BY <2>2, <3>3 DEF Connect
  <2> QED
    BY <1>2, <2>1, <2>2
<1>3. CASE PipelineReads \/ PipelineMarks \/ CancelContext \/ CloseBegins \/ CloseEnds
  <2>1. UNCHANGED <<run, idle, silence>>
    BY <1>3, Zenon DEF PipelineReads, PipelineMarks, CancelContext, CloseBegins, CloseEnds
  <2>2. CASE UNCHANGED <<gaps, lost>>
    BY <2>1, <2>2
  <2>3. CASE PipelineMarks
    <3>1. gaps' \in Nat /\ ~lost'
      BY <2>3 DEF PipelineMarks
    <3> QED
      BY <2>1, <3>1
  <2> QED
    BY <1>3, <2>2, <2>3, Zenon DEF PipelineReads, CancelContext, CloseBegins, CloseEnds
<1>4. CASE Elapses
  BY <1>4, ZmqAssumption DEF Elapses
<1>5. CASE Top \/ Dial \/ Connected \/ Backoff
  <2>1. CASE Top \/ Backoff
    BY <2>1 DEF Top, Backoff, RunPlaces
  <2>2. CASE Dial
    BY <2>2 DEF Dial, RunPlaces
  <2>3. CASE Connected
    <3>1. CASE linked = {}
      BY <2>3, <3>1 DEF Connected, RunPlaces
    <3>2. CASE linked # {}
      <4>1. run' = [at |-> "receive"] /\ idle' = 0 /\ silence' = 0 /\ UNCHANGED <<gaps, lost>>
        BY <2>3, <3>2, Zenon DEF Connected
      <4> QED
        BY <4>1, ZmqAssumption DEF RunPlaces
    <3> QED
      BY <3>1, <3>2
  <2> QED
    BY <1>5, <2>1, <2>2, <2>3
<1>6. CASE Interrupted
  <2>1. run'.at = "release" /\ run' \in RunPlaces /\ UNCHANGED <<gaps, lost>> /\ idle' = 0
    BY <1>6, PlaceFacts, Zenon DEF Interrupted, Release
  <2> QED
    BY <2>1
<1>7. CASE Receive
  <2>1. CASE Release(FALSE) /\ UNCHANGED pipeline
    BY <2>1 DEF Release, RunPlaces
  <2>2. CASE ~(Release(FALSE) /\ UNCHANGED pipeline)
    <3>1. PICK f : f = Head(frames)
      OBVIOUS
    <3>2. /\ run' = run /\ run.at = "receive"
          /\ idle' = IF Postpones(f) THEN 0 ELSE idle
          /\ silence' = IF f = "good" /\ raw < RawBuffer THEN 0 ELSE silence
          /\ gaps' = CASE f = "big" -> Oversized(gaps)
                       [] f = "good" /\ raw = RawBuffer -> Signalled(gaps)
                       [] OTHER -> gaps
          /\ lost' = (lost \/ f = "big" \/ (f = "good" /\ raw = RawBuffer))
      BY <1>7, <2>2, <3>1, Zenon DEF Receive
    <3>3. gaps' \in Nat /\ (lost' => gaps' > 0)
      BY <3>2, SignalledFacts, Zenon
    <3>4. silence' = idle' /\ idle' <= IdleTimeout /\ idle' \in Nat
      BY <3>2, ZmqAssumption DEF Postpones
    <3> QED
      BY <3>2, <3>3, <3>4
  <2> QED
    BY <2>1, <2>2, Zenon
<1>8. CASE Waited \/ SessionEnds
  <2>1. run' \in RunPlaces /\ run'.at # "receive"
    BY <1>8 DEF Waited, SessionEnds, RunPlaces
  <2>2. (gaps' = gaps \/ gaps' = Signalled(gaps)) /\ UNCHANGED <<idle, lost>>
    BY <1>8 DEF Waited, SessionEnds
  <2> QED
    BY <2>1, <2>2, SignalledFacts
<1>9. CASE ReceiverSteps
  BY <1>9 DEF ReceiverSteps, RecvFrame, RecvError, HandOver, Orphan
<1>10. ZmqNext \/ UNCHANGED zmqVars
  OBVIOUS
<1> HIDE DEF ZmqInv, peers, session, pipeline, Goes
<1> QED
  BY <1>1, <1>2, <1>3, <1>4, <1>5, <1>6, <1>7, <1>8, <1>9, <1>10, Zenon DEF ZmqNext, RunSteps

\* With any endpoints, buffers and idle deadline, whatever order frames, timers,
\* reconnects and Close come in: a dropped frame is covered by a signal that is
\* still to be read, and no session is silent beyond the deadline (receive, deliver).
THEOREM SessionStaysWatched == ZmqSpec => []SessionIsWatched
<1>1. ZmqInit => ZmqInv
  BY PlaceFacts DEF ZmqInit, ZmqInv
<1>2. ZmqInv /\ [ZmqNext]_zmqVars => ZmqInv'
  BY ZmqKeeps
<1>3. ZmqInv => SessionIsWatched
  BY ZmqAssumption DEF ZmqInv, SessionIsWatched, LossIsSignalled, SilenceBounded
<1> QED
  BY <1>1, <1>2, <1>3, PTL DEF ZmqSpec

-----------------------------------------------------------------------------
(* NATS.                                                                   *)

NatsInv ==
    /\ dropped \in Nat /\ saidDrops \in Nat /\ signals \in Nat
    /\ saidDrops <= dropped
    /\ DropsReported

\* Signalling leaves at least one signal in the channel.
LEMMA SignalOneFacts ==
    ASSUME NEW n \in Nat
    PROVE  SignalOne(n) \in Nat /\ SignalOne(n) > 0
BY NatsAssumption DEF SignalOne

\* The count is reported before it is noted, and only a mark empties the channel.
LEMMA NatsKeeps == ASSUME NatsInv, [NatsNext]_natsVars PROVE NatsInv'
<1> USE DEF NatsInv, DropsReported, natsPipe
<1>1. CASE UNCHANGED <<dropped, saidDrops, signals, unsaid>>
  BY <1>1
<1>2. ASSUME NEW size, Published(size) PROVE NatsInv'
  <2>1. UNCHANGED <<saidDrops, signals>>
    BY <1>2 DEF Published
  <2>2. dropped' = dropped \/ dropped' = dropped + 1
    BY <1>2 DEF Published
  <2>3. dropped' = dropped => ("dropped" \in unsaid' => "dropped" \in unsaid)
    <3>1. CASE link = "down"
      BY <1>2, <3>1 DEF Published
    <3>2. CASE link = "up" /\ Len(msgs) < ClientBuffer
      BY <1>2, <3>2 DEF Published
    <3>3. CASE ~(link = "down") /\ ~(link = "up" /\ Len(msgs) < ClientBuffer)
      <4>1. dropped' = dropped + 1
        BY <1>2, <3>3 DEF Published
      <4> QED
        BY <4>1
    <3> QED
      BY <3>1, <3>2, <3>3
  <2> QED
    BY <2>1, <2>2, <2>3
<1>3. CASE ReconnectsSelf
  BY <1>3, SignalOneFacts DEF ReconnectsSelf, AfterReconnect
<1>4. CASE Forward
  <2>1. CASE UNCHANGED <<saidDrops, natsPipe>>
    BY <1>4, <2>1 DEF Forward
  <2>2. CASE ~UNCHANGED <<saidDrops, natsPipe>>
    <3>1. PICK said : /\ said = signals \/ said = SignalOne(signals)
                      /\ signals' = AfterAsking(said)
                      /\ "dropped" \in unsaid' => "dropped" \in unsaid
                      /\ saidDrops' = dropped /\ dropped' = dropped
      BY <1>4, <2>2 DEF Forward
    <3>2. said \in Nat /\ (signals > 0 => said > 0)
      BY <3>1, SignalOneFacts
    <3>3. signals' \in Nat /\ (said > 0 => signals' > 0) /\ (dropped > saidDrops => signals' > 0)
      BY <3>1, <3>2, SignalOneFacts DEF AfterAsking
    <3> QED
      BY <3>1, <3>2, <3>3
  <2> QED
    BY <2>1, <2>2
<1>5. CASE NatsMark
  BY <1>5 DEF NatsMark
<1>6. CASE NatsConnect \/ Disconnects \/ NatsCancelled \/ NatsCancel \/ NatsClose \/ NatsTake \/ UNCHANGED natsVars
  <2>1. UNCHANGED <<dropped, saidDrops, signals, unsaid>>
    BY <1>6, Zenon DEF NatsConnect, Disconnects, NatsCancelled, NatsCancel, NatsClose, NatsTake, natsVars
  <2> QED
    BY <1>1, <2>1, Zenon
<1>7. NatsNext \/ UNCHANGED natsVars
  OBVIOUS
<1> HIDE DEF NatsInv, DropsReported, natsPipe
<1> QED
  BY <1>2, <1>3, <1>4, <1>5, <1>6, <1>7, Zenon DEF NatsNext

\* A NATS source starts with the invariant.
LEMMA NatsStarts == NatsInit => NatsInv
  BY DEF NatsInit, NatsInv, DropsReported

\* What the client library threw away is covered by an unread signal or will be
\* when the next message is forwarded, whatever the connection does (deliver).
THEOREM DropsAreReported == NatsSpec => []DropsReported
<1>1. NatsInit => NatsInv
  BY NatsStarts
<1>2. NatsInv /\ [NatsNext]_natsVars => NatsInv'
  BY NatsKeeps
<1>3. NatsInv => DropsReported
  BY DEF NatsInv
<1> QED
  BY <1>1, <1>2, <1>3, PTL DEF NatsSpec

-----------------------------------------------------------------------------
(* The capture file.                                                       *)

Passed(n) == {i \in DOMAIN file : i < n /\ file[i] = "event"}

FileInv ==
    /\ file \in Seq(Lines) /\ fileStop \subseteq {"closed", "cancelled"}
    /\ fileRun \in [at : {"open", "scan", "send", "returned"}, line : Nat \ {0}]
    /\ fileRun.at \in {"scan", "send"} => sent = Passed(fileRun.line)
    /\ fileRun.at = "send" => fileRun.line \in DOMAIN file /\ file[fileRun.line] = "event"
    /\ fileRun.at # "returned" => fileResult = "none"
    /\ WholeOrError

\* Run returns with r.
LEMMA ReturnFacts ==
    ASSUME FileInv, NEW r, FileReturns(r)
    PROVE  /\ fileRun' \in [at : {"open", "scan", "send", "returned"}, line : Nat \ {0}]
           /\ fileRun'.at = "returned" /\ fileResult' = r
BY DEF FileInv, FileReturns

\* Every event up to the line has been sent, until Run returns.
LEMMA FileKeeps == ASSUME FileInv, [FileNext]_fileVars PROVE FileInv'
<1> USE DEF FileInv
<1>0. DOMAIN file = 1 .. Len(file) /\ Len(file) \in Nat /\ fileRun.line \in Nat \ {0}
  OBVIOUS
<1>1. CASE Open
  <2>0. sent' = {} /\ UNCHANGED <<file, fileStop>> /\ fileResult = "none"
    BY <1>1 DEF Open
  <2>1. CASE fileRun' = [at |-> "scan", line |-> 1] /\ UNCHANGED fileResult
    <3>1. Passed(1) = {}
      BY <1>0 DEF Passed
    <3> QED
      BY <2>0, <2>1, <3>1 DEF Passed, WholeOrError
  <2>2. CASE FileReturns("error")
    BY <2>0, <2>2, ReturnFacts DEF WholeOrError
  <2> QED
    BY <1>1, <2>1, <2>2 DEF Open
<1>2. CASE ScanLine
  <2>0. /\ UNCHANGED <<file, sent, fileStop>> /\ fileResult = "none"
        /\ fileRun.at = "scan" /\ fileRun.line <= Len(file) /\ sent = Passed(fileRun.line)
    BY <1>2 DEF ScanLine
  <2>1. ASSUME NEW r, FileReturns(r), r # "nil" \/ fileStop # {} PROVE FileInv'
    BY <2>0, <2>1, ReturnFacts, Zenon DEF WholeOrError
  <2>2. CASE /\ file[fileRun.line] = "blank" /\ UNCHANGED fileResult
             /\ fileRun' = [fileRun EXCEPT !.line = @ + 1]
    <3>1. Passed(fileRun.line + 1) = Passed(fileRun.line)
      BY <1>0, <2>2 DEF Passed
    <3>2. fileRun'.at = "scan" /\ fileRun'.line = fileRun.line + 1
          /\ fileRun' \in [at : {"open", "scan", "send", "returned"}, line : Nat \ {0}]
      BY <2>0, <2>2
    <3> QED
      BY <2>0, <2>2, <3>1, <3>2 DEF Passed, WholeOrError
  <2>3. CASE /\ file[fileRun.line] = "event" /\ UNCHANGED fileResult
             /\ fileRun' = [fileRun EXCEPT !.at = "send"]
    <3>1. fileRun.line \in DOMAIN file
      BY <1>0, <2>0
    <3>2. fileRun'.at = "send" /\ fileRun'.line = fileRun.line
          /\ fileRun' \in [at : {"open", "scan", "send", "returned"}, line : Nat \ {0}]
      BY <2>0, <2>3
    <3> QED
      BY <2>0, <2>3, <3>1, <3>2 DEF Passed, WholeOrError
  <2> QED
    BY <1>2, <2>0, <2>1, <2>2, <2>3 DEF ScanLine, TooLong, Lines
<1>3. CASE SendLine
  <2>0. /\ UNCHANGED <<file, fileStop>> /\ fileResult = "none"
        /\ fileRun.line \in DOMAIN file /\ file[fileRun.line] = "event" /\ sent = Passed(fileRun.line)
    BY <1>3 DEF SendLine
  <2>1. CASE FileReturns("cancelled")
    BY <2>0, <2>1, ReturnFacts DEF WholeOrError
  <2>2. CASE /\ sent' = sent \cup {fileRun.line} /\ UNCHANGED fileResult
             /\ fileRun' = [at |-> "scan", line |-> fileRun.line + 1]
    <3>1. Passed(fileRun.line + 1) = Passed(fileRun.line) \cup {fileRun.line}
      BY <1>0, <2>0 DEF Passed
    <3>2. fileRun'.at = "scan" /\ fileRun'.line = fileRun.line + 1
          /\ fileRun' \in [at : {"open", "scan", "send", "returned"}, line : Nat \ {0}]
      BY <1>0, <2>2
    <3> QED
      BY <2>0, <2>2, <3>1, <3>2 DEF Passed, WholeOrError
  <2> QED
    BY <1>3, <2>1, <2>2 DEF SendLine
<1>4. CASE EndOfFile
  <2>0. /\ UNCHANGED <<file, fileStop>> /\ fileResult = "none"
        /\ fileRun.line > Len(file) /\ sent = Passed(fileRun.line)
    BY <1>4 DEF EndOfFile
  <2>1. Passed(fileRun.line) = {n \in DOMAIN file : file[n] = "event"}
    BY <1>0, <2>0 DEF Passed
  <2>2. ASSUME NEW r, FileReturns(r), UNCHANGED sent PROVE FileInv'
    BY <2>0, <2>1, <2>2, ReturnFacts DEF WholeOrError
  <2>3. CASE fileRun' = [at |-> "open", line |-> 1] /\ UNCHANGED fileResult
    BY <2>0, <2>3 DEF WholeOrError
  <2>4. CASE ~loop \/ "closed" \in fileStop
    BY <1>4, <2>2, <2>4, Zenon DEF EndOfFile
  <2>5. CASE ~(~loop \/ "closed" \in fileStop) /\ fileStop = {"cancelled"}
    BY <1>4, <2>2, <2>5, Zenon DEF EndOfFile
  <2>6. CASE ~(~loop \/ "closed" \in fileStop) /\ fileStop = {}
    <3>1. loop
      BY <2>6
    <3> QED
      BY <1>4, <2>3, <2>6, <3>1 DEF EndOfFile
  <2>7. fileStop \subseteq {"closed", "cancelled"}
    OBVIOUS
  <2>8. "closed" \in fileStop \/ fileStop = {"cancelled"} \/ fileStop = {}
    BY <2>7, Zenon
  <2> QED
    BY <2>4, <2>5, <2>6, <2>8
<1>5. CASE UNCHANGED <<file, fileRun, sent, fileResult>> /\ (fileStop' = fileStop \/ fileStop' # {})
      /\ fileStop' \subseteq {"closed", "cancelled"}
  BY <1>5, Zenon DEF Passed, WholeOrError
<1>6. CASE PipelineTakesLine \/ (\E why \in {"closed", "cancelled"} : StopFile(why)) \/ UNCHANGED fileVars
  <2>1. UNCHANGED <<file, fileRun, sent, fileResult>> /\ (fileStop' = fileStop \/ fileStop' # {})
        /\ fileStop' \subseteq {"closed", "cancelled"}
    BY <1>6, Zenon DEF PipelineTakesLine, StopFile, fileVars
  <2> QED
    BY <1>5, <2>1
<1>7. FileNext \/ UNCHANGED fileVars
  OBVIOUS
<1> HIDE DEF FileInv
<1> QED
  BY <1>1, <1>2, <1>3, <1>4, <1>6, <1>7, Zenon DEF FileNext

\* A file source starts with the invariant.
LEMMA FileStarts == FileInit => FileInv
<1> SUFFICES ASSUME FileInit PROVE FileInv
  OBVIOUS
<1>1. PICK n \in 0 .. MaxLines : file \in [1 .. n -> Lines]
  BY Zenon DEF FileInit
<1>2. file \in Seq(Lines)
  BY <1>1, FileAssumption
<1> QED
  BY <1>2 DEF FileInit, FileInv, WholeOrError

\* For any capture: a replay that was not stopped and returned without an error has
\* delivered every event of it (replayOnce, "it reads every byte or it fails").
THEOREM ReplayIsWhole == FileSpec => []WholeOrError
<1>1. FileInit => FileInv
  BY FileStarts
<1>2. FileInv /\ [FileNext]_fileVars => FileInv'
  BY FileKeeps
<1>3. FileInv => WholeOrError
  BY DEF FileInv
<1> QED
  BY <1>1, <1>2, <1>3, PTL DEF FileSpec

-----------------------------------------------------------------------------
(* Memory.                                                                 *)

\* A sequence that is not empty is its head and then its tail.
LEMMA HeadFirst ==
    ASSUME NEW s \in Seq(Nat), s # <<>>
    PROVE  /\ Head(s) \in Nat /\ Tail(s) \in Seq(Nat) /\ <<Head(s)>> \in Seq(Nat)
           /\ s = <<Head(s)>> \o Tail(s)
<1>1. Head(s) \in Nat /\ Tail(s) \in Seq(Nat) /\ <<Head(s)>> \in Seq(Nat)
  OBVIOUS
<1>2. PICK h, t : h = <<Head(s)>> /\ t = Tail(s)
  BY Zenon
<1>3. h \in Seq(Nat) /\ t \in Seq(Nat) /\ Len(h) = 1 /\ h[1] = s[1] /\ Len(t) = Len(s) - 1
      /\ \A i \in 1 .. Len(t) : t[i] = s[i + 1]
  BY <1>1, <1>2, HeadTailProperties
<1>4. h \in Seq(Nat) /\ t \in Seq(Nat)
  BY <1>3
<1>5. /\ h \o t \in Seq(Nat) /\ Len(h \o t) = Len(h) + Len(t)
      /\ \A i \in 1 .. Len(h) + Len(t) : (h \o t)[i] = IF i <= Len(h) THEN h[i] ELSE t[i - Len(h)]
  BY <1>4, ConcatProperties, Zenon
<1>6. PICK c : c = h \o t
  BY Zenon
<1>7. c \in Seq(Nat) /\ Len(c) = Len(h) + Len(t)
      /\ \A i \in 1 .. Len(h) + Len(t) : c[i] = IF i <= Len(h) THEN h[i] ELSE t[i - Len(h)]
  BY <1>5, <1>6, Zenon
<1>8. Len(s) \in Nat /\ Len(c) = Len(s)
  BY <1>3, <1>7
<1>9. ASSUME NEW i \in 1 .. Len(s)
      PROVE  c[i] = s[i]
  <2>1. i \in 1 .. Len(h) + Len(t) /\ c[i] = IF i <= Len(h) THEN h[i] ELSE t[i - Len(h)]
    BY <1>3, <1>7, <1>8, Zenon
  <2>2. CASE i = 1
    BY <1>3, <2>1, <2>2
  <2>3. CASE i # 1
    <3>1. PICK j : j = i - 1
      OBVIOUS
    <3>2. j \in 1 .. Len(t) /\ j + 1 = i /\ c[i] = t[j]
      BY <1>3, <1>8, <2>1, <2>3, <3>1
    <3> QED
      BY <1>3, <3>2, Zenon
  <2> QED
    BY <2>2, <2>3
<1>10. c = s
  BY <1>7, <1>8, <1>9, SeqEqual, Zenon
<1> QED
  BY <1>1, <1>2, <1>6, <1>10, Zenon

\* Putting sequences of messages one after another is associative.
LEMMA OneAfterAnother ==
    ASSUME NEW a \in Seq(Nat), NEW b \in Seq(Nat), NEW c \in Seq(Nat)
    PROVE  a \o b \in Seq(Nat) /\ (a \o b) \o c = a \o (b \o c)
<1>1. (a \o b) \o c = a \o (b \o c)
  OBVIOUS
<1>2. a \o b \in Seq(Nat)
  BY ConcatProperties, Zenon
<1> QED
  BY <1>1, <1>2, Zenon

\* One message moves over the border of two sequences.
LEMMA MovesOver ==
    ASSUME NEW s \in Seq(Nat), NEW t \in Seq(Nat), t # <<>>
    PROVE  Append(s, Head(t)) \o Tail(t) = s \o t
<1>1. /\ Head(t) \in Nat /\ Tail(t) \in Seq(Nat) /\ <<Head(t)>> \in Seq(Nat)
      /\ t = <<Head(t)>> \o Tail(t)
  BY HeadFirst
<1>2. PICK h, r : h = <<Head(t)>> /\ r = Tail(t)
  BY Zenon
<1>3. t = h \o r
  BY <1>1, <1>2, Zenon
<1>6. h \in Seq(Nat) /\ r \in Seq(Nat)
  BY <1>1, <1>2, Zenon
<1>4. (s \o h) \o r = s \o (h \o r)
  BY <1>6, OneAfterAnother, Zenon
<1>5. Append(s, Head(t)) = s \o h
  BY <1>1, <1>2, AppendIsConcat, Zenon
<1> QED
  BY <1>2, <1>3, <1>4, <1>5, Zenon

\* Appending to the last of two sequences appends to both.
LEMMA AppendsLast ==
    ASSUME NEW s \in Seq(Nat), NEW t \in Seq(Nat), NEW n \in Nat
    PROVE  Append(s \o t, n) = s \o Append(t, n)
<1>1. PICK h : h = <<n>>
  BY Zenon
<1>2. h \in Seq(Nat) /\ s \o t \in Seq(Nat)
  <2>1. h \in Seq(Nat)
    BY <1>1
  <2>2. s \o t \in Seq(Nat)
    BY OneAfterAnother, Zenon
  <2> QED
    BY <2>1, <2>2, Zenon
<1>3. (s \o t) \o h = s \o (t \o h)
  BY <1>2, OneAfterAnother, ZenonT(30)
<1>4. Append(s \o t, n) = (s \o t) \o h /\ Append(t, n) = t \o h
  BY <1>1, <1>2, AppendIsConcat, Zenon
<1> QED
  BY <1>3, <1>4, Zenon

\* What the theorem needs besides: only a batch being sent has anything in it.
MemInv ==
    /\ next \in Nat /\ backlog \in Seq(Nat) /\ out \in Seq(Nat) /\ taken \in Seq(Nat)
    /\ memRun \in [at : {"take", "check", "send", "wait", "returned"}, batch : Seq(Nat)]
    /\ ~cancelled /\ memRun.at # "send" => memRun.batch = <<>>
    /\ AcceptedInOrder

\* Publish appends to both ends of the equation.
LEMMA PublishKeeps ==
    ASSUME MemInv, NEW large \in BOOLEAN, Publish(large)
    PROVE  MemInv'
<1>1. /\ next \in Nat /\ backlog \in Seq(Nat) /\ out \in Seq(Nat) /\ taken \in Seq(Nat)
      /\ memRun \in [at : {"take", "check", "send", "wait", "returned"}, batch : Seq(Nat)]
      /\ next' = next + 1 /\ UNCHANGED <<memRun, out, taken, cancelled>>
  BY DEF MemInv, Publish
<1>2. memRun.batch \in Seq(Nat) /\ next' \in Nat
  BY <1>1
<1>3. CASE UNCHANGED <<backlog, accepted>>
  BY <1>1, <1>2, <1>3, Zenon DEF MemInv, AcceptedInOrder
<1>4. CASE backlog' = Append(backlog, next) /\ accepted' = Append(accepted, next)
  <2>1. backlog' \in Seq(Nat)
    BY <1>1, <1>4
  <2>2. PICK b : b = taken \o out \o memRun.batch
    BY Zenon
  <2>3. b \in Seq(Nat)
    BY <1>1, <1>2, <2>2, OneAfterAnother, Zenon
  <2>4. Append(b \o backlog, next) = b \o Append(backlog, next)
    BY <1>1, <2>3, AppendsLast, Zenon
  <2>5. ~cancelled => accepted = b \o backlog
    BY <2>2, Zenon DEF MemInv, AcceptedInOrder
  <2>6. ~cancelled => accepted' = b \o backlog'
    BY <1>4, <2>4, <2>5, Zenon
  <2>7. AcceptedInOrder'
    BY <1>1, <2>2, <2>6, Zenon DEF AcceptedInOrder
  <2> QED
    BY <1>1, <1>2, <2>1, <2>7, Zenon DEF MemInv
<1> QED
  BY <1>3, <1>4 DEF Publish

\* take moves the backlog into a batch that was empty.
LEMMA TakeKeeps ==
    ASSUME MemInv, Take
    PROVE  MemInv'
<1>1. /\ backlog \in Seq(Nat) /\ out \in Seq(Nat) /\ taken \in Seq(Nat)
      /\ UNCHANGED <<next, accepted, out, taken, cancelled>>
      /\ backlog' = <<>> /\ memRun'.batch = backlog
  BY Zenon DEF MemInv, Take
<1>2. /\ memRun' \in [at : {"take", "check", "send", "wait", "returned"}, batch : Seq(Nat)]
      /\ memRun'.at # "send" => memRun'.batch = <<>>
      /\ backlog' \in Seq(Nat)
  BY DEF MemInv, Take
<1>3. PICK b : b = taken \o out
  BY Zenon
<1>4. b \in Seq(Nat)
  BY <1>1, <1>3, OneAfterAnother, Zenon
<1>5. ~cancelled => accepted = b \o backlog
  <2>1. ~cancelled => memRun.batch = <<>> /\ accepted = b \o memRun.batch \o backlog
    BY <1>3, Zenon DEF MemInv, Take, AcceptedInOrder
  <2>2. b \o <<>> = b
    BY <1>4, ConcatEmptySeq, Zenon
  <2> QED
    BY <2>1, <2>2, Zenon
<1>6. b \o backlog \o <<>> = b \o backlog
  <2>1. b \o backlog \in Seq(Nat)
    BY <1>1, <1>4, OneAfterAnother, Zenon
  <2> QED
    BY <2>1, ConcatEmptySeq, Zenon
<1>7. AcceptedInOrder'
  BY <1>1, <1>3, <1>5, <1>6, Zenon DEF AcceptedInOrder
<1> QED
  BY <1>1, <1>2, <1>7, Zenon DEF MemInv

\* send moves the head of the batch into the channel, or gives up on a done context.
LEMMA SendKeeps ==
    ASSUME MemInv, Send
    PROVE  MemInv'
<1>1. /\ backlog \in Seq(Nat) /\ out \in Seq(Nat) /\ taken \in Seq(Nat)
      /\ memRun.batch \in Seq(Nat) /\ memRun.batch # <<>>
      /\ UNCHANGED <<next, backlog, accepted, taken, cancelled>>
  BY DEF MemInv, Send
<1>2. CASE /\ out' = Append(out, Head(memRun.batch))
           /\ memRun' = [memRun EXCEPT !.batch = Tail(@)]
  <2>1. Head(memRun.batch) \in Nat /\ Tail(memRun.batch) \in Seq(Nat)
    BY <1>1, HeadFirst, Zenon
  <2>2. /\ out' \in Seq(Nat)
        /\ memRun' \in [at : {"take", "check", "send", "wait", "returned"}, batch : Seq(Nat)]
        /\ memRun'.at = "send" /\ memRun'.batch = Tail(memRun.batch)
    <3>1. PICK r : r = Tail(memRun.batch)
      BY Zenon
    <3>2. /\ memRun \in [at : {"take", "check", "send", "wait", "returned"}, batch : Seq(Nat)]
          /\ memRun.at = "send" /\ r \in Seq(Nat) /\ memRun' = [memRun EXCEPT !.batch = r]
      BY <1>2, <2>1, <3>1, Zenon DEF MemInv, Send
    <3>3. /\ memRun' \in [at : {"take", "check", "send", "wait", "returned"}, batch : Seq(Nat)]
          /\ memRun'.at = "send" /\ memRun'.batch = r
      BY <3>2
    <3>4. PICK h \in Nat : h = Head(memRun.batch)
      BY <2>1, Zenon
    <3>5. out' \in Seq(Nat)
      BY <1>1, <1>2, <3>4
    <3> QED
      BY <3>1, <3>3, <3>5, Zenon
  <2>3. PICK b : b = taken \o out
    BY Zenon
  <2>4. b \in Seq(Nat)
    BY <1>1, <2>3, OneAfterAnother, Zenon
  <2>5. taken \o out' = Append(b, Head(memRun.batch))
    BY <1>1, <1>2, <2>1, <2>3, AppendsLast, Zenon
  <2>6. Append(b, Head(memRun.batch)) \o Tail(memRun.batch) = b \o memRun.batch
    BY <1>1, <2>4, MovesOver, Zenon
  <2>7. taken \o out' \o memRun'.batch = taken \o out \o memRun.batch
    BY <2>2, <2>3, <2>5, <2>6, Zenon
  <2>8. AcceptedInOrder'
    BY <1>1, <2>7, Zenon DEF MemInv, AcceptedInOrder
  <2> QED
    BY <1>1, <2>2, <2>8, Zenon DEF MemInv
<1>3. CASE cancelled /\ memRun' = [memRun EXCEPT !.at = "returned"] /\ UNCHANGED out
  BY <1>1, <1>3, Zenon DEF MemInv, AcceptedInOrder
<1> QED
  BY <1>2, <1>3 DEF Send

\* The pipeline moves the head of the channel to what it has received.
LEMMA PipelineKeeps ==
    ASSUME MemInv, PipelineTakes
    PROVE  MemInv'
<1>1. /\ out \in Seq(Nat) /\ out # <<>> /\ taken \in Seq(Nat)
      /\ out' = Tail(out) /\ taken' = Append(taken, Head(out))
      /\ UNCHANGED <<next, backlog, accepted, memRun, cancelled>>
  BY DEF MemInv, PipelineTakes
<1>2. out' \in Seq(Nat) /\ taken' \in Seq(Nat)
  BY <1>1, HeadFirst
<1>3. taken' \o out' = taken \o out
  BY <1>1, MovesOver, Zenon
<1>4. AcceptedInOrder'
  BY <1>1, <1>3, Zenon DEF MemInv, AcceptedInOrder
<1> QED
  BY <1>1, <1>2, <1>4, Zenon DEF MemInv

\* Every step of the memory source keeps the invariant.
LEMMA MemKeeps ==
    ASSUME MemInv, [MemNext]_memVars
    PROVE  MemInv'
<1>1. CASE Wake \/ Shut \/ CancelMem
  BY <1>1, Zenon DEF MemInv, AcceptedInOrder, Wake, Shut, CancelMem
<1>2. CASE Around
  BY <1>2, Zenon DEF MemInv, AcceptedInOrder, Around
<1>3. CASE UNCHANGED memVars
  BY <1>3, Zenon DEF MemInv, AcceptedInOrder, memVars
<1> QED
  BY <1>1, <1>2, <1>3, PublishKeeps, TakeKeeps, SendKeeps, PipelineKeeps DEF MemNext

\* A memory source starts with the invariant.
LEMMA MemStarts == MemInit => MemInv
<1> SUFFICES ASSUME MemInit PROVE MemInv
  OBVIOUS
<1>1. taken \o out \o memRun.batch \o backlog = <<>>
  BY ConcatEmptySeq DEF MemInit
<1> QED
  BY <1>1 DEF MemInit, MemInv, AcceptedInOrder

\* Until the context is done, nothing that Publish has accepted is lost or reordered
\* on its way to the pipeline, however publishers, Run and Close interleave.
THEOREM AcceptedStaysInOrder == MemSpec => []AcceptedInOrder
<1>1. MemInit => MemInv
  BY MemStarts
<1>2. MemInv /\ [MemNext]_memVars => MemInv'
  BY MemKeeps
<1>3. MemInv => AcceptedInOrder
  BY DEF MemInv
<1> QED
  BY <1>1, <1>2, <1>3, PTL DEF MemSpec

-----------------------------------------------------------------------------
(* The sources side by side.                                               *)

\* No source loses anything in silence, whichever of them a behaviour is of.
THEOREM FeedsStayFaithful == FeedSpec => []FeedsAreFaithful
<1>1. FeedInit => NatsInv /\ MemInv /\ FileInv
  BY NatsStarts, MemStarts, FileStarts DEF FeedInit
<1>2. [FeedNext]_FeedVars => [NatsNext]_natsVars /\ [MemNext]_memVars /\ [FileNext]_fileVars
  BY DEF FeedNext, FeedVars
<1>3. /\ NatsInv /\ [NatsNext]_natsVars => NatsInv'
      /\ MemInv /\ [MemNext]_memVars => MemInv'
      /\ FileInv /\ [FileNext]_fileVars => FileInv'
  BY NatsKeeps, MemKeeps, FileKeeps, Zenon
<1>4. NatsInv /\ MemInv /\ FileInv => FeedsAreFaithful
  BY DEF NatsInv, MemInv, FileInv, FeedsAreFaithful
<1> QED
  BY <1>1, <1>2, <1>3, <1>4, PTL DEF FeedSpec
=============================================================================
