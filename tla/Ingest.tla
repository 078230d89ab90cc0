------------------------------- MODULE Ingest -------------------------------
(***************************************************************************)
(* pkg/check/check.go, the ingest pipeline: a source fills the raw channel,*)
(* the applier takes one message at a time through the reorder buffer      *)
(* (Reorder), the sequence tracker (SeqTrack) and the fold into the oracle,*)
(* the gap watcher turns the source's loss signals into suspicion, and     *)
(* bootstrap Strict turns assertions off until a snapshot has ended.       *)
(*                                                                         *)
(* What a message says is fixed by its publisher and number (Content). A   *)
(* key's value is the number of the event folded last, as for a scalar;    *)
(* `folded' remembers all of them, as a set projection does. The oracle's  *)
(* trust machinery is in OracleTrust; here a key is complete or suspect.   *)
(* Each key has one publisher, so that the numbers order its events.       *)
(***************************************************************************)
EXTENDS SeqTrack, Sequences

CONSTANTS
    Keys,
    Content,        \* per publisher and number: [op, key, epochs]
    Owned,          \* per publisher, the keys its ownership pattern matches
    Partitioned,    \* projection.KeyOwnership().Partitioned
    Bootstraps,     \* the values of spec.Policy.Bootstrap
    RawSize,        \* capacity of the raw channel
    SignalSize,     \* capacity of the gap channel
    Copies,         \* bound: how often the transport delivers one message
    Window, MaxHeld,
    Nothing         \* no value, no event in hand

List == INSTANCE SequencesExt

Order == INSTANCE Reorder WITH TopSeq <- MaxSeq

Ops == {"set", "snapshotEnd", "garbled"}

ASSUME IngestAssumption ==
    /\ \A p \in Publishers : DOMAIN Content[p] \subseteq Seqs /\ \A s \in DOMAIN Content[p] :
          Content[p][s].op \in Ops /\ Content[p][s].key \in Keys
    /\ Partitioned \in BOOLEAN /\ Bootstraps \subseteq {"Strict", "Wait"}
    /\ RawSize \in Nat \ {0} /\ SignalSize \in Nat \ {0} /\ Copies \in Nat

VARIABLES
    copies,     \* how often each message has arrived or been lost
    raw,        \* the raw channel
    order,      \* reorderBuffer.pubs
    todo,       \* what the buffer released and applyOrdered has not yet seen
    hand,       \* the event fold is about to apply, with the trust it computed
    value,      \* oracle: the event folded last into each key
    trust,      \* oracle: the trust of each key
    signals,    \* unread signals in the gap channel
    strict,     \* bootstrap: "start", "stored", "done"
    awaiting,   \* Check.awaitingSnapshot
    folded,     \* history: the numbers folded in the publisher's incarnation
    ended,      \* history: the number of its last snapshotEnd
    dropped,    \* history: what the full raw channel made the source drop
    forced      \* history: the buffer let go past a hole, or a publisher restarted

appliers == <<pubs, now, base, taken, order, todo, hand, value, trust, awaiting, folded, ended, forced>>
ingestVars == <<appliers, copies, raw, signals, strict, dropped>>

IngestInit ==
    /\ Init
    /\ copies = [p \in Publishers |-> [s \in DOMAIN Content[p] |-> 0]]
    /\ raw = <<>>
    /\ order = [p \in Publishers |-> Order!NewOrder]
    /\ todo = <<>> /\ hand = Nothing
    /\ value = [k \in Keys |-> Nothing]
    /\ trust = [k \in Keys |-> Nothing]
    /\ signals = 0
    /\ strict \in {IF mode = "Strict" THEN "start" ELSE "done" : mode \in Bootstraps}
    /\ awaiting = FALSE
    /\ folded = [p \in Publishers |-> {}]
    /\ ended = [p \in Publishers |-> -1]
    /\ dropped = {}
    /\ forced = FALSE

-----------------------------------------------------------------------------
(* The source and the gap watcher.                                         *)

\* trySend: a full channel drops the message and signals, without waiting; a
\* full gap channel drops the signal.
Arrive(p, e, s) ==
    /\ copies[p][s] < Copies
    /\ copies' = [copies EXCEPT ![p][s] = @ + 1]
    /\ IF Len(raw) < RawSize
       THEN raw' = Append(raw, <<p, e, s>>) /\ UNCHANGED <<signals, dropped>>
       ELSE /\ signals' = IF signals < SignalSize THEN signals + 1 ELSE signals
            /\ dropped' = dropped \cup {<<p, s>>}
            /\ UNCHANGED raw
    /\ UNCHANGED <<appliers, strict>>

\* Oracle.MarkSuspect and Oracle.ClearSuspect.
MarkSuspect(keys) ==
    trust' = [k \in Keys |-> IF k \in keys /\ trust[k] = "complete" THEN "suspect" ELSE trust[k]]

ClearSuspect(keys) ==
    trust' = [k \in Keys |-> IF k \in keys /\ trust[k] = "suspect" THEN "complete" ELSE trust[k]]

\* watchGaps and SignalGap.
SignalGap ==
    /\ signals > 0
    /\ signals' = signals - 1
    /\ MarkSuspect(Keys)
    /\ UNCHANGED <<pubs, now, base, taken, order, todo, hand, value, awaiting, folded, ended, forced>>
    /\ UNCHANGED <<copies, raw, strict, dropped>>

-----------------------------------------------------------------------------
(* bootstrap in mode Strict, in the sweeper goroutine.                     *)

StrictUnchanged ==
    /\ UNCHANGED <<pubs, now, base, taken, order, todo, hand, value, folded, ended, forced>>
    /\ UNCHANGED <<copies, raw, signals, dropped>>

StrictStore ==
    /\ strict = "start"
    /\ awaiting' = TRUE /\ strict' = "stored"
    /\ UNCHANGED trust /\ StrictUnchanged

StrictMark ==
    /\ strict = "stored"
    /\ MarkSuspect(Keys) /\ strict' = "done"
    /\ UNCHANGED awaiting /\ StrictUnchanged

-----------------------------------------------------------------------------
(* The applier.                                                            *)

Idle == todo = <<>> /\ hand = Nothing

\* The buffer gives up on a missing number when it is full, and starts over with
\* another epoch: any other, so a straggler of the last incarnation makes it
\* forget where this one was.
GivesUp(p, e, s) ==
    /\ order[p].started
    /\ \/ e # order[p].epoch
       \/ s > order[p].next /\ Cardinality(order[p].held \cup {s}) >= MaxHeld

Handed(p, events) == [i \in DOMAIN events |-> <<p, events[i][1], events[i][2]>>]

\* applyMessage: an undecodable message is a loss nobody can place, the others
\* go through the reorder buffer.
ApplyMessage ==
    /\ Idle /\ raw # <<>>
    /\ raw' = Tail(raw)
    /\ LET p == Head(raw)[1]
           e == Head(raw)[2]
           s == Head(raw)[3]
           result == Order!Ordered(order[p], e, s)
       IN  IF Content[p][s].op = "garbled"
           THEN MarkSuspect(Keys) /\ UNCHANGED <<order, todo, forced>>
           ELSE /\ order' = [order EXCEPT ![p] = result.order]
                /\ todo' = Handed(p, result.out)
                /\ forced' = (forced \/ GivesUp(p, e, s))
                /\ UNCHANGED trust
    /\ UNCHANGED <<pubs, now, base, taken, hand, value, awaiting, folded, ended>>
    /\ UNCHANGED <<copies, signals, strict, dropped>>

\* FlushReorder: expire walks a map, so the publishers come in any order.
FlushReorder ==
    LET expired == {p \in Publishers : Order!Expired(order[p])}
    IN  /\ Idle /\ expired # {}
        /\ order' = [p \in Publishers |->
                       IF p \in expired THEN Order!Flushed(order[p]).order ELSE order[p]]
        /\ \E visit \in List!SetToSeqs(expired) :
              todo' = List!FlattenSeq([i \in DOMAIN visit |->
                                    Handed(visit[i], Order!Flushed(order[visit[i]]).out)])
        /\ forced' = TRUE
        /\ UNCHANGED <<pubs, now, base, taken, hand, value, trust, awaiting, folded, ended>>
        /\ UNCHANGED <<copies, raw, signals, strict, dropped>>

\* The clock, as far as the buffer looks at it.
Ages ==
    /\ order' = [p \in Publishers |-> Order!Older(order[p])]
    /\ order' # order
    /\ UNCHANGED <<pubs, now, base, taken, todo, hand, value, trust, awaiting, folded, ended, forced>>
    /\ UNCHANGED <<copies, raw, signals, strict, dropped>>

\* suspectPattern
Scope(p) == IF Partitioned THEN Owned[p] ELSE Keys

\* Mutant: a loss is the loss of the key whose event revealed it.
DoubtOneKey(p) == MarkSuspect({Content[p][Head(todo)[3]].key})

Doubt(p) == MarkSuspect(Scope(p))

\* What the tracker calls a new baseline starts the history again.
NewIncarnation(p) ==
    /\ folded' = [folded EXCEPT ![p] = {}]
    /\ ended' = [ended EXCEPT ![p] = -1]

SameIncarnation == UNCHANGED <<folded, ended>>

\* The event goes on to onSnapshotOp and fold, with the trust fold will compute.
Taken(p, s) ==
    hand' = [p |-> p, s |-> s,
             trust |-> IF Complete(p)' /\ ~awaiting THEN "complete" ELSE "suspect"]

\* applyOrdered up to the fold: what each verdict does.
ApplyOrdered ==
    /\ todo # <<>> /\ hand = Nothing
    /\ todo' = Tail(todo)
    /\ \E p \in Publishers, e \in Epochs, s \in Seqs :
       /\ Head(todo) = <<p, e, s>>
       /\ \/ /\ DropDuplicate(p, e, s) \/ DropStaleEpoch(p, e, s)
             /\ SameIncarnation /\ UNCHANGED <<hand, trust, forced>>
          \/ /\ AcceptWithGap(p, e, s)
             /\ Doubt(p) /\ Taken(p, s) /\ SameIncarnation /\ UNCHANGED forced
          \/ /\ DeclaredRestart(p, e, s) \/ ImplicitRestart(p, e, s)
             /\ Doubt(p) /\ Taken(p, s) /\ NewIncarnation(p) /\ forced' = TRUE
          \/ /\ AcceptFirstSeen(p, e, s)
             /\ Taken(p, s) /\ NewIncarnation(p) /\ UNCHANGED <<trust, forced>>
          \/ /\ Accept(p, e, s) \/ AcceptLateFill(p, e, s)
             /\ Taken(p, s) /\ SameIncarnation /\ UNCHANGED <<trust, forced>>
    /\ UNCHANGED <<order, value, awaiting, copies, raw, signals, strict, dropped>>

\* onSnapshotOp for a snapshotEnd; the event itself changes no key.
SnapshotEnd ==
    /\ hand # Nothing /\ Content[hand.p][hand.s].op = "snapshotEnd"
    /\ ClearGaps(hand.p)
    /\ ClearSuspect(Scope(hand.p))
    /\ awaiting' = FALSE
    /\ ended' = [ended EXCEPT ![hand.p] = hand.s]
    /\ folded' = [folded EXCEPT ![hand.p] = @ \cup {hand.s}]
    /\ hand' = Nothing
    /\ UNCHANGED <<order, todo, value, forced, copies, raw, signals, strict, dropped>>

\* The end of fold: Oracle.Apply.
Fold ==
    LET k == Content[hand.p][hand.s].key
    IN  /\ hand # Nothing /\ Content[hand.p][hand.s].op = "set"
        /\ value' = [value EXCEPT ![k] = hand.s]
        /\ trust' = [trust EXCEPT ![k] = hand.trust]
        /\ folded' = [folded EXCEPT ![hand.p] = @ \cup {hand.s}]
        /\ hand' = Nothing
        /\ UNCHANGED <<pubs, now, base, taken, order, todo, awaiting, ended, forced>>
        /\ UNCHANGED <<copies, raw, signals, strict, dropped>>

Applier == ApplyMessage \/ FlushReorder \/ ApplyOrdered \/ SnapshotEnd \/ Fold

IngestNext ==
    \/ \E p \in Publishers : \E s \in DOMAIN Content[p] : \E e \in Content[p][s].epochs : Arrive(p, e, s)
    \/ SignalGap
    \/ StrictStore \/ StrictMark
    \/ Applier
    \/ Ages

\* The applier and the gap watcher are loops that never wait for each other;
\* the clock runs. Nothing is assumed of the publishers and the transport.
IngestFairness ==
    WF_ingestVars(Applier) /\ WF_ingestVars(SignalGap) /\ WF_ingestVars(Ages)

IngestSpec == IngestInit /\ [][IngestNext]_ingestVars /\ IngestFairness

-----------------------------------------------------------------------------
\* The events of p for key k.
Numbers(p, k) == {s \in DOMAIN Content[p] : Content[p][s].key = k /\ Content[p][s].op # "snapshotEnd"}

\* "Complete: derived from an unbroken event stream" (docs/CORRECTNESS.md): a key
\* that may be asserted on has every event its publisher sent for it since the
\* baseline, up to the highest number seen, unless the publisher has ended a
\* snapshot since. That takes the buffer, the tracker, the scope of the mark
\* and the trust of the write together: an event lost, garbled or late for one
\* key is revealed by an event for another.
CompleteIsWhole ==
    \A p \in Known, k \in Keys : trust[k] = "complete" =>
        \A s \in Numbers(p, k) : base[p] <= s /\ s <= pubs[p].hwm =>
            \/ s \in folded[p]
            \/ s < ended[p]
            \/ hand # Nothing /\ hand.p = p /\ hand.s = s

\* Bootstrap Strict: "no key is asserted on until a publisher completes a
\* snapshot cycle". The applier may have decided on the trust of the event in
\* its hand before the flag was set, and writes it after the mark: that one key
\* is the whole leak.
StrictLeaksOne ==
    awaiting /\ strict = "done" => Cardinality({k \in Keys : trust[k] = "complete"}) <= 1

\* Reordering that the buffer absorbs is no gap: as long as it never had to let
\* go past a missing number, the tracker behind it has seen none.
ReorderingUnseen == ~forced => \A p \in Known : Complete(p)

\* Nor does it change what is expected: as long as the buffer never had to let
\* go past a missing number, every key holds the latest event received for it
\* (invariant I3).
OrderRestored ==
    ~forced => \A p \in Known, k \in Keys :
        Numbers(p, k) \cap folded[p] # {} => value[k] = List!Max(Numbers(p, k) \cap folded[p])

\* Whatever the transport delivered reaches the tracker, and every signal the
\* oracle: a hole in the numbers, a full channel or a quiet stream holds
\* nothing back for ever.
Drains ==
    <>[](raw = <<>> /\ Idle /\ signals = 0 /\ \A p \in Publishers : order[p].held = {})

\* Invariant I3 of docs/CORRECTNESS.md: "out-of-order delivery converges to it
\* once all events are delivered".
\* Does not hold: README, section 6.
ConvergesWhenDelivered ==
    (\A p \in Publishers : \A s \in DOMAIN Content[p] : copies[p][s] > 0) /\ dropped = {}
    /\ raw = <<>> /\ Idle /\ (\A p \in Publishers : order[p].held = {}) =>
        \A p \in Publishers, k \in Keys :
            Numbers(p, k) # {} => value[k] = List!Max(Numbers(p, k))

\* SignalGap: "every key is suspect until a later event refreshes it". An event
\* dropped at the full channel leaves its key suspect, once the watcher has read
\* the signal, until a later event or a snapshot.
\* Does not hold: README, section 6.
SignalHolds ==
    signals = 0 => \A d \in dropped :
        LET p == d[1]
            k == Content[p][d[2]].key
        IN  d[2] \notin folded[p] /\ trust[k] = "complete" =>
                \/ \E t \in Numbers(p, k) \cap folded[p] : t > d[2]
                \/ ended[p] > d[2]

\* A key is trusted only when nothing of it is missing.
TrustIsEarned == CompleteIsWhole /\ StrictLeaksOne

\* Everything received is applied, and in its order if it came within the window.
IngestDelivers == [](ReorderingUnseen /\ OrderRestored) /\ Drains
=============================================================================
