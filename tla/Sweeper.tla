------------------------------ MODULE Sweeper -------------------------------
(***************************************************************************)
(* pkg/sweeper: the sweep and confirm passes, which decide what is         *)
(* reported as drift. One goroutine runs them (Run); events, the           *)
(* materializer that writes the store, gaps, snapshots and the readers of  *)
(* the confirmed findings all move between its steps.                      *)
(*                                                                         *)
(* The oracle appears as what the sweeper reads of it: a version, a value, *)
(* a trust state and the age of the last event. A value is the number of   *)
(* the event that set it; the store holds the number of the last event     *)
(* that was materialized. Times are kept as ages, up to MaxAge: all the    *)
(* code does is compare differences with the window.                       *)
(***************************************************************************)
EXTENDS Integers, FiniteSets

CONSTANTS
    Keys,
    Window,             \* W
    Lag,                \* the materializer writes an event within this time
    MaxSweep,           \* a sweep takes no longer than this
    BatchSize,          \* Config.ReadBatchSize
    MaxQueue,           \* Config.MaxConfirmQueue
    LossyKeys,          \* keys whose writes the materializer may lose
    EvictableKeys,      \* keys the oracle may evict
    Adopted,            \* keys adopted at bootstrap
    MaxEvents,          \* bound: events of each key
    None

ASSUME SweeperAssumption ==
    /\ Window \in Nat \ {0} /\ Lag \in Nat /\ MaxSweep \in Nat
    /\ BatchSize \in Nat \ {0} /\ MaxQueue \in Nat \ {0}
    /\ MaxEvents \in [Keys -> Nat]

\* Ages past this are never told apart.
MaxAge == Window + MaxSweep + 1

\* An entry of the oracle, a candidate of the confirm queue, a confirmed finding.
Entry == [version : Nat, value : Nat, trust : {"complete", "suspect", "adopted"},
          age : 0 .. MaxAge]

Candidate == [key : Keys, version : Nat, age : 0 .. MaxAge, read : 0 .. MaxAge, expected : Nat]

Episode == [version : Nat, late : BOOLEAN, apart : Nat, looks : Nat]

ASSUME NoneAssumption == None \notin Entry \cup Candidate \cup Episode

VARIABLES
    oracle,     \* per key, the oracle's entry, or None
    events,     \* per key, how many events there were
    store,      \* per key, the event the store reflects
    pending,    \* keys whose last event the materializer has yet to write
    pass,       \* the pass the goroutine is in, with its local variables
    queue,      \* Sweeper.queue and queued: per key, the waiting candidate
    confirmed,  \* Sweeper.confirmed: per key, the open episode
    requeued    \* Sweeper.requeued: keys deferred to a later sweep

world == <<oracle, events, store, pending>>
sweeper == <<pass, queue, confirmed, requeued>>
vars == <<world, sweeper>>

Idle == [at |-> "idle"]

Known == {k \in Keys : oracle[k] # None}

Init ==
    /\ events = [k \in Keys |-> 0]
    /\ store = [k \in Keys |-> 0]
    /\ oracle = [k \in Keys |-> IF k \in Adopted
                                THEN [version |-> 1, value |-> 0, trust |-> "adopted", age |-> 0]
                                ELSE None]
    /\ pending = {}
    /\ pass = Idle
    /\ queue = [k \in Keys |-> None]
    /\ confirmed = [k \in Keys |-> None]
    /\ requeued = {}

-----------------------------------------------------------------------------
(* The world around the sweeper.                                           *)

\* Oracle.Apply, for an event that changes the key.
Event(k, t) ==
    /\ events[k] < MaxEvents[k]
    /\ events' = [events EXCEPT ![k] = @ + 1]
    /\ oracle' = [oracle EXCEPT ![k] = [version |-> IF @ = None THEN 1 ELSE @.version + 1,
                                        value |-> events[k] + 1, trust |-> t, age |-> 0]]
    /\ pending' = pending \cup {k}
    /\ UNCHANGED <<store, sweeper>>

\* The whole keyspace becomes suspect (MarkSuspect) or trusted (ClearSuspect).
SetTrust(from, to) ==
    /\ oracle' = [k \in Keys |-> IF k \in Known /\ oracle[k].trust = from
                                 THEN [oracle[k] EXCEPT !.trust = to] ELSE oracle[k]]
    /\ UNCHANGED <<events, store, pending, sweeper>>

Evict(k) ==
    /\ k \in EvictableKeys \cap Known
    /\ oracle' = [oracle EXCEPT ![k] = None]
    /\ UNCHANGED <<events, store, pending, sweeper>>

Materialize(k) ==
    /\ k \in pending
    /\ store' = [store EXCEPT ![k] = events[k]]
    /\ pending' = pending \ {k}
    /\ UNCHANGED <<oracle, events, sweeper>>

\* The write never reaches the store: this is drift.
Lose(k) ==
    /\ k \in pending \cap LossyKeys
    /\ pending' = pending \ {k}
    /\ UNCHANGED <<oracle, events, store, sweeper>>

Repair(k) ==
    /\ k \notin pending /\ store[k] # events[k]
    /\ store' = [store EXCEPT ![k] = events[k]]
    /\ UNCHANGED <<oracle, events, pending, sweeper>>

Older(n) == IF n < MaxAge THEN n + 1 ELSE n

\* A candidate one instant later: age is the time since seenAt, read the time
\* since the store was read.
Waited(c) == [c EXCEPT !.age = Older(@), !.read = Older(@)]

\* Time passes. The materializer keeps to its lag and a sweep to its duration.
Tick ==
    /\ \A k \in pending \cap Known : oracle[k].age < Lag
    /\ pass.at \in {"walk", "compare"} => pass.age < MaxSweep
    /\ oracle' = [k \in Keys |-> IF k \in Known THEN [oracle[k] EXCEPT !.age = Older(@)] ELSE None]
    /\ queue' = [k \in Keys |-> IF queue[k] = None THEN None ELSE Waited(queue[k])]
    /\ pass' = CASE pass.at = "walk" -> [pass EXCEPT !.age = @ + 1]
                 [] pass.at = "compare" -> [pass EXCEPT !.age = @ + 1, !.read = Older(@)]
                 [] pass.at = "reread" -> [pass EXCEPT !.due = {Waited(c) : c \in @}, !.c = Waited(@)]
                 [] pass.at \in {"confirm", "decide"} -> [pass EXCEPT !.due = {Waited(c) : c \in @}]
                 [] OTHER -> pass
    /\ UNCHANGED <<events, store, pending, confirmed, requeued>>

-----------------------------------------------------------------------------
(* The sweep.                                                              *)

\* Oracle.SettledKeys: quiet for longer than the window.
Settled == {k \in Known : oracle[k].age > Window}

\* Mutant: it is enough that the key is still tracked.
FenceKnown(k, v) == k \in Known

\* The fence: the oracle still expects what it did at version v.
Fence(k, v) == k \in Known /\ oracle[k].version = v

\* What liveEpisodes keeps.
Live(k) == confirmed[k] # None /\ Fence(k, confirmed[k].version)

LiveEpisodes == [k \in Keys |-> IF Live(k) THEN confirmed[k] ELSE None]

\* checkHealth passed; the time is captured and the keys are listed.
StartSweep ==
    /\ pass = Idle
    /\ pass' = [at |-> "walk", age |-> 0, todo |-> Settled, batch |-> <<>>]
    /\ requeued' = {}
    /\ UNCHANGED <<world, queue, confirmed>>

\* The walk comes to a key: take its version, skip it if evicted or adopted.
WalkKey(k) ==
    /\ pass.at = "walk" /\ k \in pass.todo
    /\ Cardinality(DOMAIN pass.batch) < BatchSize
    /\ pass' = [pass EXCEPT
            !.todo = @ \ {k},
            !.batch = IF k \in Known /\ oracle[k].trust # "adopted"
                      THEN [j \in DOMAIN @ \cup {k} |->
                               IF j = k THEN oracle[k].version ELSE @[j]]
                      ELSE @]
    /\ UNCHANGED <<world, queue, confirmed, requeued>>

BatchReady ==
    /\ pass.at = "walk"
    /\ \/ Cardinality(DOMAIN pass.batch) = BatchSize
       \/ pass.todo = {} /\ DOMAIN pass.batch # {}

\* What a read of the store finds: the value, and, for the properties, whether
\* the store was merely late and which value the oracle expected just then.
Look(k) ==
    [got |-> store[k], late |-> k \in pending,
     expected |-> IF k \in Known THEN oracle[k].value ELSE None]

\* ReadMany answers.
ReadBatch ==
    /\ BatchReady
    /\ pass' = [at |-> "compare", age |-> pass.age, read |-> 0, todo |-> pass.todo,
                versions |-> pass.batch, looks |-> [k \in DOMAIN pass.batch |-> Look(k)]]
    /\ UNCHANGED <<world, queue, confirmed, requeued>>

\* ReadMany or the read of one key fails, or the context is cancelled: the sweep
\* is abandoned where it is.
AbortSweep ==
    /\ BatchReady \/ pass.at = "compare"
    /\ pass' = Idle
    /\ UNCHANGED <<world, queue, confirmed, requeued>>

\* The batch without k; back to the walk when it is used up.
Compared(k) ==
    IF DOMAIN pass.looks = {k}
    THEN [at |-> "walk", age |-> pass.age, todo |-> pass.todo, batch |-> <<>>]
    ELSE [pass EXCEPT !.looks = [j \in DOMAIN @ \ {k} |-> @[j]]]

\* resolve: the key agrees, so an open episode ends.
Resolve(k) == confirmed' = [confirmed EXCEPT ![k] = None] /\ UNCHANGED queue

\* refresh: the episode goes on with the new finding.
Refresh(k, look) ==
    /\ confirmed' = [confirmed EXCEPT ![k] =
           [version |-> oracle[k].version, late |-> look.late, apart |-> @.apart,
            looks |-> IF @.version = oracle[k].version THEN @.looks ELSE 1]]
    /\ UNCHANGED queue

\* Mutant: the new candidate replaces the waiting one.
EnqueueRestarts(k) ==
    /\ queue' =
           IF queue[k] = None /\ Cardinality({j \in Keys : queue[j] # None}) >= MaxQueue
           THEN queue
           ELSE [queue EXCEPT ![k] = [key |-> k, version |-> oracle[k].version,
                                      age |-> pass.age, read |-> pass.read,
                                      expected |-> oracle[k].value]]
    /\ UNCHANGED confirmed

\* enqueue: an earlier candidate of the key stays, a full queue drops the new one.
Enqueue(k) ==
    /\ queue' =
           IF queue[k] # None \/ Cardinality({j \in Keys : queue[j] # None}) >= MaxQueue
           THEN queue
           ELSE [queue EXCEPT ![k] = [key |-> k, version |-> oracle[k].version,
                                      age |-> pass.age, read |-> pass.read,
                                      expected |-> oracle[k].value]]
    /\ UNCHANGED confirmed

\* Mutant: an episode that liveEpisodes would withdraw does not count.
HasLiveEpisode(k) == Live(k)

\* Sweeper.episode
HasEpisode(k) == confirmed[k] # None

\* The fence and handleComparison, for one key of the batch.
CompareKey(k) ==
    /\ pass.at = "compare" /\ k \in DOMAIN pass.looks
    /\ LET look == pass.looks[k]
       IN  IF ~Fence(k, pass.versions[k])
           THEN requeued' = requeued \cup {k} /\ UNCHANGED <<queue, confirmed>>
           ELSE /\ UNCHANGED requeued
                /\ CASE look.got = oracle[k].value -> Resolve(k)
                     [] look.got # oracle[k].value /\ oracle[k].trust = "suspect" ->
                            UNCHANGED <<queue, confirmed>>
                     [] look.got # oracle[k].value /\ oracle[k].trust # "suspect" ->
                            IF HasEpisode(k) THEN Refresh(k, look) ELSE Enqueue(k)
    /\ pass' = Compared(k)
    /\ UNCHANGED world

FinishSweep ==
    /\ pass.at = "walk" /\ pass.todo = {} /\ DOMAIN pass.batch = {}
    /\ pass' = Idle
    /\ confirmed' = LiveEpisodes
    /\ UNCHANGED <<world, queue, requeued>>

-----------------------------------------------------------------------------
(* The confirm pass.                                                       *)

\* Mutant: due an instant early.
DueEarly == {queue[k] : k \in {j \in Keys : queue[j] # None /\ queue[j].age + 1 >= Window}}

\* The candidates whose dueAt has come.
Due == {queue[k] : k \in {j \in Keys : queue[j] # None /\ queue[j].age >= Window}}

\* The pass goes on with these candidates.
Confirming(due) == IF due = {} THEN Idle ELSE [at |-> "confirm", due |-> due]

\* takeDue, and the store is healthy. (If not, requeueAll restores the queue.)
StartConfirm ==
    /\ pass = Idle /\ Due # {}
    /\ pass' = Confirming(Due)
    /\ queue' = [k \in Keys |-> IF queue[k] \in Due THEN None ELSE queue[k]]
    /\ UNCHANGED <<world, confirmed, requeued>>

\* The context is cancelled between two candidates: the rest is put back.
CancelConfirm ==
    /\ pass.at = "confirm"
    /\ queue' = [k \in Keys |-> IF \E c \in pass.due : c.key = k
                                THEN CHOOSE c \in pass.due : c.key = k ELSE queue[k]]
    /\ pass' = Idle
    /\ UNCHANGED <<world, confirmed, requeued>>

\* confirmOne up to the read: the key is forgotten, has moved on, or is read.
ConfirmVersion(c) ==
    /\ pass.at = "confirm" /\ c \in pass.due
    /\ pass' = IF Fence(c.key, c.version)
               THEN [at |-> "reread", due |-> pass.due \ {c}, c |-> c]
               ELSE Confirming(pass.due \ {c})
    /\ requeued' = IF c.key \in Known /\ ~Fence(c.key, c.version)
                   THEN requeued \cup {c.key} ELSE requeued
    /\ UNCHANGED <<world, queue, confirmed>>

\* Target.Get answers.
ConfirmRead ==
    /\ pass.at = "reread"
    /\ pass' = [at |-> "decide", due |-> pass.due, c |-> pass.c, look |-> Look(pass.c.key)]
    /\ UNCHANGED <<world, queue, confirmed, requeued>>

\* Target.Get fails: the candidate is given up, the key left to a later sweep.
ConfirmReadFails ==
    /\ pass.at = "reread"
    /\ pass' = Confirming(pass.due)
    /\ requeued' = requeued \cup {pass.c.key}
    /\ UNCHANGED <<world, queue, confirmed>>

\* The rest of confirmOne: a suspect key or one that agrees is dropped.
ConfirmDecide ==
    /\ pass.at = "decide"
    /\ LET c == pass.c
           k == c.key
       IN  IF ~Fence(k, c.version)
           THEN requeued' = requeued \cup {k} /\ UNCHANGED confirmed
           ELSE /\ UNCHANGED requeued
                /\ confirmed' =
                       IF oracle[k].trust = "suspect" \/ pass.look.got = oracle[k].value
                       THEN confirmed
                       ELSE [confirmed EXCEPT ![k] =
                                [version |-> c.version, late |-> pass.look.late,
                                 apart |-> c.read, looks |-> 2]]
    /\ pass' = Confirming(pass.due)
    /\ UNCHANGED <<world, queue>>

\* Confirmed() or Episodes(), from the metrics, the status or the report.
Prune ==
    /\ LiveEpisodes # confirmed
    /\ confirmed' = LiveEpisodes
    /\ UNCHANGED <<world, pass, queue, requeued>>

-----------------------------------------------------------------------------
World ==
    \/ \E k \in Keys :
          \/ \E t \in {"complete", "suspect"} : Event(k, t)
          \/ Evict(k) \/ Materialize(k) \/ Lose(k) \/ Repair(k)
    \/ SetTrust("complete", "suspect") \/ SetTrust("suspect", "complete")

Sweep ==
    \/ StartSweep \/ ReadBatch \/ AbortSweep \/ FinishSweep
    \/ \E k \in Keys : WalkKey(k) \/ CompareKey(k)

Confirm ==
    \/ StartConfirm \/ CancelConfirm \/ ConfirmRead \/ ConfirmReadFails \/ ConfirmDecide
    \/ pass.at = "confirm" /\ \E c \in pass.due : ConfirmVersion(c)

Next == World \/ Tick \/ Sweep \/ Confirm \/ Prune

\* The goroutine's tickers keep firing and none of its two passes is starved
\* (select takes a ready one at random), and no key's read fails for ever.
Fairness ==
    /\ WF_vars(Tick) /\ SF_vars(StartSweep) /\ SF_vars(StartConfirm) /\ WF_vars(FinishSweep)
    /\ WF_vars(ConfirmDecide)
    /\ \A k \in Keys :
          /\ WF_vars(Materialize(k))
          /\ SF_vars(WalkKey(k))
          /\ SF_vars(pass.at = "walk" /\ k \in DOMAIN pass.batch /\ ReadBatch)
          /\ SF_vars(CompareKey(k))
          /\ SF_vars(pass.at = "confirm" /\ \E c \in pass.due : c.key = k /\ ConfirmVersion(c))
          /\ SF_vars(pass.at = "reread" /\ pass.c.key = k /\ ConfirmRead)

Spec == Init /\ [][Next]_vars

FairSpec == Spec /\ Fairness

-----------------------------------------------------------------------------
\* Fields keep their types, and the confirm queue, with what the pass has taken
\* from it, never exceeds MaxConfirmQueue: not even when a cancelled pass puts
\* its candidates back.
TypeOK ==
    /\ oracle \in [Keys -> Entry \cup {None}]
    /\ queue \in [Keys -> Candidate \cup {None}]
    /\ \A k \in Keys : queue[k] # None => queue[k].key = k
    /\ requeued \subseteq Keys /\ pending \subseteq Keys
    /\ Cardinality({k \in Keys : queue[k] # None})
          + (IF pass.at = "confirm" THEN Cardinality(pass.due) ELSE 0) <= MaxQueue

\* Invariant I12, "A comparison is never performed against a value the oracle has
\* already superseded": when the fence lets a comparison through, in a sweep or
\* in the confirm pass, the oracle expects what it did when the store was read
\* (and, for a confirmation, what it did when the candidate was raised).
ComparesCurrent ==
    /\ pass.at = "compare" =>
          \A k \in DOMAIN pass.looks :
              Fence(k, pass.versions[k]) => oracle[k].value = pass.looks[k].expected
    /\ pass.at = "decide" /\ Fence(pass.c.key, pass.c.version) =>
          oracle[pass.c.key].value = pass.look.expected /\ pass.look.expected = pass.c.expected

\* Only drift is alerted on. An episode opens for a key that is trusted and whose
\* write is lost, not late, after two reads that are a window apart less what the
\* sweep took: a materializer that is at most Lag behind is never reported, as
\* long as Lag and the time of a sweep together stay below the window.
OpensOnDrift ==
    [][\A k \in Keys : confirmed[k] = None /\ confirmed'[k] # None =>
          /\ ~confirmed'[k].late
          /\ confirmed'[k].apart >= Window - MaxSweep
          /\ oracle[k].trust = "complete"]_vars

\* No candidate waits for a key that has an open episode: such a key would be
\* announced twice, with the second confirmation overwriting the first.
AnnouncedOnce ==
    \A k \in Keys : confirmed[k] # None =>
        /\ queue[k] = None
        /\ pass.at \in {"confirm", "reread", "decide"} => \A c \in pass.due : c.key # k
        /\ pass.at \in {"reread", "decide"} => pass.c.key # k

Drifted(k) ==
    /\ k \in Known /\ oracle[k].trust = "complete"
    /\ k \notin pending /\ store[k] # oracle[k].value

\* Lasting drift is reported for good, whatever reads fail or passes are cut short
\* in between.
DriftReported == \A k \in Keys : <>[]Drifted(k) => <>[](confirmed[k] # None)

Healed(k) == k \in Known /\ store[k] = oracle[k].value

\* A key that agrees again, for good, is withdrawn.
RepairWithdrawn ==
    \A k \in Keys : <>[](Healed(k) /\ oracle[k].trust # "adopted") => <>[](confirmed[k] = None)

\* confirm.go: "Nothing driftwatch reports as drift has been seen disagreeing only
\* once".
SeenTwice == \A k \in Keys : Live(k) => confirmed[k].looks = 2

\* Invariant I7: "Confirmed divergence implies the target genuinely disagreed at
\* two points separated by at least W".
\* Does not hold: README, section 6.
AWindowApart == \A k \in Keys : Live(k) => confirmed[k].apart >= Window

\* The confirm queue stays within its bound, and never holds a key that is already
\* announced.
QueueIsSound == TypeOK /\ AnnouncedOnce

\* Lasting drift is reported, a lasting repair withdraws the report.
DriftIsTracked == DriftReported /\ RepairWithdrawn
=============================================================================
