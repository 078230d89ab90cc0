--------------------------- MODULE SweeperProofs ----------------------------
(***************************************************************************)
(* What is proved of the sweep and confirm passes, for any keys, window,   *)
(* lag, batch and queue size: the queue of candidates is bounded and never *)
(* holds an announced key, comparisons are against the current             *)
(* expectation, and only drift is announced.                               *)
(***************************************************************************)
EXTENDS Sweeper, FiniteSetTheorems, TLAPS

-----------------------------------------------------------------------------
(* The invariant.                                                          *)

\* What a read of the store found.
Looked == [got : Nat, late : BOOLEAN, expected : Nat \cup {None}]

\* The local variables of the pass, by the place it is at.
PassTyped ==
    \/ pass = Idle
    \/ /\ pass.at = "walk"
       /\ pass = [at |-> "walk", age |-> pass.age, todo |-> pass.todo, batch |-> pass.batch]
       /\ pass.age \in 0 .. MaxSweep /\ pass.todo \subseteq Keys
       /\ DOMAIN pass.batch \subseteq Keys
       /\ \A k \in DOMAIN pass.batch : pass.batch[k] \in Nat
    \/ /\ pass.at = "compare"
       /\ pass = [at |-> "compare", age |-> pass.age, read |-> pass.read, todo |-> pass.todo,
                  versions |-> pass.versions, looks |-> pass.looks]
       /\ pass.age \in 0 .. MaxSweep /\ pass.read \in 0 .. MaxAge /\ pass.todo \subseteq Keys
       /\ DOMAIN pass.looks \subseteq DOMAIN pass.versions /\ DOMAIN pass.versions \subseteq Keys
       /\ \A k \in DOMAIN pass.versions : pass.versions[k] \in Nat
       /\ \A k \in DOMAIN pass.looks : pass.looks[k] \in Looked
    \/ /\ pass.at = "confirm"
       /\ pass = [at |-> "confirm", due |-> pass.due]
       /\ pass.due \subseteq Candidate
    \/ /\ pass.at = "reread"
       /\ pass = [at |-> "reread", due |-> pass.due, c |-> pass.c]
       /\ pass.due \subseteq Candidate /\ pass.c \in Candidate
    \/ /\ pass.at = "decide"
       /\ pass = [at |-> "decide", due |-> pass.due, c |-> pass.c, look |-> pass.look]
       /\ pass.due \subseteq Candidate /\ pass.c \in Candidate /\ pass.look \in Looked

Typed ==
    /\ oracle \in [Keys -> Entry \cup {None}]
    /\ events \in [Keys -> Nat] /\ store \in [Keys -> Nat]
    /\ pending \subseteq Keys /\ requeued \subseteq Keys
    /\ queue \in [Keys -> Candidate \cup {None}]
    /\ \A k \in Keys : queue[k] # None => queue[k].key = k
    /\ confirmed \in [Keys -> Episode \cup {None}]
    /\ PassTyped

\* The candidates the confirm pass has taken from the queue.
Taken ==
    (IF pass.at \in {"confirm", "reread", "decide"} THEN pass.due ELSE {})
        \cup (IF pass.at \in {"reread", "decide"} THEN {pass.c} ELSE {})

Queued == {k \in Keys : queue[k] # None}

Candidates == {queue[k] : k \in Queued} \cup Taken

\* A key has one candidate at most, and none once it is announced.
OnePerKey ==
    /\ \A c \in Taken : queue[c.key] = None /\ confirmed[c.key] = None
    /\ \A c, d \in Taken : c.key = d.key => c = d
    /\ pass.at \in {"reread", "decide"} => pass.c \notin pass.due
    /\ \A k \in Queued : confirmed[k] = None

\* The keys with a candidate, which the bound of the queue is about.
Awaited == Queued \cup {c.key : c \in Taken}

WithinBound == IsFiniteSet(Awaited) /\ Cardinality(Awaited) <= MaxQueue

QueueInv == Typed /\ OnePerKey /\ WithinBound

-----------------------------------------------------------------------------
(* Types.                                                                  *)

LEMMA AgeFacts ==
    /\ MaxAge \in Nat /\ Window \in Nat /\ MaxSweep \in Nat /\ MaxAge = Window + MaxSweep + 1
    /\ \A n \in 0 .. MaxAge : Older(n) \in 0 .. MaxAge /\ n <= Older(n) /\ Older(n) <= n + 1
BY SweeperAssumption DEF MaxAge, Older

\* Waiting changes the two ages of a candidate and nothing else.
LEMMA WaitedFacts ==
    ASSUME NEW c \in Candidate
    PROVE  /\ Waited(c) \in Candidate
           /\ Waited(c).key = c.key /\ Waited(c).version = c.version
           /\ Waited(c).expected = c.expected
           /\ Waited(c).age = Older(c.age) /\ Waited(c).read = Older(c.read)
BY AgeFacts, Zenon DEF Candidate, Waited

LEMMA ConfirmingTyped ==
    ASSUME NEW due \in SUBSET Candidate
    PROVE  /\ Confirming(due) = Idle \/ Confirming(due) = [at |-> "confirm", due |-> due]
           /\ due # {} => Confirming(due) = [at |-> "confirm", due |-> due]
           /\ due = {} => Confirming(due) = Idle
BY DEF Confirming

\* What the type of the pass says at each place, ...
LEMMA AtCompare ==
    ASSUME Typed, pass.at = "compare"
    PROVE  /\ pass = [at |-> "compare", age |-> pass.age, read |-> pass.read, todo |-> pass.todo,
                      versions |-> pass.versions, looks |-> pass.looks]
           /\ pass.age \in 0 .. MaxSweep /\ pass.read \in 0 .. MaxAge /\ pass.todo \subseteq Keys
           /\ DOMAIN pass.looks \subseteq DOMAIN pass.versions /\ DOMAIN pass.versions \subseteq Keys
           /\ \A k \in DOMAIN pass.versions : pass.versions[k] \in Nat
           /\ \A k \in DOMAIN pass.looks : pass.looks[k] \in Looked
BY DEF Typed, PassTyped, Idle

LEMMA AtWalk ==
    ASSUME Typed, pass.at = "walk"
    PROVE  /\ pass = [at |-> "walk", age |-> pass.age, todo |-> pass.todo, batch |-> pass.batch]
           /\ pass.age \in 0 .. MaxSweep /\ pass.todo \subseteq Keys
           /\ DOMAIN pass.batch \subseteq Keys
           /\ \A k \in DOMAIN pass.batch : pass.batch[k] \in Nat
BY DEF Typed, PassTyped, Idle

LEMMA AtConfirm ==
    ASSUME Typed, pass.at = "confirm"
    PROVE  pass = [at |-> "confirm", due |-> pass.due] /\ pass.due \subseteq Candidate
BY DEF Typed, PassTyped, Idle

LEMMA AtReread ==
    ASSUME Typed, pass.at = "reread"
    PROVE  /\ pass = [at |-> "reread", due |-> pass.due, c |-> pass.c]
           /\ pass.due \subseteq Candidate /\ pass.c \in Candidate
BY DEF Typed, PassTyped, Idle

LEMMA AtDecide ==
    ASSUME Typed, pass.at = "decide"
    PROVE  /\ pass = [at |-> "decide", due |-> pass.due, c |-> pass.c, look |-> pass.look]
           /\ pass.due \subseteq Candidate /\ pass.c \in Candidate /\ pass.look \in Looked
BY DEF Typed, PassTyped, Idle

\* ... and what is needed for it there.
LEMMA GoesTo ==
    ASSUME NEW due, due \subseteq Candidate, NEW c, NEW look,
           \/ pass' = Idle
           \/ pass' = [at |-> "confirm", due |-> due]
           \/ pass' = [at |-> "reread", due |-> due, c |-> c] /\ c \in Candidate
           \/ pass' = [at |-> "decide", due |-> due, c |-> c, look |-> look]
              /\ c \in Candidate /\ look \in Looked
    PROVE  PassTyped'
BY DEF PassTyped

\* Time passes: where the pass is, and what it holds then.
LEMMA TickPass ==
    ASSUME Typed, Tick
    PROVE  /\ \/ pass = Idle /\ pass' = Idle
              \/ pass.at \in {"walk", "compare", "confirm", "reread", "decide"}
           /\ pass.at = "walk" => pass' = [at |-> "walk", age |-> pass.age + 1,
                                           todo |-> pass.todo, batch |-> pass.batch]
           /\ pass.at = "compare" => pass' = [at |-> "compare", age |-> pass.age + 1,
                                              read |-> Older(pass.read), todo |-> pass.todo,
                                              versions |-> pass.versions, looks |-> pass.looks]
           /\ pass.at = "confirm" => pass' = [at |-> "confirm", due |-> {Waited(c) : c \in pass.due}]
           /\ pass.at = "reread" => pass' = [at |-> "reread", due |-> {Waited(c) : c \in pass.due},
                                             c |-> Waited(pass.c)]
           /\ pass.at = "decide" => pass' = [at |-> "decide", due |-> {Waited(c) : c \in pass.due},
                                             c |-> pass.c, look |-> pass.look]
<1>1. CASE pass = Idle
  BY <1>1 DEF Tick, Idle
<1>2. CASE pass.at = "walk"
  BY <1>2, AtWalk DEF Tick
<1>3. CASE pass.at = "compare"
  BY <1>3, AtCompare, Zenon DEF Tick
<1>4. CASE pass.at = "confirm"
  BY <1>4, AtConfirm, Zenon DEF Tick
<1>5. CASE pass.at = "reread"
  BY <1>5, AtReread, Zenon DEF Tick
<1>6. CASE pass.at = "decide"
  BY <1>6, AtDecide, Zenon DEF Tick
<1> QED
  BY <1>1, <1>2, <1>3, <1>4, <1>5, <1>6 DEF Typed, PassTyped

\* A step of the sweep leaves the pass idle or in the sweep.
LEMMA SweepPass ==
    ASSUME Typed, Sweep
    PROVE  pass'.at = "idle" \/ pass'.at = "walk" \/ pass'.at = "compare"
<1>1. ASSUME NEW k \in Keys, WalkKey(k) PROVE pass'.at = "walk"
  BY <1>1, AtWalk DEF WalkKey
<1>2. ASSUME NEW k \in Keys, CompareKey(k) PROVE pass'.at = "walk" \/ pass'.at = "compare"
  <2>1. pass' = Compared(k) /\ pass.at = "compare"
    BY <1>2, Zenon DEF CompareKey
  <2> QED
    BY <2>1, AtCompare DEF Compared
<1>3. CASE StartSweep \/ ReadBatch \/ AbortSweep \/ FinishSweep
  BY <1>3 DEF StartSweep, ReadBatch, AbortSweep, FinishSweep, Idle
<1> QED
  BY <1>1, <1>2, <1>3, Zenon DEF Sweep

\* A step of the confirm pass leaves it idle or confirming, and only a read of the
\* store leaves something to decide.
LEMMA ConfirmPass ==
    ASSUME Confirm
    PROVE  \/ pass'.at = "idle" \/ pass'.at = "confirm" \/ pass'.at = "reread"
           \/ pass'.at = "decide" /\ ConfirmRead
<1>0. ASSUME NEW due, pass' = Confirming(due)
      PROVE  pass'.at = "idle" \/ pass'.at = "confirm"
  BY <1>0 DEF Confirming, Idle
<1>1. CASE StartConfirm
  BY <1>0, <1>1, Zenon DEF StartConfirm
<1>2. CASE CancelConfirm
  BY <1>2 DEF CancelConfirm, Idle
<1>3. ASSUME NEW c \in pass.due, ConfirmVersion(c)
      PROVE  pass'.at = "idle" \/ pass'.at = "confirm" \/ pass'.at = "reread"
  <2>1. \/ pass' = [at |-> "reread", due |-> pass.due \ {c}, c |-> c]
        \/ pass' = Confirming(pass.due \ {c})
    BY <1>3, Zenon DEF ConfirmVersion
  <2> QED
    BY <1>0, <2>1
<1>4. CASE ConfirmRead
  <2>1. pass' = [at |-> "decide", due |-> pass.due, c |-> pass.c, look |-> Look(pass.c.key)]
    BY <1>4, Zenon DEF ConfirmRead
  <2> QED
    BY <1>4, <2>1
<1>5. CASE ConfirmReadFails
  BY <1>0, <1>5, Zenon DEF ConfirmReadFails
<1>6. CASE ConfirmDecide
  BY <1>0, <1>6, Zenon DEF ConfirmDecide
<1> QED
  BY <1>1, <1>2, <1>3, <1>4, <1>5, <1>6, Zenon DEF Confirm

LEMMA TypedInit == Init => Typed
<1> SUFFICES ASSUME Init PROVE Typed
  OBVIOUS
<1>1. oracle \in [Keys -> Entry \cup {None}]
  BY AgeFacts DEF Init, Entry
<1> QED
  BY <1>1 DEF Init, Typed, PassTyped

LEMMA WorldTyped == ASSUME Typed, World PROVE Typed'
<1> USE SweeperAssumption
<1>1. PassTyped' /\ queue' = queue /\ confirmed' = confirmed /\ requeued' = requeued
  BY DEF Typed, World, Event, SetTrust, Evict, Materialize, Lose, Repair, sweeper, PassTyped
<1>2. /\ events' \in [Keys -> Nat] /\ store' \in [Keys -> Nat] /\ pending' \subseteq Keys
  BY DEF Typed, World, Event, SetTrust, Evict, Materialize, Lose, Repair
<1>3. oracle' \in [Keys -> Entry \cup {None}]
  <2>1. ASSUME NEW k \in Keys, NEW t \in {"complete", "suspect"}, Event(k, t)
        PROVE  oracle' \in [Keys -> Entry \cup {None}]
    BY <2>1, AgeFacts DEF Typed, Event, Entry
  <2>2. ASSUME NEW from \in {"complete", "suspect"}, NEW to \in {"complete", "suspect"}, SetTrust(from, to)
        PROVE  oracle' \in [Keys -> Entry \cup {None}]
    BY <2>2 DEF Typed, SetTrust, Entry, Known
  <2>3. ASSUME NEW k \in Keys, Evict(k) \/ Materialize(k) \/ Lose(k) \/ Repair(k)
        PROVE  oracle' \in [Keys -> Entry \cup {None}]
    BY <2>3 DEF Typed, Evict, Materialize, Lose, Repair
  <2> QED
    BY <2>1, <2>2, <2>3 DEF World
<1> QED
  BY <1>1, <1>2, <1>3 DEF Typed

LEMMA TickTyped == ASSUME Typed, Tick PROVE Typed'
<1>1. oracle' \in [Keys -> Entry \cup {None}]
  BY AgeFacts, SMTT(20) DEF Typed, Tick, Known, Entry
<1>2. /\ queue' \in [Keys -> Candidate \cup {None}]
      /\ \A k \in Keys : queue'[k] # None => queue'[k].key = k
  BY WaitedFacts DEF Typed, Tick
<1>3. PassTyped'
  <2>1. CASE pass.at = "walk"
    <3>1. pass' = [at |-> "walk", age |-> pass.age + 1, todo |-> pass.todo, batch |-> pass.batch]
      BY <2>1, TickPass
    <3>2. pass.age + 1 \in 0 .. MaxSweep
      BY <2>1, AtWalk, AgeFacts DEF Tick
    <3> QED
      BY <2>1, <3>1, <3>2, AtWalk DEF PassTyped
  <2>2. CASE pass.at = "compare"
    <3>1. pass' = [at |-> "compare", age |-> pass.age + 1, read |-> Older(pass.read), todo |-> pass.todo,
                   versions |-> pass.versions, looks |-> pass.looks]
      BY <2>2, TickPass
    <3>2. pass.age + 1 \in 0 .. MaxSweep /\ Older(pass.read) \in 0 .. MaxAge
      BY <2>2, AtCompare, AgeFacts DEF Tick
    <3> QED
      BY <2>2, <3>1, <3>2, AtCompare DEF PassTyped
  <2>3. CASE pass.at = "reread"
    <3>1. pass' = [at |-> "reread", due |-> {Waited(c) : c \in pass.due}, c |-> Waited(pass.c)]
      BY <2>3, TickPass
    <3>2. {Waited(c) : c \in pass.due} \subseteq Candidate
      BY <2>3, AtReread, WaitedFacts
    <3> QED
      BY <2>3, <3>1, <3>2, AtReread, WaitedFacts DEF PassTyped
  <2>4. CASE pass.at = "confirm"
    <3>1. pass' = [at |-> "confirm", due |-> {Waited(c) : c \in pass.due}]
      BY <2>4, TickPass
    <3>2. {Waited(c) : c \in pass.due} \subseteq Candidate
      BY <2>4, AtConfirm, WaitedFacts
    <3> QED
      BY <2>4, <3>1, <3>2, AtConfirm, WaitedFacts DEF PassTyped
  <2>5. CASE pass.at = "decide"
    <3>1. pass' = [at |-> "decide", due |-> {Waited(c) : c \in pass.due}, c |-> pass.c, look |-> pass.look]
      BY <2>5, TickPass
    <3>2. {Waited(c) : c \in pass.due} \subseteq Candidate
      BY <2>5, AtDecide, WaitedFacts
    <3> QED
      BY <2>5, <3>1, <3>2, AtDecide, WaitedFacts DEF PassTyped
  <2>6. CASE pass = Idle
    BY <2>6, TickPass DEF PassTyped, Idle
  <2> QED
    BY <2>1, <2>2, <2>3, <2>4, <2>5, <2>6 DEF Typed, PassTyped
<1> QED
  BY <1>1, <1>2, <1>3 DEF Typed, Tick

\* A record the sweep compares with an expectation.
LEMMA LookTyped == ASSUME Typed, NEW k \in Keys PROVE Look(k) \in Looked
BY DEF Typed, Look, Looked, Known, Entry

LEMMA LiveTyped ==
    ASSUME Typed
    PROVE  /\ LiveEpisodes \in [Keys -> Episode \cup {None}]
           /\ \A k \in Keys : LiveEpisodes[k] # None => confirmed[k] # None
BY DEF Typed, LiveEpisodes, Live

LEMMA CompareTyped ==
    ASSUME Typed, NEW k, CompareKey(k)
    PROVE  Typed'
<1> USE AgeFacts, NoneAssumption
<1>1. /\ pass.at = "compare" /\ k \in DOMAIN pass.looks /\ k \in Keys
      /\ pass.looks[k] \in Looked /\ pass.versions[k] \in Nat
  BY AtCompare DEF CompareKey
<1>2. PassTyped'
  <2>1. pass' = [at |-> "walk", age |-> pass.age, todo |-> pass.todo, batch |-> <<>>]
        \/ pass' = [at |-> "compare", age |-> pass.age, read |-> pass.read, todo |-> pass.todo,
                    versions |-> pass.versions,
                    looks |-> [j \in DOMAIN pass.looks \ {k} |-> pass.looks[j]]]
    BY <1>1, AtCompare, Zenon DEF CompareKey, Compared
  <2> QED
    BY <1>1, <2>1, AtCompare DEF PassTyped
<1>3. oracle' = oracle /\ events' = events /\ store' = store /\ pending' = pending
  BY DEF CompareKey, world
<1>4. requeued' \subseteq Keys
  <2>1. requeued' = requeued \cup {k} \/ requeued' = requeued
    BY Zenon DEF CompareKey
  <2> QED
    BY <1>1, <2>1 DEF Typed
<1>5. CASE queue' = queue /\ confirmed' = confirmed
  BY <1>2, <1>3, <1>4, <1>5 DEF Typed
<1>6. CASE Resolve(k)
  BY <1>1, <1>2, <1>3, <1>4, <1>6 DEF Typed, Resolve
<1>7. CASE Fence(k, pass.versions[k]) /\ HasEpisode(k) /\ Refresh(k, pass.looks[k])
  <2>1. confirmed[k] \in Episode /\ oracle[k] \in Entry
    BY <1>1, <1>7, Zenon DEF Typed, HasEpisode, Fence, Known
  <2>2. [version |-> oracle[k].version, late |-> pass.looks[k].late, apart |-> confirmed[k].apart,
         looks |-> IF confirmed[k].version = oracle[k].version THEN confirmed[k].looks ELSE 1] \in Episode
    BY <1>1, <2>1 DEF Episode, Entry, Looked
  <2>3. confirmed' \in [Keys -> Episode \cup {None}] /\ queue' = queue
    BY <1>1, <1>7, <2>2, Zenon DEF Typed, Refresh
  <2> QED
    BY <1>2, <1>3, <1>4, <2>3 DEF Typed
<1>8. CASE Fence(k, pass.versions[k]) /\ Enqueue(k)
  <2>1. [key |-> k, version |-> oracle[k].version, age |-> pass.age, read |-> pass.read,
         expected |-> oracle[k].value] \in Candidate
    BY <1>1, <1>8, AtCompare DEF Typed, Fence, Known, Entry, Candidate
  <2> QED
    BY <1>1, <1>2, <1>3, <1>4, <1>8, <2>1, Zenon DEF Typed, Enqueue
<1> QED
  BY <1>1, <1>5, <1>6, <1>7, <1>8, Zenon DEF CompareKey

LEMMA SweepTyped == ASSUME Typed, Sweep PROVE Typed'
<1> USE AgeFacts
<1>1. ASSUME NEW k \in Keys, WalkKey(k) PROVE Typed'
  <2>1. pass' = [at |-> "walk", age |-> pass.age, todo |-> pass.todo \ {k}, batch |-> pass'.batch]
    BY <1>1, AtWalk, Zenon DEF WalkKey
  <2>2. /\ DOMAIN pass'.batch \subseteq Keys
        /\ \A j \in DOMAIN pass'.batch : pass'.batch[j] \in Nat
    BY <1>1, AtWalk DEF WalkKey, Typed, Known, Entry
  <2> QED
    BY <1>1, <2>1, <2>2, AtWalk, Zenon DEF Typed, PassTyped, WalkKey, world
<1>2. CASE StartSweep
  <2>1. pass' = [at |-> "walk", age |-> 0, todo |-> Settled, batch |-> <<>>]
    BY <1>2 DEF StartSweep
  <2> QED
    BY <1>2, <2>1 DEF Typed, PassTyped, StartSweep, world, Settled, Known
<1>3. CASE ReadBatch
  <2>1. pass.at = "walk"
    BY <1>3 DEF ReadBatch, BatchReady
  <2>2. pass' = [at |-> "compare", age |-> pass.age, read |-> 0, todo |-> pass.todo,
                 versions |-> pass.batch, looks |-> [k \in DOMAIN pass.batch |-> Look(k)]]
    BY <1>3, Zenon DEF ReadBatch
  <2>3. PassTyped'
    BY <2>1, <2>2, AtWalk, LookTyped DEF PassTyped
  <2> QED
    BY <1>3, <2>3, Zenon DEF Typed, ReadBatch, world
<1>4. CASE AbortSweep
  BY <1>4, Zenon DEF Typed, PassTyped, AbortSweep, world
<1>5. CASE FinishSweep
  BY <1>5, LiveTyped DEF Typed, PassTyped, FinishSweep, world
<1> QED
  BY <1>1, <1>2, <1>3, <1>4, <1>5, CompareTyped, Zenon DEF Sweep

LEMMA DueTyped == ASSUME Typed PROVE Due \subseteq Candidate
BY DEF Typed, Due

LEMMA ConfirmTyped == ASSUME Typed, Confirm PROVE Typed'
<1>1. CASE StartConfirm
  <2>1. PassTyped'
    BY <1>1, DueTyped, GoesTo, Zenon DEF StartConfirm, Confirming
  <2> QED
    BY <1>1, <2>1 DEF Typed, StartConfirm, world
<1>2. CASE CancelConfirm
  <2>1. \A k \in Keys : (\E c \in pass.due : c.key = k) =>
            /\ (CHOOSE c \in pass.due : c.key = k) \in Candidate
            /\ (CHOOSE c \in pass.due : c.key = k).key = k
    BY <1>2, AtConfirm DEF CancelConfirm
  <2> QED
    BY <1>2, <2>1 DEF Typed, PassTyped, CancelConfirm, world
<1>3. ASSUME NEW c \in pass.due, ConfirmVersion(c) PROVE Typed'
  <2>1. PassTyped'
    BY <1>3, AtConfirm, GoesTo, Zenon DEF ConfirmVersion, Confirming
  <2>2. requeued' \subseteq Keys
    BY <1>3, AtConfirm DEF ConfirmVersion, Typed, Candidate
  <2> QED
    BY <1>3, <2>1, <2>2 DEF Typed, ConfirmVersion, world
<1>4. CASE ConfirmRead
  <2>1. PassTyped'
    BY <1>4, AtReread, LookTyped, GoesTo, Zenon DEF ConfirmRead, Candidate
  <2> QED
    BY <1>4, <2>1 DEF Typed, ConfirmRead, world
<1>5. CASE ConfirmReadFails
  <2>1. PassTyped'
    BY <1>5, AtReread, GoesTo, Zenon DEF ConfirmReadFails, Confirming
  <2> QED
    BY <1>5, <2>1, AtReread DEF Typed, ConfirmReadFails, world, Candidate
<1>6. CASE ConfirmDecide
  <2>1. PassTyped'
    BY <1>6, AtDecide, GoesTo, Zenon DEF ConfirmDecide, Confirming
  <2>2. pass.c \in Candidate /\ pass.look \in Looked /\ pass.c.key \in Keys
    BY <1>6, AtDecide DEF ConfirmDecide, Candidate
  <2>3. [version |-> pass.c.version, late |-> pass.look.late, apart |-> pass.c.read, looks |-> 2] \in Episode
    BY <2>2, AgeFacts DEF Candidate, Looked, Episode
  <2>4. confirmed' \in [Keys -> Episode \cup {None}] /\ requeued' \subseteq Keys
    BY <1>6, <2>2, <2>3 DEF ConfirmDecide, Typed
  <2> QED
    BY <1>6, <2>1, <2>4 DEF Typed, ConfirmDecide, world
<1> QED
  BY <1>1, <1>2, <1>3, <1>4, <1>5, <1>6 DEF Confirm

LEMMA TypedStep == ASSUME Typed, [Next]_vars PROVE Typed'
<1>1. CASE Prune
  BY <1>1, LiveTyped, Zenon DEF Typed, PassTyped, Prune, world
<1>2. CASE UNCHANGED vars
  BY <1>2 DEF Typed, PassTyped, vars, world, sweeper
<1> QED
  BY <1>1, <1>2, WorldTyped, TickTyped, SweepTyped, ConfirmTyped DEF Next

-----------------------------------------------------------------------------
(* The queue.                                                              *)

\* The bound holds of fewer keys too.
LEMMA FewerWithin ==
    ASSUME WithinBound, Awaited' \subseteq Awaited
    PROVE  WithinBound'
<1>1. IsFiniteSet(Awaited') /\ Cardinality(Awaited') <= Cardinality(Awaited)
  BY FS_Subset DEF WithinBound
<1>2. Cardinality(Awaited) \in Nat /\ Cardinality(Awaited') \in Nat
  BY <1>1, FS_CardinalityType DEF WithinBound
<1> QED
  BY <1>1, <1>2, SweeperAssumption DEF WithinBound

\* A step that leaves the queue alone and gives no candidate to the pass.
LEMMA NothingTaken ==
    ASSUME Typed, OnePerKey, WithinBound, queue' = queue, Taken' \subseteq Taken,
           (pass.at \in {"reread", "decide"} => pass.c \notin pass.due)',
           \A k \in Keys : confirmed'[k] # None =>
               confirmed[k] # None \/ (k \notin Queued /\ \A c \in Taken' : c.key # k),
           \A c \in Taken : c.key \in Keys
    PROVE  OnePerKey' /\ WithinBound'
<1>1. Queued' = Queued
  BY DEF Queued
<1>2. Awaited' \subseteq Awaited
  BY <1>1 DEF Awaited
<1>3. OnePerKey'
  BY <1>1 DEF OnePerKey, Queued
<1> QED
  BY <1>2, <1>3, FewerWithin

LEMMA TakenTyped ==
    ASSUME Typed
    PROVE  /\ Taken \subseteq Candidate
           /\ \A c \in Taken : c.key \in Keys
<1>1. Taken \subseteq Candidate
  BY AtConfirm, AtReread, AtDecide DEF Taken
<1> QED
  BY <1>1 DEF Candidate

LEMMA QueueInit == Init => QueueInv
<1> SUFFICES ASSUME Init PROVE QueueInv
  OBVIOUS
<1>1. Taken = {} /\ Queued = {} /\ Awaited = {}
  BY DEF Init, Taken, Queued, Awaited, Idle
<1>2. WithinBound
  BY <1>1, FS_EmptySet, SweeperAssumption DEF WithinBound
<1>3. OnePerKey
  BY <1>1 DEF OnePerKey, Init, Idle
<1> QED
  BY <1>2, <1>3, TypedInit DEF QueueInv

\* Everything but the candidates' ages is as before.
LEMMA TickQueue == ASSUME QueueInv, Tick PROVE OnePerKey' /\ WithinBound'
<1> USE DEF QueueInv
<1>1. Queued' = Queued /\ confirmed' = confirmed
  <2>1. \A k \in Keys : queue[k] # None => Waited(queue[k]) # None
    BY WaitedFacts, NoneAssumption DEF Typed
  <2> QED
    BY <2>1 DEF Tick, Queued
<1>2. CASE pass.at \notin {"confirm", "reread", "decide"}
  <2>1. Taken = {} /\ Taken' = {} /\ pass'.at = pass.at
    BY <1>2, TickPass DEF Idle, Taken
  <2> QED
    BY <1>1, <1>2, <2>1, FewerWithin DEF OnePerKey, Awaited
<1>3. CASE pass.at = "confirm"
  <2>1. pass' = [at |-> "confirm", due |-> {Waited(c) : c \in pass.due}]
    BY <1>3, TickPass
  <2>2. Taken' = {Waited(c) : c \in Taken} /\ pass'.at = "confirm"
    BY <1>3, <2>1 DEF Taken
  <2> QED
    BY <1>1, <2>2, TakenTyped, WaitedFacts, FewerWithin DEF OnePerKey, Awaited, Queued, Tick
<1>4. CASE pass.at = "reread"
  <2>1. pass' = [at |-> "reread", due |-> {Waited(c) : c \in pass.due}, c |-> Waited(pass.c)]
    BY <1>4, TickPass
  <2>2. Taken' = {Waited(c) : c \in Taken} /\ pass.due \subseteq Taken /\ pass.c \in Taken
    BY <1>4, <2>1 DEF Taken
  <2>3. pass'.c \notin pass'.due
    BY <1>4, <2>1, <2>2, TakenTyped, WaitedFacts DEF OnePerKey
  <2> QED
    BY <1>1, <2>2, <2>3, TakenTyped, WaitedFacts, FewerWithin DEF OnePerKey, Awaited, Queued, Tick
<1>5. CASE pass.at = "decide"
  <2>1. pass' = [at |-> "decide", due |-> {Waited(c) : c \in pass.due}, c |-> pass.c, look |-> pass.look]
    BY <1>5, TickPass
  <2>2. /\ Taken' = {Waited(c) : c \in pass.due} \cup {pass.c}
        /\ Taken = pass.due \cup {pass.c} /\ pass.c \notin pass.due
    BY <1>5, <2>1, Zenon DEF Taken, OnePerKey
  <2>3. pass'.c \notin pass'.due
    BY <1>5, <2>1, <2>2, TakenTyped, WaitedFacts DEF OnePerKey
  <2> QED
    BY <1>1, <2>2, <2>3, TakenTyped, WaitedFacts, FewerWithin DEF OnePerKey, Awaited, Queued, Tick
<1> QED
  BY <1>2, <1>3, <1>4, <1>5

\* enqueue only adds a key that has no episode, and only below the bound.
LEMMA CompareQueue ==
    ASSUME QueueInv, NEW k, CompareKey(k)
    PROVE  OnePerKey' /\ WithinBound'
<1> USE DEF QueueInv
<1>1. /\ pass.at = "compare" /\ pass'.at \in {"walk", "compare"} /\ k \in Keys
      /\ Taken = {} /\ Taken' = {}
  BY AtCompare, Zenon DEF CompareKey, Compared, Taken
<1>2. Awaited = Queued /\ Awaited' = Queued'
  BY <1>1, Zenon DEF Awaited
<1>3. CASE queue' = queue /\ \A j \in Keys : confirmed'[j] # None => confirmed[j] # None
  BY <1>1, <1>3, NothingTaken
<1>4. CASE HasEpisode(k) /\ Refresh(k, pass.looks[k])
  <2>1. queue' = queue /\ \A j \in Keys : confirmed'[j] # None => confirmed[j] # None
    BY <1>1, <1>4 DEF Typed, HasEpisode, Refresh
  <2> QED
    BY <1>3, <2>1
<1>5. CASE Resolve(k)
  <2>1. queue' = queue /\ \A j \in Keys : confirmed'[j] # None => confirmed[j] # None
    BY <1>1, <1>5 DEF Typed, Resolve
  <2> QED
    BY <1>3, <2>1
<1>6. CASE ~HasEpisode(k) /\ Enqueue(k) /\ queue' # queue
  <2>1. /\ confirmed' = confirmed /\ confirmed[k] = None
        /\ queue[k] = None /\ ~(Cardinality(Queued) >= MaxQueue)
        /\ \A j \in Keys \ {k} : queue'[j] = queue[j]
    BY <1>1, <1>6 DEF Typed, HasEpisode, Enqueue, Queued
  <2>2. Queued' \subseteq Queued \cup {k} /\ k \notin Queued
    BY <1>1, <2>1 DEF Queued
  <2>3. IsFiniteSet(Queued) /\ Cardinality(Queued) \in Nat
    BY <1>2, FS_CardinalityType DEF WithinBound
  <2>4. IsFiniteSet(Queued \cup {k}) /\ Cardinality(Queued \cup {k}) = Cardinality(Queued) + 1
    BY <2>2, <2>3, FS_AddElement
  <2>5. IsFiniteSet(Queued') /\ Cardinality(Queued') <= Cardinality(Queued) + 1
    BY <2>2, <2>4, FS_Subset
  <2>6. WithinBound'
    BY <1>2, <2>1, <2>3, <2>5, FS_CardinalityType, SweeperAssumption DEF WithinBound
  <2>7. OnePerKey'
    BY <1>1, <2>1, <2>2, Zenon DEF OnePerKey, Queued
  <2> QED
    BY <2>6, <2>7
<1>7. CASE ~HasEpisode(k) /\ Enqueue(k) /\ queue' = queue
  BY <1>3, <1>7 DEF Enqueue
<1>8. CASE UNCHANGED <<queue, confirmed>>
  BY <1>3, <1>8
<1> QED
  BY <1>4, <1>5, <1>6, <1>7, <1>8, Zenon DEF CompareKey

LEMMA SweepQueue == ASSUME QueueInv, Sweep PROVE OnePerKey' /\ WithinBound'
<1> USE DEF QueueInv
<1>1. ASSUME StartSweep \/ ReadBatch \/ AbortSweep \/ FinishSweep \/ \E k \in Keys : WalkKey(k)
      PROVE  OnePerKey' /\ WithinBound'
  <2>1. pass.at = "idle" \/ pass.at = "walk" \/ pass.at = "compare"
    <3>1. ASSUME NEW k \in Keys, WalkKey(k) PROVE pass.at = "walk"
      BY <3>1 DEF WalkKey
    <3>2. BatchReady => pass.at = "walk"
      BY Zenon DEF BatchReady
    <3> QED
      BY <1>1, <3>1, <3>2 DEF StartSweep, ReadBatch, AbortSweep, FinishSweep, Idle
  <2>2. pass'.at = "idle" \/ pass'.at = "walk" \/ pass'.at = "compare"
    <3>1. ASSUME NEW k \in Keys, WalkKey(k) PROVE pass'.at = "walk"
      BY <3>1, AtWalk DEF WalkKey
    <3> QED
      BY <1>1, <3>1 DEF StartSweep, ReadBatch, AbortSweep, FinishSweep, Idle
  <2>3. queue' = queue /\ \A k \in Keys : confirmed'[k] # None => confirmed[k] # None
    BY <1>1, LiveTyped, Zenon DEF StartSweep, ReadBatch, AbortSweep, FinishSweep, WalkKey
  <2>4. Taken = {} /\ Taken' = {}
    BY <2>1, <2>2 DEF Taken
  <2> QED
    BY <2>2, <2>3, <2>4, NothingTaken, Zenon
<1> QED
  BY <1>1, CompareQueue DEF Sweep

LEMMA ConfirmQueue == ASSUME QueueInv, Confirm PROVE OnePerKey' /\ WithinBound'
<1> USE DEF QueueInv
<1>0. Typed'
  BY ConfirmTyped
<1>1. CASE StartConfirm
  <2>1. Taken = {} /\ pass' = [at |-> "confirm", due |-> Due] /\ confirmed' = confirmed
    BY <1>1 DEF StartConfirm, Confirming, Taken, Idle
  <2>2. Taken' = Due /\ pass'.at = "confirm"
    BY <2>1 DEF Taken
  <2>3. /\ \A c \in Due : c.key \in Queued /\ queue[c.key] = c /\ queue'[c.key] = None
        /\ Queued' \subseteq Queued
    BY <1>1 DEF StartConfirm, Due, Typed, Queued
  <2>4. Awaited' \subseteq Awaited
    BY <2>2, <2>3 DEF Awaited
  <2> QED
    BY <2>1, <2>2, <2>3, <2>4, FewerWithin DEF OnePerKey
<1>2. CASE CancelConfirm
  <2>1. /\ Taken = pass.due /\ Taken' = {} /\ pass'.at = "idle" /\ confirmed' = confirmed
    BY <1>2 DEF CancelConfirm, Taken, Idle
  <2>2. Queued' \subseteq Queued \cup {c.key : c \in Taken}
    BY <1>2, <2>1 DEF CancelConfirm, Queued
  <2>3. Awaited' \subseteq Awaited
    BY <2>1, <2>2 DEF Awaited
  <2> QED
    BY <2>1, <2>2, <2>3, FewerWithin DEF OnePerKey
<1>3. ASSUME NEW c \in pass.due, ConfirmVersion(c) PROVE OnePerKey' /\ WithinBound'
  <2>1. pass.at = "confirm" /\ Taken = pass.due /\ queue' = queue /\ confirmed' = confirmed
    BY <1>3, Zenon DEF ConfirmVersion, Taken
  <2>2. \/ pass' = [at |-> "reread", due |-> pass.due \ {c}, c |-> c]
        \/ pass' = Idle
        \/ pass' = [at |-> "confirm", due |-> pass.due \ {c}]
    BY <1>3 DEF ConfirmVersion, Confirming
  <2>3. /\ Taken' \subseteq Taken
        /\ pass'.at \in {"reread", "decide"} => pass'.c \notin pass'.due
    BY <2>1, <2>2 DEF Taken, Idle
  <2> QED
    BY <2>1, <2>3, TakenTyped, NothingTaken, Zenon
<1>4. CASE ConfirmRead \/ ConfirmReadFails
  <2>1. pass.at = "reread" /\ Taken = pass.due \cup {pass.c} /\ queue' = queue /\ confirmed' = confirmed
    BY <1>4, Zenon DEF ConfirmRead, ConfirmReadFails, Taken
  <2>2. \/ pass' = [at |-> "decide", due |-> pass.due, c |-> pass.c, look |-> Look(pass.c.key)]
        \/ pass' = Idle
        \/ pass' = [at |-> "confirm", due |-> pass.due]
    BY <1>4, Zenon DEF ConfirmRead, ConfirmReadFails, Confirming
  <2>3. /\ Taken' \subseteq Taken
        /\ pass'.at \in {"reread", "decide"} => pass'.c \notin pass'.due
    BY <2>1, <2>2 DEF Taken, Idle, OnePerKey
  <2> QED
    BY <2>1, <2>3, TakenTyped, NothingTaken, Zenon
<1>5. CASE ConfirmDecide
  <2>1. /\ pass.at = "decide" /\ Taken = pass.due \cup {pass.c} /\ queue' = queue
        /\ pass.c \notin pass.due
    BY <1>5, Zenon DEF ConfirmDecide, Taken, OnePerKey
  <2>2. pass' = Idle \/ pass' = [at |-> "confirm", due |-> pass.due]
    BY <1>5, Zenon DEF ConfirmDecide, Confirming
  <2>3. /\ Taken' \subseteq pass.due /\ pass'.at \notin {"reread", "decide"}
    BY <2>2 DEF Taken, Idle
  <2>4. \A k \in Keys : confirmed'[k] # None => confirmed[k] # None \/ k = pass.c.key
    BY <1>5 DEF ConfirmDecide, Typed
  <2>5. pass.c.key \notin Queued /\ \A d \in Taken' : d.key # pass.c.key
    BY <2>1, <2>3 DEF OnePerKey, Queued
  <2> QED
    BY <2>1, <2>3, <2>4, <2>5, TakenTyped, NothingTaken, Zenon
<1> QED
  BY <1>1, <1>2, <1>3, <1>4, <1>5 DEF Confirm

LEMMA QueueStep == ASSUME QueueInv, [Next]_vars PROVE QueueInv'
<1> USE DEF QueueInv
<1>1. ASSUME World \/ Prune \/ UNCHANGED vars PROVE OnePerKey' /\ WithinBound'
  <2>1. pass' = pass /\ queue' = queue
    BY <1>1 DEF World, Event, SetTrust, Evict, Materialize, Lose, Repair, Prune, vars, sweeper
  <2>2. \A k \in Keys : confirmed'[k] # None => confirmed[k] # None
    BY <1>1, LiveTyped, Zenon DEF World, Event, SetTrust, Evict, Materialize, Lose, Repair, Prune, vars, sweeper
  <2>3. Taken' = Taken /\ (pass'.at \in {"reread", "decide"} => pass'.c \notin pass'.due)
    BY <2>1 DEF Taken, OnePerKey
  <2> QED
    BY <2>1, <2>2, <2>3, TakenTyped, NothingTaken
<1> QED
  BY <1>1, TypedStep, TickQueue, SweepQueue, ConfirmQueue, Zenon DEF Next

\* What the queue and the pass hold is counted once each.
LEMMA BoundCounts ==
    ASSUME QueueInv, pass.at = "confirm"
    PROVE  Cardinality(Queued) + Cardinality(pass.due) <= MaxQueue
<1> DEFINE held == {c.key : c \in pass.due}
           key == [c \in pass.due |-> c.key]
<1>1. Taken = pass.due /\ Awaited = Queued \cup held
  BY DEF Taken, Awaited
<1>2. Queued \cap held = {}
  BY <1>1 DEF QueueInv, OnePerKey, Queued
<1>3. IsFiniteSet(Queued) /\ IsFiniteSet(held)
  BY <1>1, FS_Subset DEF QueueInv, WithinBound
<1>4. key \in Injection(pass.due, held)
  BY <1>1 DEF QueueInv, OnePerKey, Injection, IsInjective
<1>5. IsFiniteSet(pass.due) /\ Cardinality(pass.due) <= Cardinality(held)
  BY <1>3, <1>4, FS_Injection
<1>6. Cardinality(Awaited) = Cardinality(Queued) + Cardinality(held) - Cardinality({})
  BY <1>1, <1>2, <1>3, FS_Union
<1>7. /\ Cardinality(Queued) \in Nat /\ Cardinality(held) \in Nat /\ Cardinality(pass.due) \in Nat
      /\ Cardinality({}) = 0
  BY <1>3, <1>5, FS_CardinalityType, FS_EmptySet
<1> QED
  BY <1>5, <1>6, <1>7, SweeperAssumption DEF QueueInv, WithinBound

\* The confirm queue with what a pass has taken from it never exceeds
\* MaxConfirmQueue, and no candidate waits, in the queue or in a pass, for a key
\* that has an open episode: such a key would be announced twice (enqueue, takeDue,
\* requeueAll and confirmOne in any order).
THEOREM QueueIsKept == Spec => []QueueIsSound
<1>1. QueueInv => QueueIsSound
  <2> SUFFICES ASSUME QueueInv PROVE QueueIsSound
    OBVIOUS
  <2>1. AnnouncedOnce
    BY DEF QueueInv, OnePerKey, AnnouncedOnce, Taken, Queued
  <2>2. Cardinality(Queued) <= MaxQueue
    <3>1. IsFiniteSet(Queued) /\ Cardinality(Queued) <= Cardinality(Awaited)
      BY FS_Subset DEF QueueInv, WithinBound, Awaited
    <3>2. Cardinality(Queued) \in Nat /\ Cardinality(Awaited) \in Nat
      BY <3>1, FS_CardinalityType DEF QueueInv, WithinBound
    <3> QED
      BY <3>1, <3>2, SweeperAssumption DEF QueueInv, WithinBound
  <2>3. Cardinality(Queued) \in Nat
    BY FS_Subset, FS_CardinalityType DEF QueueInv, WithinBound, Awaited
  <2>4. TypeOK
    BY <2>2, <2>3, BoundCounts DEF QueueInv, Typed, TypeOK, Queued
  <2> QED
    BY <2>1, <2>4 DEF QueueIsSound
<1> QED
  BY <1>1, QueueInit, QueueStep, PTL DEF Spec

-----------------------------------------------------------------------------
(* The comparisons and what is announced.                                  *)

\* A key the oracle may evict is seen in one event, so it does not come back. (One
\* that does starts its version over, and the fence can be passed by mistake.)
NoReturn == \A k \in EvictableKeys : MaxEvents[k] <= 1

\* The window leaves room for the lag of the materializer and for a sweep.
WindowSuffices == Lag + MaxSweep < Window

-----------------------------------------------------------------------------
(* The invariant.                                                          *)

\* The oracle and the materializer: a key seen in an event is tracked unless it was
\* evicted, one that is tracked and not adopted was seen, and the store follows an
\* event within Lag.
WorldSound ==
    \A k \in Keys :
        /\ k \in Known /\ oracle[k].trust # "adopted" => events[k] >= 1
        /\ k \notin Known /\ events[k] >= 1 => k \in EvictableKeys
        /\ k \in Known \cap pending => oracle[k].age <= Lag

\* A pass that holds version v of a key has seen the key, and the oracle has not
\* gone back behind v. So once the fence of v is down it stays down.
Noted(k, v) ==
    /\ events[k] >= 1
    /\ k \in Known => oracle[k].trust # "adopted" /\ v <= oracle[k].version

\* As long as the fence of a candidate stands, the oracle expects what it did, and
\* its last event is not much younger than the sweep that raised it. The store was
\* read in that sweep.
CandidateSound(c) ==
    /\ Noted(c.key, c.version)
    /\ c.age <= c.read + MaxSweep
    /\ Fence(c.key, c.version) =>
          oracle[c.key].value = c.expected /\ c.age <= oracle[c.key].age + MaxSweep

PassSound ==
    /\ pass.at = "walk" => \A k \in DOMAIN pass.batch : Noted(k, pass.batch[k])
    /\ pass.at = "compare" =>
          \A k \in DOMAIN pass.looks :
              /\ Noted(k, pass.versions[k])
              /\ Fence(k, pass.versions[k]) => oracle[k].value = pass.looks[k].expected
    /\ \A c \in Taken : c.age >= Window
    /\ pass.at = "decide" /\ Fence(pass.c.key, pass.c.version) =>
          oracle[pass.c.key].value = pass.look.expected

SweepInv == WorldSound /\ (\A c \in Candidates : CandidateSound(c)) /\ PassSound

\* What was read after a wait of the window is no longer on its way.
NotLate == pass.at = "decide" /\ Fence(pass.c.key, pass.c.version) => ~pass.look.late

-----------------------------------------------------------------------------
(* The fence.                                                              *)

LEMMA EntryTyped ==
    ASSUME Typed, NEW k \in Known
    PROVE  k \in Keys /\ oracle[k] \in Entry /\ oracle[k].version \in Nat /\ oracle[k].value \in Nat
           /\ oracle[k].age \in 0 .. MaxAge
BY DEF Typed, Known, Entry

\* What a step does to the entry of one key, and to its count of events.
LEMMA EntryStep ==
    ASSUME Typed, [Next]_vars, NEW k \in Keys
    PROVE  \/ /\ events'[k] = events[k] + 1 /\ events[k] < MaxEvents[k] /\ k \in Known'
              /\ oracle'[k].trust # "adopted" /\ oracle'[k].age = 0
              /\ k \in Known => oracle'[k].version = oracle[k].version + 1
              /\ k \in pending'
           \/ /\ events'[k] = events[k] /\ k \in EvictableKeys \cap Known /\ k \notin Known'
           \/ /\ events'[k] = events[k] /\ (k \in Known' <=> k \in Known)
              /\ k \in Known => /\ oracle'[k].version = oracle[k].version
                                /\ oracle'[k].value = oracle[k].value
                                /\ oracle[k].trust # "adopted" <=> oracle'[k].trust # "adopted"
                                /\ \/ oracle'[k].age = oracle[k].age
                                   \/ /\ Tick /\ oracle'[k].age = Older(oracle[k].age)
                                      /\ k \in pending => oracle[k].age < Lag
              /\ k \in pending' => k \in pending
<1>1. ASSUME NEW j \in Keys, NEW t \in {"complete", "suspect"}, Event(j, t), j = k
      PROVE  /\ events'[k] = events[k] + 1 /\ events[k] < MaxEvents[k] /\ k \in Known'
             /\ oracle'[k].trust # "adopted" /\ oracle'[k].age = 0
             /\ k \in Known => oracle'[k].version = oracle[k].version + 1
             /\ k \in pending'
  <2>1. oracle'[k] = [version |-> IF oracle[k] = None THEN 1 ELSE oracle[k].version + 1,
                      value |-> events[k] + 1, trust |-> t, age |-> 0]
    BY <1>1 DEF Event, Typed
  <2>2. oracle'[k] \in Entry
    BY <2>1, AgeFacts DEF Typed, Entry
  <2> QED
    BY <1>1, <2>1, <2>2, NoneAssumption DEF Event, Typed, Known
<1>2. ASSUME NEW j \in Keys, Evict(j), j = k
      PROVE  events'[k] = events[k] /\ k \in EvictableKeys \cap Known /\ k \notin Known'
  BY <1>2 DEF Evict, Typed, Known
<1>3. ASSUME NEW from \in {"complete", "suspect"}, NEW to \in {"complete", "suspect"}, SetTrust(from, to)
      PROVE  /\ events' = events /\ pending' = pending /\ (k \in Known' <=> k \in Known)
             /\ k \in Known => /\ oracle'[k].version = oracle[k].version
                               /\ oracle'[k].value = oracle[k].value
                               /\ oracle[k].trust # "adopted" <=> oracle'[k].trust # "adopted"
                               /\ oracle'[k].age = oracle[k].age
  <2>1. oracle'[k] = IF k \in Known /\ oracle[k].trust = from
                     THEN [oracle[k] EXCEPT !.trust = to] ELSE oracle[k]
    BY <1>3 DEF SetTrust
  <2>2. k \in Known => oracle[k] \in Entry /\ [oracle[k] EXCEPT !.trust = to] \in Entry
    BY EntryTyped DEF Entry
  <2> QED
    BY <1>3, <2>1, <2>2, NoneAssumption DEF SetTrust, Known, Entry
<1>4. ASSUME Tick
      PROVE  /\ events' = events /\ pending' = pending /\ (k \in Known' <=> k \in Known)
             /\ k \in Known => /\ oracle'[k].version = oracle[k].version
                               /\ oracle'[k].value = oracle[k].value
                               /\ oracle[k].trust # "adopted" <=> oracle'[k].trust # "adopted"
                               /\ oracle'[k].age = Older(oracle[k].age)
                               /\ k \in pending => oracle[k].age < Lag
  <2>1. oracle'[k] = IF k \in Known THEN [oracle[k] EXCEPT !.age = Older(@)] ELSE None
    BY <1>4 DEF Tick
  <2>2. k \in Known => oracle[k] \in Entry /\ [oracle[k] EXCEPT !.age = Older(@)] \in Entry
    BY EntryTyped, AgeFacts DEF Entry
  <2> QED
    BY <1>4, <2>1, <2>2, NoneAssumption DEF Tick, Known, Entry
<1>5. ASSUME oracle'[k] = oracle[k], events'[k] = events[k], k \in pending' => k \in pending
      PROVE  /\ events'[k] = events[k] /\ (k \in Known' <=> k \in Known)
             /\ k \in Known => /\ oracle'[k].version = oracle[k].version
                               /\ oracle'[k].value = oracle[k].value
                               /\ oracle[k].trust # "adopted" <=> oracle'[k].trust # "adopted"
                               /\ oracle'[k].age = oracle[k].age
             /\ k \in pending' => k \in pending
  BY <1>5 DEF Known
<1>6. ASSUME World
      PROVE  \/ \E t \in {"complete", "suspect"} : Event(k, t)
             \/ Evict(k)
             \/ \E from, to \in {"complete", "suspect"} : SetTrust(from, to)
             \/ oracle'[k] = oracle[k] /\ events'[k] = events[k] /\ (k \in pending' => k \in pending)
  BY <1>6 DEF World, Event, Evict, Materialize, Lose, Repair, Typed
<1>7. ASSUME Sweep \/ Confirm \/ Prune \/ UNCHANGED vars
      PROVE  oracle' = oracle /\ events' = events /\ pending' = pending
  BY <1>7, ZenonT(60) DEF Sweep, StartSweep, ReadBatch, AbortSweep, FinishSweep, WalkKey, CompareKey,
     Confirm, StartConfirm, CancelConfirm, ConfirmVersion, ConfirmRead, ConfirmReadFails,
     ConfirmDecide, Prune, vars, world
<1> QED
  BY <1>1, <1>2, <1>3, <1>4, <1>5, <1>6, <1>7, Zenon DEF Next

LEMMA WorldStep ==
    ASSUME Typed, WorldSound, [Next]_vars
    PROVE  WorldSound'
<1> SUFFICES ASSUME NEW k \in Keys
             PROVE  /\ k \in Known' /\ oracle'[k].trust # "adopted" => events'[k] >= 1
                    /\ k \notin Known' /\ events'[k] >= 1 => k \in EvictableKeys
                    /\ k \in Known' \cap pending' => oracle'[k].age <= Lag
  BY DEF WorldSound
<1>1. /\ k \in Known /\ oracle[k].trust # "adopted" => events[k] >= 1
      /\ k \notin Known /\ events[k] >= 1 => k \in EvictableKeys
      /\ k \in Known \cap pending => oracle[k].age <= Lag
      /\ events[k] \in Nat /\ Lag \in Nat
  BY SweeperAssumption DEF WorldSound, Typed
<1>2. k \in Known => /\ oracle[k].age \in 0 .. MaxAge
                     /\ Older(oracle[k].age) <= oracle[k].age + 1
                     /\ Older(oracle[k].age) \in 0 .. MaxAge
  BY EntryTyped, AgeFacts
<1> QED
  BY <1>1, <1>2, EntryStep, AgeFacts, SMTT(20)

\* Once the fence of a noted version is down it stays down; while it stands the
\* oracle expects the same, of an entry that only grows older.
LEMMA FenceStep ==
    ASSUME NoReturn, Typed, WorldSound, [Next]_vars, NEW k \in Keys, NEW v \in Nat, Noted(k, v)
    PROVE  /\ Noted(k, v)'
           /\ Fence(k, v)' => /\ Fence(k, v) /\ oracle'[k].value = oracle[k].value
                              /\ \/ oracle'[k].age = oracle[k].age
                                 \/ Tick /\ oracle'[k].age = Older(oracle[k].age)
<1>1. /\ events[k] >= 1 /\ events[k] \in Nat
      /\ k \in Known => oracle[k].trust # "adopted" /\ v <= oracle[k].version /\ oracle[k].version \in Nat
      /\ k \notin Known => k \in EvictableKeys
      /\ k \in EvictableKeys => ~(events[k] < MaxEvents[k])
  BY EntryTyped, SweeperAssumption DEF Noted, WorldSound, Typed, NoReturn
<1> QED
  BY <1>1, EntryStep DEF Noted, Fence

\* So what is sound of a candidate stays sound while it waits,
LEMMA CandidateStays ==
    ASSUME NoReturn, Typed, WorldSound, [Next]_vars, NEW c \in Candidate, CandidateSound(c)
    PROVE  CandidateSound(c)'
<1>1. c.key \in Keys /\ c.version \in Nat /\ c.age \in 0 .. MaxAge
  BY DEF Candidate
<1>2. Fence(c.key, c.version) =>
          /\ oracle[c.key].age \in 0 .. MaxAge
          /\ Older(oracle[c.key].age) >= oracle[c.key].age /\ Older(oracle[c.key].age) \in 0 .. MaxAge
  BY EntryTyped, AgeFacts DEF Fence
<1> QED
  BY <1>1, <1>2, FenceStep, AgeFacts DEF CandidateSound

\* also when it ages.
LEMMA CandidateAges ==
    ASSUME NoReturn, Typed, WorldSound, Tick, NEW c \in Candidate, CandidateSound(c)
    PROVE  CandidateSound(Waited(c))'
<1>1. /\ c.key \in Keys /\ c.version \in Nat /\ c.age \in 0 .. MaxAge /\ c.read \in 0 .. MaxAge
      /\ c.age <= c.read + MaxSweep
  BY DEF Candidate, CandidateSound
<1>2. Older(c.age) <= Older(c.read) + MaxSweep
  BY <1>1, AgeFacts DEF Older
<1>3. /\ Noted(c.key, c.version)'
      /\ Fence(c.key, c.version)' => oracle'[c.key].value = c.expected
  BY <1>1, FenceStep DEF CandidateSound, Next
<1>4. ASSUME Fence(c.key, c.version)'
      PROVE  Older(c.age) <= oracle'[c.key].age + MaxSweep
  <2>1. /\ Fence(c.key, c.version) /\ c.age <= oracle[c.key].age + MaxSweep
        /\ c.key \in Known
    BY <1>1, <1>4, FenceStep DEF CandidateSound, Next, Fence
  <2>2. oracle[c.key].age \in 0 .. MaxAge /\ oracle'[c.key].age = Older(oracle[c.key].age)
    <3>1. oracle'[c.key] = [oracle[c.key] EXCEPT !.age = Older(@)]
      BY <1>1, <2>1 DEF Tick
    <3> QED
      BY <2>1, <3>1, EntryTyped DEF Entry
  <2> QED
    BY <1>1, <2>1, <2>2, AgeFacts DEF Older
<1> QED
  BY <1>2, <1>3, <1>4, WaitedFacts DEF CandidateSound

LEMMA CandidatesTyped == ASSUME Typed PROVE Candidates \subseteq Candidate
BY TakenTyped DEF Candidates, Queued, Typed

\* Where the candidates of a step come from.
LEMMA CandidatesFrom ==
    ASSUME Typed, [Next]_vars, NEW d \in Candidates'
    PROVE  \/ d \in Candidates
           \/ Tick /\ \E c \in Candidates : d = Waited(c)
           \/ \E k \in Keys : /\ pass.at = "compare" /\ k \in DOMAIN pass.looks
                              /\ Fence(k, pass.versions[k])
                              /\ d = [key |-> k, version |-> oracle[k].version, age |-> pass.age,
                                      read |-> pass.read, expected |-> oracle[k].value]
<1>1. CASE World \/ Prune \/ UNCHANGED vars
  <2>1. pass' = pass /\ queue' = queue
    BY <1>1 DEF World, Event, SetTrust, Evict, Materialize, Lose, Repair, Prune, vars, sweeper
  <2> QED
    BY <2>1 DEF Candidates, Queued, Taken
<1>2. CASE Tick
  <2>1. \A k \in Keys : queue'[k] = IF queue[k] = None THEN None ELSE Waited(queue[k])
    BY <1>2 DEF Tick
  <2>2. CASE d \in Taken'
    <3>1. CASE pass.at = "confirm"
      <4>1. pass' = [at |-> "confirm", due |-> {Waited(c) : c \in pass.due}]
        BY <1>2, <3>1, TickPass
      <4> QED
        BY <1>2, <2>2, <3>1, <4>1 DEF Taken, Candidates
    <3>2. CASE pass.at = "reread"
      <4>1. pass' = [at |-> "reread", due |-> {Waited(c) : c \in pass.due}, c |-> Waited(pass.c)]
        BY <1>2, <3>2, TickPass
      <4> QED
        BY <1>2, <2>2, <3>2, <4>1 DEF Taken, Candidates
    <3>3. CASE pass.at = "decide"
      <4>1. pass' = [at |-> "decide", due |-> {Waited(c) : c \in pass.due}, c |-> pass.c, look |-> pass.look]
        BY <1>2, <3>3, TickPass
      <4> QED
        BY <1>2, <2>2, <3>3, <4>1 DEF Taken, Candidates
    <3>4. CASE pass.at \notin {"confirm", "reread", "decide"}
      <4>1. pass'.at = pass.at
        BY <1>2, <3>4, TickPass, SMTT(20) DEF Idle
      <4> QED
        BY <2>2, <3>4, <4>1 DEF Taken
    <3> QED
      BY <3>1, <3>2, <3>3, <3>4
  <2>3. CASE d \notin Taken'
    BY <1>2, <2>1, <2>3, Zenon DEF Candidates, Queued
  <2> QED
    BY <2>2, <2>3
<1>3. ASSUME NEW k \in Keys, CompareKey(k)
      PROVE  \/ d \in Candidates
             \/ /\ pass.at = "compare" /\ k \in DOMAIN pass.looks /\ Fence(k, pass.versions[k])
                /\ d = [key |-> k, version |-> oracle[k].version, age |-> pass.age,
                        read |-> pass.read, expected |-> oracle[k].value]
  <2>1. /\ pass.at = "compare" /\ k \in DOMAIN pass.looks /\ pass'.at \in {"walk", "compare"}
        /\ Taken' = {}
    BY <1>3, AtCompare DEF CompareKey, Compared, Taken
  <2>2. queue' = queue \/ (Fence(k, pass.versions[k]) /\ Enqueue(k))
    BY <1>3, Zenon DEF CompareKey, Resolve, Refresh
  <2>3. PICK j \in Queued' : d = queue'[j]
    BY <2>1 DEF Candidates
  <2>4. j \in Keys /\ queue'[j] # None
    BY <2>3 DEF Queued
  <2>5. CASE queue'[j] = queue[j]
    BY <2>3, <2>4, <2>5 DEF Candidates, Queued
  <2>6. CASE queue'[j] # queue[j]
    BY <2>1, <2>2, <2>3, <2>4, <2>6, SMTT(20) DEF Enqueue, Typed
  <2> QED
    BY <2>5, <2>6
<1>4. CASE StartSweep \/ ReadBatch \/ AbortSweep \/ FinishSweep \/ \E k \in Keys : WalkKey(k)
  <2>1. pass'.at = "idle" \/ pass'.at = "walk" \/ pass'.at = "compare"
    BY <1>4, SweepPass DEF Sweep
  <2>2. queue' = queue
    BY <1>4, Zenon DEF StartSweep, ReadBatch, AbortSweep, FinishSweep, WalkKey
  <2> QED
    BY <2>1, <2>2 DEF Candidates, Queued, Taken
<1>5. CASE StartConfirm
  <2>1. pass' = [at |-> "confirm", due |-> Due] /\ \A k \in Keys : queue'[k] \in {None, queue[k]}
    BY <1>5 DEF StartConfirm, Confirming
  <2>2. Taken' = Due /\ Due \subseteq Candidates
    BY <2>1, SMTT(20) DEF Taken, Due, Candidates, Queued
  <2> QED
    BY <2>1, <2>2 DEF Candidates, Queued
<1>6. CASE CancelConfirm
  <2>1. Taken = pass.due /\ Taken' = {}
    BY <1>6 DEF CancelConfirm, Taken, Idle
  <2>2. \A k \in Keys : queue'[k] = queue[k] \/ queue'[k] \in pass.due
    BY <1>6, SMTT(20) DEF CancelConfirm
  <2> QED
    BY <2>1, <2>2 DEF Candidates, Queued
<1>7. CASE pass.at = "confirm" /\ \E c \in pass.due : ConfirmVersion(c)
  <2>1. PICK c \in pass.due : ConfirmVersion(c)
    BY <1>7, SMTT(20)
  <2>2. queue' = queue /\ Taken = pass.due
    BY <1>7, <2>1, SMTT(20) DEF ConfirmVersion, Taken
  <2>3. \/ pass' = [at |-> "reread", due |-> pass.due \ {c}, c |-> c]
        \/ pass' = Idle
        \/ pass' = [at |-> "confirm", due |-> pass.due \ {c}]
    BY <2>1, SMTT(20) DEF ConfirmVersion, Confirming
  <2>4. Taken' \subseteq Taken
    BY <2>2, <2>3, SMTT(20) DEF Taken, Idle
  <2> QED
    BY <2>2, <2>4 DEF Candidates, Queued
<1>8. CASE ConfirmRead \/ ConfirmReadFails \/ ConfirmDecide
  <2>1. queue' = queue /\ pass.at \in {"reread", "decide"}
    BY <1>8, SMTT(20) DEF ConfirmRead, ConfirmReadFails, ConfirmDecide
  <2>2. \/ pass' = [at |-> "decide", due |-> pass.due, c |-> pass.c, look |-> Look(pass.c.key)]
        \/ pass' = Idle
        \/ pass' = [at |-> "confirm", due |-> pass.due]
    BY <1>8, SMTT(20) DEF ConfirmRead, ConfirmReadFails, ConfirmDecide, Confirming
  <2>3. Taken' \subseteq Taken
    BY <2>1, <2>2 DEF Taken, Idle
  <2> QED
    BY <2>1, <2>3, SMTT(20) DEF Candidates, Queued
<1> QED
  BY <1>1, <1>2, <1>3, <1>4, <1>5, <1>6, <1>7, <1>8, ZenonT(60) DEF Next, Sweep, Confirm

LEMMA CandidatesStep ==
    ASSUME NoReturn, Typed, SweepInv, [Next]_vars
    PROVE  \A d \in Candidates' : CandidateSound(d)'
<1> SUFFICES ASSUME NEW d \in Candidates' PROVE CandidateSound(d)'
  OBVIOUS
<1>1. WorldSound /\ \A c \in Candidates : c \in Candidate /\ CandidateSound(c)
  BY CandidatesTyped DEF SweepInv
<1>2. CASE d \in Candidates
  BY <1>1, <1>2, CandidateStays
<1>3. CASE Tick /\ \E c \in Candidates : d = Waited(c)
  BY <1>1, <1>3, CandidateAges
<1>4. ASSUME NEW k \in Keys, pass.at = "compare", k \in DOMAIN pass.looks, Fence(k, pass.versions[k]),
             d = [key |-> k, version |-> oracle[k].version, age |-> pass.age,
                  read |-> pass.read, expected |-> oracle[k].value]
      PROVE  CandidateSound(d)'
  <2>1. /\ k \in Known /\ oracle[k] \in Entry /\ oracle[k].version \in Nat
        /\ oracle[k].value \in Nat /\ oracle[k].age \in 0 .. MaxAge
    BY <1>4, EntryTyped DEF Fence
  <2>2. pass.age \in 0 .. MaxSweep /\ pass.read \in 0 .. MaxAge
    BY <1>4, AtCompare, SMTT(20)
  <2>3. d \in Candidate
    BY <1>4, <2>1, <2>2, AgeFacts, SMTT(20) DEF Candidate
  <2>4. Noted(k, oracle[k].version)
    BY <1>4, <2>1 DEF SweepInv, PassSound, Noted, Fence
  <2>5. CandidateSound(d)
    <3>1. d.key = k /\ d.version = oracle[k].version /\ d.expected = oracle[k].value
          /\ d.age = pass.age /\ d.read = pass.read
      BY <1>4
    <3>2. d.age <= d.read + MaxSweep /\ (Fence(k, d.version) => d.age <= oracle[k].age + MaxSweep)
      BY <2>1, <2>2, <3>1, AgeFacts
    <3> QED
      BY <2>4, <3>1, <3>2 DEF CandidateSound
  <2> QED
    BY <1>1, <2>3, <2>5, CandidateStays
<1> QED
  BY <1>2, <1>3, <1>4, CandidatesFrom

\* What the sweep has noted.
LEMMA WalkStep ==
    ASSUME NoReturn, Typed, SweepInv, [Next]_vars, pass'.at = "walk",
           NEW k \in DOMAIN pass'.batch, NEW v \in Nat, v = pass'.batch[k]
    PROVE  Noted(k, v)'
<1>0. /\ WorldSound
      /\ pass.at = "walk" => \A j \in DOMAIN pass.batch :
             j \in Keys /\ pass.batch[j] \in Nat /\ Noted(j, pass.batch[j])
  BY AtWalk DEF SweepInv, PassSound
<1>1. ASSUME pass.at = "walk", pass'.batch = pass.batch
      PROVE  Noted(k, v)'
  BY <1>0, <1>1, FenceStep, Zenon
<1>2. ASSUME NEW j \in Keys, WalkKey(j)
      PROVE  Noted(k, v)'
  <2>1. pass.at = "walk" /\ oracle' = oracle /\ events' = events /\ Known' = Known
    BY <1>2 DEF WalkKey, world, Known
  <2>2. pass'.batch = IF j \in Known /\ oracle[j].trust # "adopted"
                      THEN [i \in DOMAIN pass.batch \cup {j} |->
                               IF i = j THEN oracle[j].version ELSE pass.batch[i]]
                      ELSE pass.batch
    BY <1>2, <2>1, AtWalk, Zenon DEF WalkKey
  <2>3. CASE k = j /\ j \in Known /\ oracle[j].trust # "adopted"
    BY <1>0, <2>1, <2>2, <2>3, EntryTyped DEF Noted, WorldSound
  <2>4. CASE pass'.batch[k] = pass.batch[k] /\ k \in DOMAIN pass.batch
    BY <1>0, <2>1, <2>4 DEF Noted
  <2> QED
    BY <2>2, <2>3, <2>4
<1>3. ASSUME pass'.batch = <<>> PROVE Noted(k, v)'
  BY <1>3
<1>4. CASE World \/ Prune \/ UNCHANGED vars
  BY <1>1, <1>4 DEF World, Event, SetTrust, Evict, Materialize, Lose, Repair, Prune, vars, sweeper
<1>5. CASE Tick
  <2>1. pass.at = "walk" /\ pass'.batch = pass.batch
    BY <1>5, TickPass DEF Idle
  <2> QED
    BY <1>1, <2>1
<1>6. CASE Sweep
  <2>1. ASSUME NEW j \in Keys, CompareKey(j) PROVE pass'.batch = <<>>
    BY <2>1, AtCompare, ZenonT(30) DEF CompareKey, Compared
  <2>2. CASE StartSweep \/ ReadBatch \/ AbortSweep \/ FinishSweep
    BY <1>3, <2>2 DEF StartSweep, ReadBatch, AbortSweep, FinishSweep, Idle
  <2> QED
    BY <1>2, <1>3, <1>6, <2>1, <2>2, Zenon DEF Sweep
<1>7. CASE Confirm
  BY <1>7, ConfirmPass, Zenon
<1> QED
  BY <1>4, <1>5, <1>6, <1>7 DEF Next

\* What the store answered to a batch: the key's version and its look stay together.
LEMMA CompareStep ==
    ASSUME NoReturn, Typed, SweepInv, [Next]_vars, pass'.at = "compare",
           NEW k \in DOMAIN pass'.looks, NEW v \in Nat, v = pass'.versions[k]
    PROVE  /\ Noted(k, v)'
           /\ Fence(k, v)' => oracle'[k].value = pass'.looks[k].expected
<1>0. /\ WorldSound
      /\ pass.at = "compare" => \A j \in DOMAIN pass.looks :
             /\ j \in Keys /\ pass.versions[j] \in Nat /\ Noted(j, pass.versions[j])
             /\ Fence(j, pass.versions[j]) => oracle[j].value = pass.looks[j].expected
  BY AtCompare, Zenon DEF SweepInv, PassSound
<1>1. ASSUME pass.at = "compare", pass'.versions = pass.versions, k \in DOMAIN pass.looks,
             pass'.looks[k] = pass.looks[k]
      PROVE  /\ Noted(k, v)'
             /\ Fence(k, v)' => oracle'[k].value = pass'.looks[k].expected
  BY <1>0, <1>1, FenceStep, Zenon
<1>2. CASE World \/ Prune \/ UNCHANGED vars
  <2>1. pass' = pass
    BY <1>2, SMTT(20) DEF World, Event, SetTrust, Evict, Materialize, Lose, Repair, Prune, vars, sweeper
  <2> QED
    BY <1>1, <2>1, Zenon
<1>3. CASE Tick
  <2>1. pass.at = "compare" /\ pass'.versions = pass.versions /\ pass'.looks = pass.looks
    BY <1>3, TickPass DEF Idle
  <2> QED
    BY <1>1, <2>1
<1>4. ASSUME NEW j \in Keys, CompareKey(j)
      PROVE  /\ Noted(k, v)'
             /\ Fence(k, v)' => oracle'[k].value = pass'.looks[k].expected
  <2>1. /\ pass.at = "compare" /\ pass'.versions = pass.versions
        /\ pass'.looks = [i \in DOMAIN pass.looks \ {j} |-> pass.looks[i]]
    BY <1>4, AtCompare DEF CompareKey, Compared
  <2> QED
    BY <1>1, <2>1
<1>5. CASE ReadBatch
  <2>1. /\ pass.at = "walk" /\ pass'.versions = pass.batch /\ Known' = Known
        /\ pass'.looks = [i \in DOMAIN pass.batch |-> Look(i)] /\ oracle' = oracle /\ events' = events
    BY <1>5, SMTT(20) DEF ReadBatch, BatchReady, world, Known
  <2>2. Noted(k, v) /\ k \in DOMAIN pass.batch
    BY <2>1, SMTT(20) DEF SweepInv, PassSound
  <2>3. pass'.looks[k].expected = IF k \in Known THEN oracle[k].value ELSE None
    BY <2>1, <2>2 DEF Look
  <2> QED
    BY <2>1, <2>2, <2>3, SMTT(20) DEF Noted, Fence
<1>6. ASSUME NEW j \in Keys, WalkKey(j) PROVE FALSE
  BY <1>6, AtWalk, Zenon DEF WalkKey
<1>7. CASE StartSweep \/ AbortSweep \/ FinishSweep
  BY <1>7 DEF StartSweep, AbortSweep, FinishSweep, Idle
<1>8. CASE Confirm
  BY <1>8, ConfirmPass
<1> QED
  BY <1>2, <1>3, <1>4, <1>5, <1>6, <1>7, <1>8, Zenon DEF Next, Sweep

\* What the confirm pass waits for and finds.
LEMMA TakenStep ==
    ASSUME Typed, SweepInv, [Next]_vars, NEW d \in Taken'
    PROVE  d.age >= Window
<1>0. /\ \A c \in Taken : c \in Candidate /\ c.age >= Window
      /\ \A c \in Candidate : c.age \in 0 .. MaxAge /\ Older(c.age) >= c.age /\ Older(c.age) \in 0 .. MaxAge
  BY TakenTyped, AgeFacts DEF SweepInv, PassSound, Candidate
<1>1. d \in Taken \/ d \in Due \/ \E c \in Taken : d = Waited(c)
  <2>1. CASE World \/ Prune \/ UNCHANGED vars
    <3>1. pass' = pass
      BY <2>1 DEF World, Event, SetTrust, Evict, Materialize, Lose, Repair, Prune, vars, sweeper
    <3> QED
      BY <3>1 DEF Taken
  <2>2. CASE Tick
    <3>1. CASE pass.at = "confirm"
      <4>1. pass' = [at |-> "confirm", due |-> {Waited(c) : c \in pass.due}]
        BY <2>2, <3>1, TickPass
      <4> QED
        BY <3>1, <4>1 DEF Taken
    <3>2. CASE pass.at = "reread"
      <4>1. pass' = [at |-> "reread", due |-> {Waited(c) : c \in pass.due}, c |-> Waited(pass.c)]
        BY <2>2, <3>2, TickPass
      <4> QED
        BY <3>2, <4>1 DEF Taken
    <3>3. CASE pass.at = "decide"
      <4>1. pass' = [at |-> "decide", due |-> {Waited(c) : c \in pass.due}, c |-> pass.c, look |-> pass.look]
        BY <2>2, <3>3, TickPass
      <4> QED
        BY <3>3, <4>1 DEF Taken
    <3>4. CASE pass.at \notin {"confirm", "reread", "decide"}
      <4>1. pass'.at = pass.at
        BY <2>2, <3>4, TickPass DEF Idle
      <4> QED
        BY <3>4, <4>1, Zenon DEF Taken
    <3> QED
      BY <3>1, <3>2, <3>3, <3>4
  <2>3. CASE Sweep
    BY <2>3, SweepPass DEF Taken
  <2>4. CASE Confirm
    <3>1. ASSUME NEW c \in pass.due, ConfirmVersion(c) PROVE d \in Taken
      <4>1. \/ pass' = [at |-> "reread", due |-> pass.due \ {c}, c |-> c]
            \/ pass' = Idle
            \/ pass' = [at |-> "confirm", due |-> pass.due \ {c}]
        BY <3>1, SMTT(20) DEF ConfirmVersion, Confirming
      <4>2. Taken' \subseteq pass.due /\ pass.due \subseteq Taken
        <5>1. pass.at = "confirm"
          BY <3>1, ZenonT(30) DEF ConfirmVersion
        <5> QED
          BY <3>1, <4>1, <5>1 DEF Taken, Idle
      <4> QED
        BY <4>2, SMTT(20)
    <3>2. CASE ConfirmRead \/ ConfirmReadFails \/ ConfirmDecide
      <4>1. \/ pass' = [at |-> "decide", due |-> pass.due, c |-> pass.c, look |-> Look(pass.c.key)]
            \/ pass' = Idle
            \/ pass' = [at |-> "confirm", due |-> pass.due]
        BY <3>2, ZenonT(60) DEF ConfirmRead, ConfirmReadFails, ConfirmDecide, Confirming
      <4>2. pass.at \in {"reread", "decide"}
        BY <3>2, SMTT(20) DEF ConfirmRead, ConfirmReadFails, ConfirmDecide
      <4> QED
        BY <4>1, <4>2 DEF Taken, Idle
    <3>3. CASE StartConfirm \/ CancelConfirm
      BY <3>3 DEF StartConfirm, CancelConfirm, Confirming, Taken, Idle
    <3> QED
      BY <2>4, <3>1, <3>2, <3>3, Zenon DEF Confirm
  <2> QED
    BY <2>1, <2>2, <2>3, <2>4, SMTT(20) DEF Next
<1>2. \A c \in Due : c.age >= Window
  BY Zenon DEF Due
<1> QED
  BY <1>0, <1>1, <1>2, WaitedFacts, AgeFacts, SMTT(20)

\* The re-read of a candidate finds what the oracle expects, and, a window after
\* the first read, nothing that is merely late.
LEMMA DecideStep ==
    ASSUME NoReturn, Typed, SweepInv, [Next]_vars, pass'.at = "decide",
           NEW c, c = pass'.c, Fence(c.key, c.version)'
    PROVE  /\ oracle'[c.key].value = pass'.look.expected
           /\ WindowSuffices /\ NotLate => ~pass'.look.late
<1>1. ASSUME pass.at = "decide", pass'.c = pass.c, pass'.look = pass.look
      PROVE  /\ oracle'[c.key].value = pass'.look.expected
             /\ WindowSuffices /\ NotLate => ~pass'.look.late
  <2>1. c \in Candidate /\ c.key \in Keys /\ c.version \in Nat /\ c = pass.c
    BY <1>1, AtDecide, Zenon DEF Candidate
  <2>2. Noted(c.key, c.version) /\ WorldSound
    BY <1>1, <2>1 DEF SweepInv, Candidates, Taken, CandidateSound
  <2>3. Fence(c.key, c.version) /\ oracle'[c.key].value = oracle[c.key].value
    BY <2>1, <2>2, FenceStep, Zenon
  <2> QED
    BY <1>1, <2>1, <2>3 DEF SweepInv, PassSound, NotLate
<1>2. CASE World \/ Prune \/ UNCHANGED vars
  <2>1. pass' = pass
    BY <1>2 DEF World, Event, SetTrust, Evict, Materialize, Lose, Repair, Prune, vars, sweeper
  <2> QED
    BY <1>1, <2>1
<1>3. CASE Tick
  <2>1. pass.at = "decide" /\ pass'.c = pass.c /\ pass'.look = pass.look
    BY <1>3, TickPass DEF Idle
  <2> QED
    BY <1>1, <2>1
<1>4. CASE Sweep
  BY <1>4, SweepPass
<1>5. CASE ConfirmRead
  <2>1. /\ pass.at = "reread" /\ pass' = [at |-> "decide", due |-> pass.due, c |-> pass.c,
                                         look |-> Look(pass.c.key)]
        /\ oracle' = oracle /\ Known' = Known /\ Fence(c.key, c.version)
    BY <1>5 DEF ConfirmRead, world, Known, Fence
  <2>2. c = pass.c /\ pass'.look = Look(c.key) /\ c \in Taken /\ c \in Candidate /\ c.key \in Keys
    BY <2>1, AtReread, ZenonT(30) DEF Taken, Candidate
  <2>3. oracle'[c.key].value = pass'.look.expected
    BY <2>1, <2>2 DEF Look, Fence
  <2>4. ASSUME WindowSuffices, c.key \in pending PROVE FALSE
    <3>1. c.age >= Window /\ c.age <= oracle[c.key].age + MaxSweep /\ oracle[c.key].age <= Lag
      BY <2>1, <2>2, <2>4, Zenon DEF SweepInv, PassSound, WorldSound, Candidates, CandidateSound, Fence
    <3>2. c.age \in Nat /\ oracle[c.key].age \in Nat
      <4>1. c.key \in Known /\ c.age \in 0 .. MaxAge
        BY <2>1, <2>2, Zenon DEF Candidate, Fence
      <4> QED
        BY <4>1, EntryTyped, AgeFacts
    <3> QED
      BY <2>4, <3>1, <3>2, SweeperAssumption DEF WindowSuffices
  <2>5. pass'.look.late = (c.key \in pending)
    BY <2>2 DEF Look
  <2>6. WindowSuffices => ~pass'.look.late
    BY <2>4, <2>5, Zenon
  <2> QED
    BY <2>3, <2>6, Zenon
<1>6. CASE Confirm /\ ~ConfirmRead
  BY <1>6, ConfirmPass, Zenon
<1> QED
  BY <1>2, <1>3, <1>4, <1>5, <1>6, ZenonT(30) DEF Next

LEMMA SweepInit ==
    ASSUME Init
    PROVE  SweepInv /\ NotLate
<1>1. /\ Candidates = {} /\ Taken = {} /\ pass.at = "idle"
      /\ pending = {}
  BY DEF Init, Candidates, Taken, Queued, Idle
<1>2. \A k \in Keys : events[k] = 0 /\ (k \in Known => oracle[k].trust = "adopted")
  BY SMTT(20) DEF Init, Known
<1>3. WorldSound
  BY <1>1, <1>2 DEF WorldSound
<1> QED
  BY <1>1, <1>3, Zenon DEF SweepInv, PassSound, NotLate

LEMMA SweepStep ==
    ASSUME NoReturn, Typed, SweepInv, [Next]_vars
    PROVE  SweepInv' /\ (WindowSuffices /\ NotLate => NotLate')
<1>1. PassTyped'
  BY TypedStep DEF Typed
<1>2. (pass.at = "walk" => \A k \in DOMAIN pass.batch : Noted(k, pass.batch[k]))'
  <2>1. ASSUME pass'.at = "walk", NEW k \in DOMAIN pass'.batch
        PROVE  /\ events'[k] >= 1
               /\ k \in Known' => oracle'[k].trust # "adopted" /\ pass'.batch[k] <= oracle'[k].version
    <3>1. pass'.batch[k] \in Nat
      BY <1>1, <2>1 DEF PassTyped, Idle
    <3>2. PICK v \in Nat : v = pass'.batch[k]
      BY <3>1
    <3>3. Noted(k, v)'
      BY <2>1, <3>2, WalkStep, Zenon
    <3> QED
      BY <3>2, <3>3, ZenonT(30) DEF Noted
  <2> QED
    BY <2>1 DEF Noted
<1>3. (pass.at = "compare" => \A k \in DOMAIN pass.looks :
           /\ Noted(k, pass.versions[k])
           /\ Fence(k, pass.versions[k]) => oracle[k].value = pass.looks[k].expected)'
  <2>1. ASSUME pass'.at = "compare", NEW k \in DOMAIN pass'.looks
        PROVE  /\ events'[k] >= 1
               /\ k \in Known' => oracle'[k].trust # "adopted" /\ pass'.versions[k] <= oracle'[k].version
               /\ k \in Known' /\ oracle'[k].version = pass'.versions[k] =>
                     oracle'[k].value = pass'.looks[k].expected
    <3>1. pass'.versions[k] \in Nat
      BY <1>1, <2>1 DEF PassTyped, Idle
    <3>2. PICK v \in Nat : v = pass'.versions[k]
      BY <3>1
    <3>3. Noted(k, v)' /\ (Fence(k, v)' => oracle'[k].value = pass'.looks[k].expected)
      BY <2>1, <3>2, CompareStep
    <3> QED
      BY <3>2, <3>3, Zenon DEF Noted, Fence
  <2> QED
    BY <2>1 DEF Noted, Fence
<1>4. ASSUME pass'.at = "decide",
             pass'.c.key \in Known' /\ oracle'[pass'.c.key].version = pass'.c.version
      PROVE  /\ oracle'[pass'.c.key].value = pass'.look.expected
             /\ WindowSuffices /\ NotLate => ~pass'.look.late
  <2>1. PICK c : c = pass'.c
    OBVIOUS
  <2>2. Fence(c.key, c.version)'
    BY <1>4, <2>1, Zenon DEF Fence
  <2> QED
    BY <1>4, <2>1, <2>2, DecideStep
<1>5. PassSound'
  BY <1>2, <1>3, <1>4, TakenStep DEF PassSound, Fence
<1>6. SweepInv'
  BY <1>5, WorldStep, CandidatesStep DEF SweepInv
<1> QED
  BY <1>4, <1>6, Zenon DEF NotLate, Fence

\* Invariant I12 for any keys, window, lag and sizes, as long as no evicted key comes
\* back: what the fence lets through is compared with what the oracle expected when
\* the store was read.
THEOREM ComparesTheCurrent == NoReturn => (Spec => []ComparesCurrent)
<1> SUFFICES ASSUME NoReturn PROVE Spec => []ComparesCurrent
  OBVIOUS
<1>1. Init => Typed /\ SweepInv
  BY TypedInit, SweepInit
<1>2. Typed /\ SweepInv /\ [Next]_vars => (Typed /\ SweepInv)'
  BY TypedStep, SweepStep
<1>3. Typed /\ SweepInv => ComparesCurrent
  <2> SUFFICES ASSUME Typed, SweepInv PROVE ComparesCurrent
    BY ZenonT(30)
  <2>1. ASSUME pass.at = "decide", Fence(pass.c.key, pass.c.version)
        PROVE  oracle[pass.c.key].value = pass.c.expected
    BY <2>1 DEF SweepInv, CandidateSound, Candidates, Taken
  <2> QED
    BY <2>1, Zenon DEF ComparesCurrent, SweepInv, PassSound
<1> QED
  BY <1>1, <1>2, <1>3, PTL DEF Spec

\* Only drift is announced, for any keys, lag and sizes and a window that covers the
\* lag and a sweep: an episode opens on a trusted key whose write is lost, after
\* two reads at least the window less a sweep apart.
THEOREM OpensOnlyOnDrift == NoReturn /\ WindowSuffices => (Spec => OpensOnDrift)
<1> SUFFICES ASSUME NoReturn, WindowSuffices PROVE Spec => OpensOnDrift
  OBVIOUS
<1> DEFINE Inv == Typed /\ SweepInv /\ NotLate
<1>1. Init => Inv
  BY TypedInit, SweepInit
<1>2. Inv /\ [Next]_vars => Inv'
  BY TypedStep, SweepStep, Zenon
<1>3. Inv /\ [Next]_vars =>
         [\A k \in Keys : confirmed[k] = None /\ confirmed'[k] # None =>
             /\ ~confirmed'[k].late
             /\ confirmed'[k].apart >= Window - MaxSweep
             /\ oracle[k].trust = "complete"]_vars
  <2> SUFFICES ASSUME Typed, SweepInv, NotLate, Next, NEW k \in Keys,
                      confirmed[k] = None, confirmed'[k] # None
               PROVE  /\ ~confirmed'[k].late
                      /\ confirmed'[k].apart >= Window - MaxSweep
                      /\ oracle[k].trust = "complete"
    OBVIOUS
  <2>1. confirmed \in [Keys -> Episode \cup {None}]
    BY DEF Typed
  <2>2. ConfirmDecide
    <3>1. ASSUME NEW j \in Keys, CompareKey(j) PROVE FALSE
      <4>1. \/ confirmed' = confirmed
            \/ confirmed' = [confirmed EXCEPT ![j] = None]
            \/ confirmed[j] # None /\ \E e : confirmed' = [confirmed EXCEPT ![j] = e]
        BY <3>1, ZenonT(60) DEF CompareKey, Resolve, Refresh, Enqueue, HasEpisode
      <4> QED
        BY <2>1, <4>1
    <3>2. ASSUME confirmed' = LiveEpisodes PROVE FALSE
      BY <3>2 DEF LiveEpisodes
    <3>3. World \/ Tick \/ Prune \/ Sweep \/ Confirm
      BY DEF Next
    <3>4. ASSUME Confirm PROVE ConfirmDecide
      BY <3>4, Zenon DEF Confirm, StartConfirm, CancelConfirm, ConfirmVersion, ConfirmRead, ConfirmReadFails
    <3>5. ASSUME Sweep PROVE FALSE
      BY <3>1, <3>2, <3>5, Zenon DEF Sweep, StartSweep, WalkKey, ReadBatch, AbortSweep, FinishSweep
    <3>6. ASSUME World PROVE FALSE
      BY <3>6, Zenon DEF World, Event, SetTrust, Evict, Materialize, Lose, Repair, sweeper
    <3> QED
      BY <3>2, <3>3, <3>4, <3>5, <3>6, Zenon DEF Tick, Prune
  <2> DEFINE c == pass.c
  <2>3. /\ pass.at = "decide" /\ k = c.key /\ Fence(k, c.version) /\ oracle[k].trust # "suspect"
        /\ confirmed'[k] = [version |-> c.version, late |-> pass.look.late, apart |-> c.read, looks |-> 2]
    BY <2>1, <2>2, Zenon DEF ConfirmDecide
  <2>4. c \in Taken /\ c \in Candidate /\ CandidateSound(c) /\ c.age >= Window
    BY <2>3, AtDecide, Zenon DEF SweepInv, PassSound, Candidates, Taken
  <2>5. ~confirmed'[k].late
    BY <2>3, SMTT(20) DEF NotLate
  <2>6. c.read >= Window - MaxSweep
    BY <2>4, AgeFacts, SMTT(20) DEF CandidateSound, Candidate
  <2>7. oracle[k].trust = "complete"
    <3>1. oracle[k].trust # "adopted" /\ oracle[k] \in Entry
      BY <2>3, <2>4, EntryTyped, Zenon DEF CandidateSound, Noted, Fence
    <3> QED
      BY <2>3, <3>1 DEF Entry
  <2> QED
    BY <2>3, <2>5, <2>6, <2>7
<1> QED
  BY <1>1, <1>2, <1>3, PTL DEF Spec, OpensOnDrift
=============================================================================
