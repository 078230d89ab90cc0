---------------------------- MODULE OracleTrust -----------------------------
(***************************************************************************)
(* The trust half of pkg/oracle: which keys may be asserted on. A gap marks *)
(* every key suspect in O(1) by raising a floor above the generation the   *)
(* entries were written in; a later write or a snapshot lifts a key again. *)
(* Values, versions and settlement are in Oracle.                          *)
(*                                                                         *)
(* The generation and the floor are two atomics read and written outside   *)
(* the shard lock, by the applier, the gap watcher and the bootstrapper.   *)
(* So each load, each store and each section under the lock is a step of   *)
(* its own. One shard: the others have their own entries and counters.     *)
(***************************************************************************)
EXTENDS Integers, FiniteSets

CONSTANTS
    TrustKeys,
    TrustRoom,    \* shard.maxKeys
    Goroutines,
    Calls,      \* the <<goroutine, method>> pairs that may happen
    Patterns,   \* the sets of keys a publisher's glob may match
    MaxGen,     \* bound: how often the keyspace is marked
    Vacant        \* no entry

ASSUME OracleTrustAssumption == TrustRoom \in Nat \ {0} /\ MaxGen \in Nat

Trust == {"complete", "suspect", "adopted"}

VARIABLES
    slots,    \* shard.entries: trust and generation of each entry
    count,  \* the cached cardinalities fresh, adopted and suspect
    gen,    \* Oracle.suspectGen
    floor,  \* Oracle.suspectFloor
    call,   \* per goroutine, the call it is in, with its local variables
    doubt,  \* history: keys marked since they were last written or cleared
    apart   \* history: no mark or clear has overlapped another call

trustVars == <<slots, count, gen, floor, call, doubt, apart>>

Idle == [at |-> "idle"]

Occupied == {k \in TrustKeys : slots[k] # Vacant}

\* effectiveTrust
Effective(e, f) == IF e.trust = "complete" /\ e.gen < f THEN "suspect" ELSE e.trust

TrustInit ==
    /\ slots = [k \in TrustKeys |-> Vacant]
    /\ count = [fresh |-> 0, adopted |-> 0, suspect |-> 0]
    /\ gen = 0 /\ floor = 0
    /\ call = [g \in Goroutines |-> Idle]
    /\ doubt = {}
    /\ apart = TRUE

\* What an entry adds to the counters: remember adds it, forget subtracts it.
Share(e, f) ==
    [fresh   |-> IF e # Vacant /\ e.trust = "complete" /\ e.gen >= f THEN 1 ELSE 0,
     adopted |-> IF e # Vacant /\ e.trust = "adopted" THEN 1 ELSE 0,
     suspect |-> IF e # Vacant /\ e.trust = "suspect" THEN 1 ELSE 0]

\* recount
Recount(entries, f) ==
    [c \in DOMAIN count |-> Cardinality({k \in TrustKeys : Share(entries[k], f)[c] = 1})]

\* Mutant: the entry that is overwritten stays counted.
ReplaceRemembers(entries, f) ==
    [c \in DOMAIN count |->
        count[c] + Cardinality({k \in TrustKeys : entries[k] # slots[k] /\ Share(entries[k], f)[c] = 1})]

\* forget every entry that changes or goes, then remember what takes its place.
Replace(entries, f) ==
    [c \in DOMAIN count |->
        count[c] - Cardinality({k \in TrustKeys : entries[k] # slots[k] /\ Share(slots[k], f)[c] = 1})
                 + Cardinality({k \in TrustKeys : entries[k] # slots[k] /\ Share(entries[k], f)[c] = 1})]

\* The keys that may be evicted to make room for k: the choice depends on the
\* settlement index (Oracle), and any tracked key may be the one.
Outgoing(k) ==
    IF slots[k] # Vacant \/ Cardinality(Occupied) < TrustRoom THEN {{}} ELSE {{v} : v \in Occupied}

\* Write an entry for k, evicting if need be.
Written(k, e, victims) ==
    [j \in TrustKeys |-> IF j = k THEN e ELSE IF j \in victims THEN Vacant ELSE slots[j]]

Begin(g, m, c) == call[g] = Idle /\ <<g, m>> \in Calls /\ call' = [call EXCEPT ![g] = c]

Return(g) == call' = [call EXCEPT ![g] = Idle]

-----------------------------------------------------------------------------
(* Apply.                                                                  *)

ApplyFloor(g, k, t) ==
    /\ Begin(g, "Apply", [at |-> "apply.gen", key |-> k, trust |-> t, floor |-> floor])
    /\ UNCHANGED <<slots, count, gen, floor, doubt>>

\* A Complete write answers the doubts raised before it took its generation.
ApplyGen(g) ==
    LET c == call[g]
    IN  /\ c.at = "apply.gen"
        /\ call' = [call EXCEPT ![g] = [at |-> "apply.lock", key |-> c.key, trust |-> c.trust,
                                        floor |-> c.floor, gen |-> gen]]
        /\ doubt' = IF c.trust = "complete" THEN doubt \ {c.key} ELSE doubt
        /\ UNCHANGED <<slots, count, gen, floor>>

\* Mutant: the entry is stamped with the generation current under the lock.
ApplyLockLate(g) ==
    LET c == call[g]
    IN  /\ c.at = "apply.lock"
        /\ \E victims \in Outgoing(c.key) :
              /\ slots' = Written(c.key, [trust |-> c.trust, gen |-> gen], victims)
              /\ count' = Replace(slots', c.floor)
        /\ Return(g)
        /\ UNCHANGED <<gen, floor, doubt>>

ApplyLock(g) ==
    LET c == call[g]
    IN  /\ c.at = "apply.lock"
        /\ \E victims \in Outgoing(c.key) :
              /\ slots' = Written(c.key, [trust |-> c.trust, gen |-> c.gen], victims)
              /\ count' = Replace(slots', c.floor)
        /\ Return(g)
        /\ UNCHANGED <<gen, floor, doubt>>

-----------------------------------------------------------------------------
(* MarkSuspect("") and MarkSuspect(pattern).                               *)

MarkAdd(g) ==
    /\ gen < MaxGen
    /\ Begin(g, "MarkSuspect", [at |-> "mark.store", gen |-> gen + 1])
    /\ gen' = gen + 1
    /\ doubt' = TrustKeys
    /\ UNCHANGED <<slots, count, floor>>

MarkStore(g) ==
    /\ call[g].at = "mark.store"
    /\ floor' = call[g].gen
    /\ call' = [call EXCEPT ![g] = [at |-> "mark.zero"]]
    /\ UNCHANGED <<slots, count, gen, doubt>>

MarkZero(g) ==
    /\ call[g].at = "mark.zero"
    /\ count' = [count EXCEPT !.fresh = 0]
    /\ Return(g)
    /\ UNCHANGED <<slots, gen, floor, doubt>>

MarkPatternFloor(g, pattern) ==
    /\ Begin(g, "MarkPattern", [at |-> "pattern.lock", keys |-> pattern, floor |-> floor])
    /\ UNCHANGED <<slots, count, gen, floor, doubt>>

MarkPatternLock(g) ==
    LET c == call[g]
    IN  /\ c.at = "pattern.lock"
        /\ slots' = [k \in TrustKeys |-> IF k \in c.keys \cap Occupied /\ slots[k].trust = "complete"
                                  THEN [slots[k] EXCEPT !.trust = "suspect"] ELSE slots[k]]
        /\ count' = Replace(slots', c.floor)
        /\ doubt' = doubt \cup (c.keys \cap Occupied)
        /\ Return(g)
        /\ UNCHANGED <<gen, floor>>

-----------------------------------------------------------------------------
(* ClearSuspect("") and ClearSuspect(pattern).                             *)

ClearStore(g) ==
    /\ Begin(g, "ClearSuspect", [at |-> "clear.gen", keys |-> TrustKeys])
    /\ floor' = 0
    /\ UNCHANGED <<slots, count, gen, doubt>>

ClearPattern(g, pattern) ==
    /\ Begin(g, "ClearPattern", [at |-> "clear.gen", keys |-> pattern])
    /\ UNCHANGED <<slots, count, gen, floor, doubt>>

ClearGen(g) ==
    LET c == call[g]
    IN  /\ c.at = "clear.gen"
        /\ call' = [call EXCEPT ![g] = [at |-> "clear.floor", keys |-> c.keys, gen |-> gen]]
        /\ doubt' = doubt \ c.keys
        /\ UNCHANGED <<slots, count, gen, floor>>

ClearFloor(g) ==
    LET c == call[g]
    IN  /\ c.at = "clear.floor"
        /\ call' = [call EXCEPT ![g] = [at |-> "clear.lock", keys |-> c.keys, gen |-> c.gen,
                                        floor |-> floor]]
        /\ UNCHANGED <<slots, count, gen, floor, doubt>>

\* Mutant: only the entries marked by a pattern are lifted.
ClearLockPatternOnly(g) ==
    LET c == call[g]
    IN  /\ c.at = "clear.lock"
        /\ slots' = [k \in TrustKeys |-> IF k \in c.keys \cap Occupied /\ slots[k].trust = "suspect"
                                  THEN [trust |-> "complete", gen |-> c.gen] ELSE slots[k]]
        /\ count' = Recount(slots', c.floor)
        /\ Return(g)
        /\ UNCHANGED <<gen, floor, doubt>>

ClearLock(g) ==
    LET c == call[g]
    IN  /\ c.at = "clear.lock"
        /\ slots' = [k \in TrustKeys |-> IF k \in c.keys \cap Occupied /\ slots[k].trust # "adopted"
                                  THEN [trust |-> "complete", gen |-> c.gen] ELSE slots[k]]
        /\ count' = Recount(slots', c.floor)
        /\ Return(g)
        /\ UNCHANGED <<gen, floor, doubt>>

-----------------------------------------------------------------------------
(* AdoptSnapshot: one batch, its keys one by one under the lock.           *)

AdoptFloor(g, batch) ==
    /\ Begin(g, "AdoptSnapshot", [at |-> "adopt.gen", keys |-> batch, floor |-> floor])
    /\ UNCHANGED <<slots, count, gen, floor, doubt>>

AdoptGen(g) ==
    LET c == call[g]
    IN  /\ c.at = "adopt.gen"
        /\ call' = [call EXCEPT ![g] = [at |-> "adopt.lock", keys |-> c.keys, floor |-> c.floor,
                                        gen |-> gen]]
        /\ UNCHANGED <<slots, count, gen, floor, doubt>>

AdoptLock(g) ==
    LET c == call[g]
    IN  /\ c.at = "adopt.lock"
        /\ \E k \in c.keys : \E victims \in Outgoing(k) :
              /\ slots' = Written(k, [trust |-> "adopted", gen |-> c.gen], victims)
              /\ count' = Replace(slots', c.floor)
              /\ call' = [call EXCEPT ![g] = IF c.keys = {k} THEN Idle
                                             ELSE [c EXCEPT !.keys = @ \ {k}]]
        /\ UNCHANGED <<gen, floor, doubt>>

Step(g) ==
    \/ \E k \in TrustKeys, t \in {"complete", "suspect"} : ApplyFloor(g, k, t)
    \/ ApplyGen(g) \/ ApplyLock(g)
    \/ MarkAdd(g) \/ MarkStore(g) \/ MarkZero(g)
    \/ \E pattern \in Patterns : MarkPatternFloor(g, pattern) \/ ClearPattern(g, pattern)
    \/ MarkPatternLock(g)
    \/ ClearStore(g) \/ ClearGen(g) \/ ClearFloor(g) \/ ClearLock(g)
    \/ \E batch \in (SUBSET TrustKeys) \ {{}} : AdoptFloor(g, batch)
    \/ AdoptGen(g) \/ AdoptLock(g)

\* The points of MarkSuspect("") and ClearSuspect, which move the floor.
MovesFloor == {"mark.store", "mark.zero", "clear.gen", "clear.floor", "clear.lock"}

TrustNext ==
    /\ \E g \in Goroutines : Step(g)
    /\ apart' = (apart /\ \A g, h \in Goroutines :
                    g # h /\ call'[g].at \in MovesFloor => call'[h] = Idle)

TrustSpec == TrustInit /\ [][TrustNext]_trustVars

-----------------------------------------------------------------------------
Underway(points) == \E g \in Goroutines : call[g].at \in points

\* The cached cardinalities that /metrics and the status report ("fresh counts
\* entries whose trust is Complete and whose generation is at or above the
\* current suspect floor") agree with the entries whenever no call is under way,
\* after any writes, pattern marks, adoptions and evictions, and any marks and
\* clears of the whole keyspace that did not overlap another call. (One that does
\* can leave fresh wrong: the floor, the counter and the entries change apart.)
CountersExact ==
    apart /\ (\A g \in Goroutines : call[g] = Idle) => count = Recount(slots, floor)

\* A mark is never lost: once MarkSuspect has returned, a key it covered is not
\* reported Complete until a later event or a snapshot has spoken for it,
\* wherever the applier was when the mark came in. Otherwise driftwatch would
\* alert on a key whose events it may have missed.
MarkHolds ==
    ~Underway({"mark.store", "clear.gen", "clear.floor", "clear.lock"}) =>
        \A k \in doubt \cap Occupied : Effective(slots[k], floor) # "complete"

\* Invariant I10: "After a full snapshot cycle, no key is Suspect", nor is one
\* of the publisher's own keys after the cycle of a partitioned publisher,
\* whether a pattern or the floor had made it so; only a mark that came in during
\* the clear is left standing.
SnapshotRestoresTrust ==
    [][\A g \in Goroutines : call[g].at = "clear.lock" /\ call'[g] = Idle =>
          \A k \in call[g].keys \ doubt' :
              slots'[k] # Vacant => Effective(slots'[k], floor') # "suspect"]_trustVars

\* Fields keep their types, and the shard keeps to its share of the key budget
\* (invariant I8), whoever creates the entries.
TrustTypeOK ==
    /\ slots \in [TrustKeys -> [trust : Trust, gen : Nat] \cup {Vacant}]
    /\ count \in [{"fresh", "adopted", "suspect"} -> Int]
    /\ gen \in Nat /\ floor \in 0 .. gen
    /\ doubt \subseteq TrustKeys /\ apart \in BOOLEAN
    /\ Cardinality(Occupied) <= TrustRoom
=============================================================================
