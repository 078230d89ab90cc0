---------------------------- MODULE OracleProofs ----------------------------
(***************************************************************************)
(* What is proved of the oracle, in three parts that share no lemmas.      *)
(*                                                                         *)
(* Trust (OracleTrust). A mark of the keyspace is not lost, and a snapshot *)
(* restores trust, for any keys, patterns, number of marks and number of   *)
(* goroutines that adopt, provided one goroutine writes and clears (the    *)
(* applier) and one marks the whole keyspace. The argument follows the     *)
(* generations. A generation taken before a mark is below the floor, or    *)
(* below the one its marker is about to store (Beneath); whatever could    *)
(* still write a key in doubt as Complete, the entry itself or a call that *)
(* has taken its generation, is beneath.                                   *)
(*                                                                         *)
(* Expectations (Oracle). For any keys, windows, bucket width and key      *)
(* budget the settlement index lists exactly the settled keys whatever     *)
(* window is chosen next, the shard keeps to its budget, and eviction      *)
(* takes a coldest key. Each tracked key is in one place of the index: in  *)
(* the bucket of its last event, or, once it is past every legal window,   *)
(* in the coalesced set. That it is past them when it is promoted rests on *)
(* buckets being ordered as times are (BucketOrder).                       *)
(*                                                                         *)
(* The counters (OracleTrust). For any finite set of keys and whoever      *)
(* calls what, the cached cardinalities are exact as long as no mark or    *)
(* clear of the keyspace overlaps another call. The floor each call has    *)
(* loaded is then the floor, so what forget and remember change is what    *)
(* counting again would find; a mark leaves nothing fresh, because every   *)
(* entry is older than the generation it has just taken.                   *)
(***************************************************************************)
EXTENDS OracleTrust, Oracle, FiniteSetTheorems, WellFoundedInduction, TLAPS

-----------------------------------------------------------------------------
(* Trust: who calls what, and the invariant.                               *)

ApplierCalls == {"Apply", "MarkPattern", "ClearSuspect", "ClearPattern"}

\* Who calls what: the applier alone folds, marks patterns and clears, and one
\* goroutine marks the whole keyspace. (In check.go it is the gap watcher that does,
\* and the applier when a payload cannot be decoded; README, section 6, says what
\* two marks at once do.) Patterns match keys.
Roles ==
    /\ \A x, y \in Calls : x[2] \in ApplierCalls /\ y[2] \in ApplierCalls => x[1] = y[1]
    /\ \A x, y \in Calls : x[2] = "MarkSuspect" /\ y[2] = "MarkSuspect" => x[1] = y[1]
    /\ Patterns \subseteq SUBSET TrustKeys

ApplierPoints == {"apply.gen", "apply.lock", "pattern.lock", "clear.gen", "clear.floor", "clear.lock"}

\* Each call is one its goroutine may make, so no two are the applier's and no two
\* are marks.
InRole ==
    /\ call = [g \in Goroutines |-> call[g]]
    /\ \A g \in Goroutines :
          /\ call[g].at = "adopt.lock" => {"at", "gen"} \subseteq DOMAIN call[g]
          /\ call[g].at \in ApplierPoints => \E m \in ApplierCalls : <<g, m>> \in Calls
          /\ call[g].at \in {"mark.store", "mark.zero"} => <<g, "MarkSuspect">> \in Calls
          /\ call[g].at = "clear.gen" => call[g].keys \subseteq TrustKeys
          /\ call[g].at \in {"clear.floor", "clear.lock"} => call[g].keys \subseteq TrustKeys

\* No generation is ahead of the counter, and the marker's is the latest.
Bounded ==
    /\ gen \in Nat /\ floor \in Nat /\ floor <= gen
    /\ slots = [k \in TrustKeys |-> slots[k]]
    /\ \A k \in TrustKeys : slots[k] # Vacant =>
          slots[k] \in [trust : Trust, gen : Nat] /\ slots[k].gen <= gen
    /\ doubt \subseteq TrustKeys
    /\ \A g \in Goroutines :
          /\ call[g].at \in {"apply.gen", "apply.lock"} => call[g].trust \in Trust
          /\ call[g].at \in {"apply.lock", "clear.floor", "clear.lock", "adopt.lock"} =>
                call[g].gen \in Nat /\ call[g].gen <= gen
          /\ call[g].at = "mark.store" => call[g].gen = gen

\* The generation n was taken before a mark.
Beneath(n) == n < floor \/ \E h \in Goroutines : call[h].at = "mark.store" /\ n < call[h].gen

\* A key in doubt is not Complete, or beneath a mark, or about to be cleared.
EntriesBeneath ==
    \A k \in doubt : slots[k] # Vacant =>
        \/ slots[k].trust # "complete"
        \/ Beneath(slots[k].gen)
        \/ \E g \in Goroutines : call[g].at = "clear.gen" /\ k \in call[g].keys

\* A call that is going to write a key in doubt as Complete is beneath a mark.
WritersBeneath ==
    \A g \in Goroutines :
        /\ call[g].at = "apply.lock" /\ call[g].trust = "complete" /\ call[g].key \in doubt =>
              Beneath(call[g].gen)
        /\ call[g].at \in {"clear.floor", "clear.lock"} =>
              \A k \in doubt \cap call[g].keys : Beneath(call[g].gen)

\* A clear that is under way is above every mark its keys are not in doubt for.
ClearsAbove ==
    \A g \in Goroutines : call[g].at \in {"clear.floor", "clear.lock"} =>
        \A k \in call[g].keys \ doubt :
            /\ floor <= call[g].gen
            /\ \A h \in Goroutines : call[h].at = "mark.store" => call[h].gen <= call[g].gen

TrustInv == InRole /\ Bounded /\ EntriesBeneath /\ WritersBeneath /\ ClearsAbove

-----------------------------------------------------------------------------
(* Trust: the roles.                                                       *)

\* While the applier is in a call nobody else is in one of the applier's.
LEMMA AloneApplier ==
    ASSUME Roles, InRole, NEW g \in Goroutines, NEW h \in Goroutines,
           call[g].at \in ApplierPoints, call[h].at \in ApplierPoints
    PROVE  g = h
<1>1. PICK m \in ApplierCalls : <<g, m>> \in Calls
  BY Zenon DEF InRole
<1>2. PICK n \in ApplierCalls : <<h, n>> \in Calls
  BY Zenon DEF InRole
<1> QED
  BY <1>1, <1>2 DEF Roles

\* A goroutine that may mark the keyspace is the only one that is marking it.
LEMMA AloneMarker ==
    ASSUME Roles, InRole, NEW g \in Goroutines, NEW h \in Goroutines,
           <<g, "MarkSuspect">> \in Calls, call[h].at = "mark.store"
    PROVE  g = h
<1>1. <<h, "MarkSuspect">> \in Calls
  BY DEF InRole
<1> QED
  BY <1>1 DEF Roles

-----------------------------------------------------------------------------
(* Trust: the invariant, at first and through every step.                  *)

\* There are no entries and no calls.
LEMMA InitTrusted == TrustInit => TrustInv
BY DEF TrustInit, TrustInv, InRole, Bounded, EntriesBeneath, WritersBeneath, ClearsAbove, Idle, ApplierPoints, Trust

\* A step that only moves the call of g, neither from a point that a mark or a
\* clear hangs on nor to one, keeps the invariant.
LEMMA QuietTrusted ==
    ASSUME Roles, TrustInv, NEW g \in Goroutines, NEW c,
           call[g].at \notin {"mark.store", "clear.gen"}, call' = [call EXCEPT ![g] = c],
           c.at \in {"idle", "apply.gen", "pattern.lock", "clear.gen", "adopt.gen", "adopt.lock"},
           c.at \in ApplierPoints => \E m \in ApplierCalls : <<g, m>> \in Calls,
           c.at = "clear.gen" => c.keys \subseteq TrustKeys,
           c.at = "apply.gen" => c.trust \in Trust,
           c.at = "adopt.lock" => {"at", "gen"} \subseteq DOMAIN c /\ c.gen = gen,
           UNCHANGED <<slots, gen, floor, doubt>>
    PROVE  TrustInv'
<1>1. call' = [h \in Goroutines |-> call'[h]]
  BY DEF TrustInv, InRole
<1>2. call'[g] = c
  BY DEF TrustInv, InRole
<1>3. \A h \in Goroutines : h # g => call'[h] = call[h]
  BY DEF TrustInv, InRole
<1>4. \A h \in Goroutines :
        /\ call[h].at \in {"mark.store", "clear.gen"} => call'[h] = call[h]
        /\ call'[h].at \in {"mark.store", "apply.lock", "clear.floor", "clear.lock"} => call'[h] = call[h]
  BY <1>2, <1>3
<1>5. InRole'
  <2> SUFFICES ASSUME NEW h \in Goroutines
               PROVE  (/\ call[h].at = "adopt.lock" => {"at", "gen"} \subseteq DOMAIN call[h]
                       /\ call[h].at \in ApplierPoints => \E m \in ApplierCalls : <<h, m>> \in Calls
                       /\ call[h].at \in {"mark.store", "mark.zero"} => <<h, "MarkSuspect">> \in Calls
                       /\ call[h].at = "clear.gen" => call[h].keys \subseteq TrustKeys
                       /\ call[h].at \in {"clear.floor", "clear.lock"} => call[h].keys \subseteq TrustKeys)'
    BY <1>1 DEF InRole
  <2>1. CASE h = g
    BY <1>2, <2>1
  <2>2. CASE h # g
    BY <1>3, <2>2 DEF TrustInv, InRole
  <2> QED
    BY <2>1, <2>2
<1>6. Bounded'
  <2> SUFFICES ASSUME NEW h \in Goroutines
               PROVE  (/\ call[h].at \in {"apply.gen", "apply.lock"} => call[h].trust \in Trust
                       /\ call[h].at \in {"apply.lock", "clear.floor", "clear.lock", "adopt.lock"} =>
                             call[h].gen \in Nat /\ call[h].gen <= gen
                       /\ call[h].at = "mark.store" => call[h].gen = gen)'
    BY DEF TrustInv, Bounded
  <2>1. CASE h = g
    BY <1>2, <2>1 DEF TrustInv, Bounded
  <2>2. CASE h # g
    BY <1>3, <2>2 DEF TrustInv, Bounded
  <2> QED
    BY <2>1, <2>2
<1>7. \A n \in Nat : Beneath(n) => Beneath(n)'
  BY <1>4 DEF Beneath
<1>8. EntriesBeneath'
  <2> SUFFICES ASSUME NEW k \in doubt, slots[k] # Vacant, slots[k].trust = "complete"
               PROVE  (\/ Beneath(slots[k].gen)
                       \/ \E h \in Goroutines : call[h].at = "clear.gen" /\ k \in call[h].keys)'
    BY DEF EntriesBeneath
  <2>1. CASE Beneath(slots[k].gen)
    BY <1>7, <2>1 DEF TrustInv, Bounded
  <2>2. CASE \E h \in Goroutines : call[h].at = "clear.gen" /\ k \in call[h].keys
    BY <1>4, <2>2
  <2> QED
    BY <2>1, <2>2 DEF TrustInv, EntriesBeneath
<1>9. WritersBeneath'
  <2> SUFFICES ASSUME NEW h \in Goroutines, call'[h].at \in {"apply.lock", "clear.floor", "clear.lock"}
               PROVE  (/\ call[h].at = "apply.lock" /\ call[h].trust = "complete" /\ call[h].key \in doubt =>
                             Beneath(call[h].gen)
                       /\ call[h].at \in {"clear.floor", "clear.lock"} =>
                             \A k \in doubt \cap call[h].keys : Beneath(call[h].gen))'
    BY DEF WritersBeneath
  <2>1. call'[h] = call[h]
    BY <1>4
  <2>2. PICK n \in Nat : n = call[h].gen
    BY <2>1 DEF TrustInv, Bounded
  <2>3. Beneath(n) => Beneath(n)'
    BY <1>7
  <2> QED
    BY <2>1, <2>2, <2>3 DEF TrustInv, WritersBeneath
<1>10. ClearsAbove'
  BY <1>4 DEF TrustInv, ClearsAbove
<1> QED
  BY <1>5, <1>6, <1>8, <1>9, <1>10 DEF TrustInv

\* The applier begins.
LEMMA ApplyFloorTrusted ==
    ASSUME Roles, TrustInv, NEW g \in Goroutines, NEW key \in TrustKeys,
           NEW t \in {"complete", "suspect"}, ApplyFloor(g, key, t)
    PROVE  TrustInv'
<1> DEFINE c == [at |-> "apply.gen", key |-> key, trust |-> t, floor |-> floor]
<1>1. call[g].at \notin {"mark.store", "clear.gen"} /\ call' = [call EXCEPT ![g] = c]
  BY DEF ApplyFloor, Begin, Idle
<1>2. UNCHANGED <<slots, gen, floor, doubt>>
  BY DEF ApplyFloor
<1>3. c.at \in ApplierPoints => \E m \in ApplierCalls : <<g, m>> \in Calls
  BY DEF ApplyFloor, Begin, Idle, ApplierPoints, ApplierCalls
<1> QED
  BY <1>1, <1>2, <1>3, QuietTrusted, Zenon DEF Roles, Idle, Trust

\* The doubts about the key are answered by a write that takes the latest generation.
LEMMA ApplyGenTrusted ==
    ASSUME Roles, TrustInv, NEW g \in Goroutines, ApplyGen(g)
    PROVE  TrustInv'
<1> USE DEF ApplyGen, TrustInv, InRole, Bounded, ApplierPoints, ApplierCalls, Trust
<1>1. InRole'
  BY Zenon DEF Roles
<1>2. Bounded'
  OBVIOUS
<1>grows. \A n \in Nat : Beneath(n) => Beneath(n)'
  <2>1. floor' = floor /\ \A h \in Goroutines : call[h].at = "mark.store" => call'[h] = call[h]
    OBVIOUS
  <2> QED
    BY <2>1, Zenon DEF Beneath
<1>3. EntriesBeneath'
  <2> SUFFICES ASSUME NEW k \in doubt', (slots[k] # Vacant)'
               PROVE  (\/ slots[k].trust # "complete"
                       \/ Beneath(slots[k].gen)
                       \/ \E h \in Goroutines : call[h].at = "clear.gen" /\ k \in call[h].keys)'
    BY Zenon DEF EntriesBeneath
  <2> QED
    BY <1>grows, <1>2, Zenon DEF Roles, EntriesBeneath, WritersBeneath
<1>4. WritersBeneath'
  <2> SUFFICES ASSUME NEW h \in Goroutines
               PROVE  (/\ call[h].at = "apply.lock" /\ call[h].trust = "complete" /\ call[h].key \in doubt =>
                             Beneath(call[h].gen)
                       /\ call[h].at \in {"clear.floor", "clear.lock"} =>
                             \A k \in doubt \cap call[h].keys : Beneath(call[h].gen))'
    BY DEF WritersBeneath
  <2> QED
    BY <1>grows, <1>2, Zenon DEF Roles, WritersBeneath
<1>5. ClearsAbove'
  <2>1. \A x \in Goroutines : x # g => call[x].at \notin ApplierPoints
    BY AloneApplier, Zenon
  <2>2. \A h \in Goroutines : call'[h].at \notin {"clear.floor", "clear.lock"}
    BY <2>1
  <2> QED
    BY <2>2 DEF ClearsAbove
<1> QED
  BY <1>1, <1>2, <1>3, <1>4, <1>5, Zenon

\* The entry is as old as its call.
LEMMA ApplyLockTrusted ==
    ASSUME Roles, TrustInv, NEW g \in Goroutines, ApplyLock(g)
    PROVE  TrustInv'
<1> USE DEF ApplyLock, Return, Idle, TrustInv, InRole, Bounded, ApplierPoints, ApplierCalls, Trust
<1>1. InRole'
  BY Zenon DEF Roles
<1>2. Bounded'
  <2>1. PICK victims : slots' = Written(call[g].key, [trust |-> call[g].trust, gen |-> call[g].gen], victims)
    BY DEF ApplyLock
  <2>2. [trust |-> call[g].trust, gen |-> call[g].gen] \in [trust : Trust, gen : Nat] /\ call[g].gen <= gen
    OBVIOUS
  <2>3. \A k \in TrustKeys : slots'[k] # Vacant => slots'[k] \in [trust : Trust, gen : Nat] /\ slots'[k].gen <= gen
    BY <2>1, <2>2 DEF Written
  <2>4. slots' = [k \in TrustKeys |-> slots'[k]]
    BY <2>1 DEF Written
  <2>5. \A h \in Goroutines : call'[h] = call[h] \/ call'[h] = Idle
    OBVIOUS
  <2> QED
    BY <2>3, <2>4, <2>5, Zenon
<1>grows. \A n \in Nat : Beneath(n) => Beneath(n)'
  <2>1. floor' = floor /\ \A h \in Goroutines : call[h].at = "mark.store" => call'[h] = call[h]
    OBVIOUS
  <2> QED
    BY <2>1, Zenon DEF Beneath
<1>3. EntriesBeneath'
  <2> SUFFICES ASSUME NEW k \in doubt', (slots[k] # Vacant)'
               PROVE  (\/ slots[k].trust # "complete"
                       \/ Beneath(slots[k].gen)
                       \/ \E h \in Goroutines : call[h].at = "clear.gen" /\ k \in call[h].keys)'
    BY Zenon DEF EntriesBeneath
  <2>1. PICK victims : slots' = Written(call[g].key, [trust |-> call[g].trust, gen |-> call[g].gen], victims)
    BY DEF ApplyLock
  <2>2. CASE k = call[g].key
    <3>1. slots'[k] = [trust |-> call[g].trust, gen |-> call[g].gen]
      BY <2>1, <2>2 DEF Written
    <3>2. PICK n \in Nat : n = call[g].gen
      OBVIOUS
    <3>3. CASE call[g].trust = "complete"
      <4>1. Beneath(n)
        BY <2>2, <3>2, <3>3 DEF WritersBeneath
      <4>2. Beneath(n)'
        BY <1>grows, <4>1
      <4> QED
        BY <3>1, <3>2, <4>2
    <3>4. CASE call[g].trust # "complete"
      BY <3>1, <3>4
    <3> QED
      BY <3>3, <3>4, Zenon
  <2>3. CASE k # call[g].key
    <3>1. slots'[k] = slots[k]
      BY <2>1, <2>3 DEF Written
    <3>2. ~\E h \in Goroutines : call[h].at = "clear.gen"
      BY AloneApplier, Zenon
    <3>3. slots[k].trust # "complete" \/ Beneath(slots[k].gen)
      BY <3>1, <3>2, Zenon DEF EntriesBeneath
    <3>4. slots[k].gen \in Nat
      BY <3>1, Zenon
    <3> QED
      BY <1>grows, <3>1, <3>3, <3>4, Zenon
  <2> QED
    BY <2>2, <2>3, Zenon
<1>4. WritersBeneath'
  <2> SUFFICES ASSUME NEW h \in Goroutines
               PROVE  (/\ call[h].at = "apply.lock" /\ call[h].trust = "complete" /\ call[h].key \in doubt =>
                             Beneath(call[h].gen)
                       /\ call[h].at \in {"clear.floor", "clear.lock"} =>
                             \A k \in doubt \cap call[h].keys : Beneath(call[h].gen))'
    BY DEF WritersBeneath
  <2> QED
    BY <1>grows, <1>2, Zenon DEF Roles, WritersBeneath
<1>5. ClearsAbove'
  BY Zenon DEF Roles, ClearsAbove
<1> QED
  BY <1>1, <1>2, <1>3, <1>4, <1>5, Zenon

\* Every generation taken before is beneath the new one.
LEMMA MarkAddTrusted ==
    ASSUME Roles, TrustInv, NEW g \in Goroutines, MarkAdd(g)
    PROVE  TrustInv'
<1> USE DEF MarkAdd, Begin, Idle, TrustInv, InRole, Bounded, ApplierPoints, ApplierCalls, Trust
<1>1. InRole'
  BY Zenon DEF Roles
<1>2. Bounded'
  <2>1. \A h \in Goroutines : h # g => call'[h] = call[h] /\ call[h].at # "mark.store"
    BY AloneMarker, Zenon
  <2>2. call'[g] = [at |-> "mark.store", gen |-> gen + 1]
    OBVIOUS
  <2>3. \A n \in Nat : n <= gen => n <= gen + 1
    OBVIOUS
  <2>4. gen' \in Nat /\ floor' \in Nat /\ floor' <= gen'
    OBVIOUS
  <2>5. \A k \in TrustKeys : slots'[k] # Vacant =>
          slots'[k] \in [trust : Trust, gen : Nat] /\ slots'[k].gen <= gen'
    BY <2>3, Zenon
  <2>6. ASSUME NEW h \in Goroutines
        PROVE  (/\ call[h].at \in {"apply.gen", "apply.lock"} => call[h].trust \in Trust
                /\ call[h].at \in {"apply.lock", "clear.floor", "clear.lock", "adopt.lock"} =>
                      call[h].gen \in Nat /\ call[h].gen <= gen
                /\ call[h].at = "mark.store" => call[h].gen = gen)'
    <3>1. CASE h = g
      BY <2>2, <3>1, Zenon
    <3>2. CASE h # g
      BY <2>1, <2>3, <3>2, Zenon
    <3> QED
      BY <3>1, <3>2
  <2> QED
    BY <2>4, <2>5, <2>6, Zenon
<1>grows. \A n \in Nat : n <= gen => Beneath(n)'
  <2>1. call'[g] = [at |-> "mark.store", gen |-> gen + 1]
    OBVIOUS
  <2>2. ASSUME NEW n \in Nat, n <= gen PROVE Beneath(n)'
    BY <2>1, <2>2 DEF Beneath
  <2> QED
    BY <2>2
<1>3. EntriesBeneath'
  <2> SUFFICES ASSUME NEW k \in doubt', (slots[k] # Vacant)'
               PROVE  (\/ slots[k].trust # "complete"
                       \/ Beneath(slots[k].gen)
                       \/ \E h \in Goroutines : call[h].at = "clear.gen" /\ k \in call[h].keys)'
    BY Zenon DEF EntriesBeneath
  <2>1. slots[k].gen \in Nat /\ slots[k].gen <= gen /\ slots' = slots
    BY Zenon
  <2> QED
    BY <1>grows, <2>1, Zenon
<1>4. WritersBeneath'
  <2> SUFFICES ASSUME NEW h \in Goroutines
               PROVE  (/\ call[h].at = "apply.lock" /\ call[h].trust = "complete" /\ call[h].key \in doubt =>
                             Beneath(call[h].gen)
                       /\ call[h].at \in {"clear.floor", "clear.lock"} =>
                             \A k \in doubt \cap call[h].keys : Beneath(call[h].gen))'
    BY Zenon DEF WritersBeneath
  <2>1. call'[h].at \in {"apply.lock", "clear.floor", "clear.lock"} => call'[h] = call[h]
    BY Zenon
  <2>2. call[h].at \in {"apply.lock", "clear.floor", "clear.lock"} => Beneath(call[h].gen)'
    BY <1>grows
  <2>3. call'[h].at \in {"apply.lock", "clear.floor", "clear.lock"} => Beneath(call[h].gen)'
    BY <2>1, <2>2
  <2> QED
    BY <2>1, <2>3, Zenon DEF Beneath
<1>5. ClearsAbove'
  BY Zenon DEF Roles, ClearsAbove
<1> QED
  BY <1>1, <1>2, <1>3, <1>4, <1>5, Zenon

\* The floor becomes the latest generation: what was beneath stays so.
LEMMA MarkStoreTrusted ==
    ASSUME Roles, TrustInv, NEW g \in Goroutines, MarkStore(g)
    PROVE  TrustInv'
<1> USE DEF MarkStore, TrustInv, InRole, Bounded, ApplierPoints, ApplierCalls, Trust
<1>1. InRole'
  BY Zenon DEF Roles
<1>2. Bounded'
  OBVIOUS
<1>grows. \A n \in Nat : Beneath(n) => Beneath(n)'
  BY DEF Roles, Beneath
<1>3. EntriesBeneath'
  <2> SUFFICES ASSUME NEW k \in doubt', (slots[k] # Vacant)'
               PROVE  (\/ slots[k].trust # "complete"
                       \/ Beneath(slots[k].gen)
                       \/ \E h \in Goroutines : call[h].at = "clear.gen" /\ k \in call[h].keys)'
    BY Zenon DEF EntriesBeneath
  <2> QED
    BY <1>grows, <1>2, Zenon DEF Roles, EntriesBeneath, WritersBeneath
<1>4. WritersBeneath'
  <2> SUFFICES ASSUME NEW h \in Goroutines
               PROVE  (/\ call[h].at = "apply.lock" /\ call[h].trust = "complete" /\ call[h].key \in doubt =>
                             Beneath(call[h].gen)
                       /\ call[h].at \in {"clear.floor", "clear.lock"} =>
                             \A k \in doubt \cap call[h].keys : Beneath(call[h].gen))'
    BY Zenon DEF WritersBeneath
  <2> QED
    BY <1>grows, <1>2 DEF Roles, WritersBeneath
<1>5. ClearsAbove'
  BY Zenon DEF Roles, ClearsAbove
<1> QED
  BY <1>1, <1>2, <1>3, <1>4, <1>5, Zenon

\* Only a counter changes.
LEMMA MarkZeroTrusted ==
    ASSUME Roles, TrustInv, NEW g \in Goroutines, MarkZero(g)
    PROVE  TrustInv'
<1> DEFINE c == Idle
<1>1. call[g].at \notin {"mark.store", "clear.gen"} /\ call' = [call EXCEPT ![g] = c]
  BY DEF MarkZero, Return, Idle
<1>2. UNCHANGED <<slots, gen, floor, doubt>>
  BY DEF MarkZero
<1>3. c.at \in ApplierPoints => \E m \in ApplierCalls : <<g, m>> \in Calls
  BY DEF MarkZero, Idle, ApplierPoints, ApplierCalls
<1> QED
  BY <1>1, <1>2, <1>3, QuietTrusted, Zenon DEF Roles, Idle, Trust

\* The applier begins.
LEMMA MarkPatternFloorTrusted ==
    ASSUME Roles, TrustInv, NEW g \in Goroutines, NEW p \in Patterns, MarkPatternFloor(g, p)
    PROVE  TrustInv'
<1> DEFINE c == [at |-> "pattern.lock", keys |-> p, floor |-> floor]
<1>1. call[g].at \notin {"mark.store", "clear.gen"} /\ call' = [call EXCEPT ![g] = c]
  BY DEF MarkPatternFloor, Begin, Idle
<1>2. UNCHANGED <<slots, gen, floor, doubt>>
  BY DEF MarkPatternFloor
<1>3. c.at \in ApplierPoints => \E m \in ApplierCalls : <<g, m>> \in Calls
  BY DEF MarkPatternFloor, Begin, Idle, ApplierPoints, ApplierCalls
<1> QED
  BY <1>1, <1>2, <1>3, QuietTrusted, Zenon DEF Roles, Idle, Trust

\* The new doubts are about entries that are no longer Complete.
LEMMA MarkPatternLockTrusted ==
    ASSUME Roles, TrustInv, NEW g \in Goroutines, MarkPatternLock(g)
    PROVE  TrustInv'
<1> USE DEF MarkPatternLock, Occupied, Return, Idle, TrustInv, InRole, Bounded, ApplierPoints, ApplierCalls, Trust
<1>1. InRole'
  BY Zenon DEF Roles
<1>2. Bounded'
  BY Zenon
<1>grows. \A n \in Nat : Beneath(n) => Beneath(n)'
  <2>1. floor' = floor /\ \A h \in Goroutines : call[h].at = "mark.store" => call'[h] = call[h]
    BY Zenon
  <2> QED
    BY <2>1, Zenon DEF Beneath
<1>3. EntriesBeneath'
  <2> SUFFICES ASSUME NEW k \in doubt', (slots[k] # Vacant)'
               PROVE  (\/ slots[k].trust # "complete"
                       \/ Beneath(slots[k].gen)
                       \/ \E h \in Goroutines : call[h].at = "clear.gen" /\ k \in call[h].keys)'
    BY Zenon DEF EntriesBeneath
  <2>1. \A x \in Goroutines : x # g => call[x].at \notin ApplierPoints
    BY AloneApplier, Zenon
  <2>2. CASE k \in call[g].keys
    BY <2>2, Zenon
  <2>3. CASE k \notin call[g].keys
    <3>1. slots'[k] = slots[k] /\ k \in doubt
      BY <2>3, Zenon
    <3>2. slots[k].trust # "complete" \/ Beneath(slots[k].gen)
      BY <2>1, <3>1, Zenon DEF EntriesBeneath
    <3>3. slots[k].gen \in Nat
      BY <3>1, Zenon
    <3> QED
      BY <1>grows, <3>1, <3>2, <3>3, Zenon
  <2> QED
    BY <2>2, <2>3, Zenon
<1>4. WritersBeneath'
  <2> SUFFICES ASSUME NEW h \in Goroutines
               PROVE  (/\ call[h].at = "apply.lock" /\ call[h].trust = "complete" /\ call[h].key \in doubt =>
                             Beneath(call[h].gen)
                       /\ call[h].at \in {"clear.floor", "clear.lock"} =>
                             \A k \in doubt \cap call[h].keys : Beneath(call[h].gen))'
    BY Zenon DEF WritersBeneath
  <2>1. \A x \in Goroutines : x # g => call[x].at \notin ApplierPoints
    BY AloneApplier, Zenon
  <2>2. call'[h].at \notin {"apply.lock", "clear.floor", "clear.lock"}
    BY <2>1, Zenon
  <2> QED
    BY <2>2, Zenon
<1>5. ClearsAbove'
  BY Zenon DEF Roles, ClearsAbove
<1> QED
  BY <1>1, <1>2, <1>3, <1>4, <1>5, Zenon

\* Without its floor every key is about to be cleared.
LEMMA ClearStoreTrusted ==
    ASSUME Roles, TrustInv, NEW g \in Goroutines, ClearStore(g)
    PROVE  TrustInv'
<1> USE DEF ClearStore, Begin, Idle, TrustInv, InRole, Bounded, ApplierPoints, ApplierCalls, Trust
<1>1. InRole'
  BY Zenon DEF Roles
<1>2. Bounded'
  BY SMTT(20)
<1>3. EntriesBeneath'
  <2> SUFFICES ASSUME NEW k \in doubt', (slots[k] # Vacant)'
               PROVE  (\/ slots[k].trust # "complete"
                       \/ Beneath(slots[k].gen)
                       \/ \E h \in Goroutines : call[h].at = "clear.gen" /\ k \in call[h].keys)'
    BY Zenon DEF EntriesBeneath
  <2> QED
    BY <1>2, Zenon DEF Roles, EntriesBeneath, WritersBeneath, Beneath
<1>4. WritersBeneath'
  <2> SUFFICES ASSUME NEW h \in Goroutines
               PROVE  (/\ call[h].at = "apply.lock" /\ call[h].trust = "complete" /\ call[h].key \in doubt =>
                             Beneath(call[h].gen)
                       /\ call[h].at \in {"clear.floor", "clear.lock"} =>
                             \A k \in doubt \cap call[h].keys : Beneath(call[h].gen))'
    BY Zenon DEF WritersBeneath
  <2>1. call'[h].at \notin {"apply.lock", "clear.floor", "clear.lock"}
    <3>1. CASE h = g
      BY <3>1, Zenon
    <3>2. CASE h # g
      <4>1. PICK m \in ApplierCalls : call[h].at \in ApplierPoints => <<h, m>> \in Calls
        BY Zenon
      <4>2. call[h].at \notin ApplierPoints
        BY <3>2, <4>1, Zenon DEF Roles
      <4> QED
        BY <3>2, <4>2, Zenon
    <3> QED
      BY <3>1, <3>2
  <2> QED
    BY <2>1, Zenon
<1>5. ClearsAbove'
  BY ZenonT(60) DEF Roles, ClearsAbove
<1> QED
  BY <1>1, <1>2, <1>3, <1>4, <1>5, Zenon

\* The floor is left alone.
LEMMA ClearPatternTrusted ==
    ASSUME Roles, TrustInv, NEW g \in Goroutines, NEW p \in Patterns, ClearPattern(g, p)
    PROVE  TrustInv'
<1> DEFINE c == [at |-> "clear.gen", keys |-> p]
<1>1. call[g].at \notin {"mark.store", "clear.gen"} /\ call' = [call EXCEPT ![g] = c]
  BY DEF ClearPattern, Begin, Idle
<1>2. UNCHANGED <<slots, gen, floor, doubt>>
  BY DEF ClearPattern
<1>3. c.at \in ApplierPoints => \E m \in ApplierCalls : <<g, m>> \in Calls
  BY DEF ClearPattern, Begin, Idle, ApplierPoints, ApplierCalls
<1> QED
  BY <1>1, <1>2, <1>3, QuietTrusted, Zenon DEF Roles, Idle, Trust

\* The keys are spoken for as of the latest generation.
LEMMA ClearGenTrusted ==
    ASSUME Roles, TrustInv, NEW g \in Goroutines, ClearGen(g)
    PROVE  TrustInv'
<1> USE DEF ClearGen, TrustInv, InRole, Bounded, ApplierPoints, ApplierCalls, Trust
<1>1. InRole'
  BY Zenon DEF Roles
<1>2. Bounded'
  OBVIOUS
<1>grows. \A n \in Nat : Beneath(n) => Beneath(n)'
  <2>1. floor' = floor /\ \A h \in Goroutines : call[h].at = "mark.store" => call'[h] = call[h]
    OBVIOUS
  <2> QED
    BY <2>1, Zenon DEF Beneath
<1>3. EntriesBeneath'
  <2> SUFFICES ASSUME NEW k \in doubt', (slots[k] # Vacant)'
               PROVE  (\/ slots[k].trust # "complete"
                       \/ Beneath(slots[k].gen)
                       \/ \E h \in Goroutines : call[h].at = "clear.gen" /\ k \in call[h].keys)'
    BY Zenon DEF EntriesBeneath
  <2> QED
    BY <1>grows, <1>2, Zenon DEF Roles, EntriesBeneath, WritersBeneath
<1>4. WritersBeneath'
  <2> SUFFICES ASSUME NEW h \in Goroutines
               PROVE  (/\ call[h].at = "apply.lock" /\ call[h].trust = "complete" /\ call[h].key \in doubt =>
                             Beneath(call[h].gen)
                       /\ call[h].at \in {"clear.floor", "clear.lock"} =>
                             \A k \in doubt \cap call[h].keys : Beneath(call[h].gen))'
    BY DEF WritersBeneath
  <2> QED
    BY <1>grows, <1>2 DEF Roles, WritersBeneath
<1>5. ClearsAbove'
  <2>1. \A x \in Goroutines : x # g => call[x].at \notin ApplierPoints
    BY AloneApplier, Zenon
  <2>2. \A h \in Goroutines : h # g => call'[h].at \notin {"clear.floor", "clear.lock"}
    BY <2>1
  <2>3. call'[g].gen = gen /\ floor' = floor
    OBVIOUS
  <2>4. \A h \in Goroutines : call'[h].at = "mark.store" => call'[h].gen = gen
    OBVIOUS
  <2> QED
    BY <2>2, <2>3, <2>4, SMTT(20) DEF ClearsAbove
<1> QED
  BY <1>1, <1>2, <1>3, <1>4, <1>5, Zenon

\* A load.
LEMMA ClearFloorTrusted ==
    ASSUME Roles, TrustInv, NEW g \in Goroutines, ClearFloor(g)
    PROVE  TrustInv'
<1> USE DEF ClearFloor, TrustInv, InRole, Bounded, ApplierPoints, ApplierCalls, Trust
<1>1. InRole'
  BY Zenon DEF Roles
<1>2. Bounded'
  OBVIOUS
<1>grows. \A n \in Nat : Beneath(n) => Beneath(n)'
  <2>1. floor' = floor /\ \A h \in Goroutines : call[h].at = "mark.store" => call'[h] = call[h]
    OBVIOUS
  <2> QED
    BY <2>1, Zenon DEF Beneath
<1>3. EntriesBeneath'
  <2> SUFFICES ASSUME NEW k \in doubt', (slots[k] # Vacant)'
               PROVE  (\/ slots[k].trust # "complete"
                       \/ Beneath(slots[k].gen)
                       \/ \E h \in Goroutines : call[h].at = "clear.gen" /\ k \in call[h].keys)'
    BY Zenon DEF EntriesBeneath
  <2> QED
    BY <1>grows, <1>2, Zenon DEF Roles, EntriesBeneath, WritersBeneath
<1>4. WritersBeneath'
  <2> SUFFICES ASSUME NEW h \in Goroutines
               PROVE  (/\ call[h].at = "apply.lock" /\ call[h].trust = "complete" /\ call[h].key \in doubt =>
                             Beneath(call[h].gen)
                       /\ call[h].at \in {"clear.floor", "clear.lock"} =>
                             \A k \in doubt \cap call[h].keys : Beneath(call[h].gen))'
    BY DEF WritersBeneath
  <2> QED
    BY <1>grows, <1>2, Zenon DEF Roles, WritersBeneath
<1>5. ClearsAbove'
  BY DEF Roles, ClearsAbove
<1> QED
  BY <1>1, <1>2, <1>3, <1>4, <1>5, Zenon

\* The entries are as old as the call.
LEMMA ClearLockTrusted ==
    ASSUME Roles, TrustInv, NEW g \in Goroutines, ClearLock(g)
    PROVE  TrustInv'
<1> USE DEF ClearLock, Occupied, Return, Idle, TrustInv, InRole, Bounded, ApplierPoints, ApplierCalls, Trust
<1>1. InRole'
  BY Zenon DEF Roles
<1>2. Bounded'
  BY Zenon
<1>grows. \A n \in Nat : Beneath(n) => Beneath(n)'
  <2>1. floor' = floor /\ \A h \in Goroutines : call[h].at = "mark.store" => call'[h] = call[h]
    BY Zenon
  <2> QED
    BY <2>1, Zenon DEF Beneath
<1>3. EntriesBeneath'
  <2> SUFFICES ASSUME NEW k \in doubt', (slots[k] # Vacant)'
               PROVE  (\/ slots[k].trust # "complete"
                       \/ Beneath(slots[k].gen)
                       \/ \E h \in Goroutines : call[h].at = "clear.gen" /\ k \in call[h].keys)'
    BY Zenon DEF EntriesBeneath
  <2>1. CASE k \in call[g].keys /\ slots[k] # Vacant /\ slots[k].trust # "adopted"
    <3>1. slots'[k] = [trust |-> "complete", gen |-> call[g].gen]
      BY <2>1, Zenon
    <3>2. PICK n \in Nat : n = call[g].gen
      BY Zenon
    <3>3. Beneath(n)
      BY <2>1, <3>2, Zenon DEF WritersBeneath
    <3>4. Beneath(n)'
      BY <1>grows, <3>3, Zenon
    <3>5. slots'[k].gen = n
      BY <3>1, <3>2, SMTT(20)
    <3> QED
      BY <3>4, <3>5, Zenon
  <2>2. CASE ~(k \in call[g].keys /\ slots[k] # Vacant /\ slots[k].trust # "adopted")
    <3>1. slots'[k] = slots[k]
      BY <2>2, Zenon
    <3>2. ~\E h \in Goroutines : call[h].at = "clear.gen"
      BY AloneApplier, Zenon
    <3>3. slots[k].trust # "complete" \/ Beneath(slots[k].gen)
      BY <3>1, <3>2, Zenon DEF EntriesBeneath
    <3>4. slots[k].gen \in Nat
      BY <3>1, Zenon
    <3> QED
      BY <1>grows, <3>1, <3>3, <3>4, Zenon
  <2> QED
    BY <2>1, <2>2, Zenon
<1>4. WritersBeneath'
  <2> SUFFICES ASSUME NEW h \in Goroutines
               PROVE  (/\ call[h].at = "apply.lock" /\ call[h].trust = "complete" /\ call[h].key \in doubt =>
                             Beneath(call[h].gen)
                       /\ call[h].at \in {"clear.floor", "clear.lock"} =>
                             \A k \in doubt \cap call[h].keys : Beneath(call[h].gen))'
    BY Zenon DEF WritersBeneath
  <2> QED
    BY <1>grows, <1>2, Zenon DEF Roles, WritersBeneath
<1>5. ClearsAbove'
  BY Zenon DEF Roles, ClearsAbove
<1> QED
  BY <1>1, <1>2, <1>3, <1>4, <1>5, Zenon

\* A load.
LEMMA AdoptFloorTrusted ==
    ASSUME Roles, TrustInv, NEW g \in Goroutines, NEW b, AdoptFloor(g, b)
    PROVE  TrustInv'
<1> DEFINE c == [at |-> "adopt.gen", keys |-> b, floor |-> floor]
<1>1. call[g].at \notin {"mark.store", "clear.gen"} /\ call' = [call EXCEPT ![g] = c]
  BY DEF AdoptFloor, Begin, Idle
<1>2. UNCHANGED <<slots, gen, floor, doubt>>
  BY DEF AdoptFloor
<1>3. c.at \in ApplierPoints => \E m \in ApplierCalls : <<g, m>> \in Calls
  BY DEF AdoptFloor, Begin, Idle, ApplierPoints, ApplierCalls
<1> QED
  BY <1>1, <1>2, <1>3, QuietTrusted, Zenon DEF Roles, Idle, Trust

\* A load.
LEMMA AdoptGenTrusted ==
    ASSUME Roles, TrustInv, NEW g \in Goroutines, AdoptGen(g)
    PROVE  TrustInv'
<1> DEFINE c == [at |-> "adopt.lock", keys |-> call[g].keys, floor |-> call[g].floor, gen |-> gen]
<1>1. call[g].at \notin {"mark.store", "clear.gen"} /\ call' = [call EXCEPT ![g] = c]
  BY DEF AdoptGen, Idle
<1>2. UNCHANGED <<slots, gen, floor, doubt>>
  BY DEF AdoptGen
<1>3. c.at \in ApplierPoints => \E m \in ApplierCalls : <<g, m>> \in Calls
  BY DEF AdoptGen, Idle, ApplierPoints, ApplierCalls
<1> QED
  BY <1>1, <1>2, <1>3, QuietTrusted, Zenon DEF Roles, Idle, Trust

\* Adopted entries are not Complete.
LEMMA AdoptLockTrusted ==
    ASSUME Roles, TrustInv, NEW g \in Goroutines, AdoptLock(g)
    PROVE  TrustInv'
<1>pick. PICK j \in call[g].keys : \E victims \in Outgoing(j) :
             /\ slots' = Written(j, [trust |-> "adopted", gen |-> call[g].gen], victims)
             /\ call' = [call EXCEPT ![g] = IF call[g].keys = {j} THEN Idle
                                            ELSE [call[g] EXCEPT !.keys = @ \ {j}]]
  BY Zenon DEF AdoptLock
<1>entry. PICK victims \in Outgoing(j) : slots' = Written(j, [trust |-> "adopted", gen |-> call[g].gen], victims)
  BY <1>pick
<1>calls. call' = [h \in Goroutines |-> call'[h]]
  BY <1>pick, Zenon DEF TrustInv, InRole
<1>mine. /\ \A h \in Goroutines \ {g} : call'[h] = call[h]
         /\ call'[g].at \in {"idle", "adopt.lock"}
         /\ call'[g].at = "adopt.lock" => call'[g].gen = call[g].gen /\ {"at", "gen"} \subseteq DOMAIN call'[g]
  <2>1. call = [h \in Goroutines |-> call[h]] /\ call[g].at = "adopt.lock" /\ {"at", "gen"} \subseteq DOMAIN call[g]
    BY Zenon DEF TrustInv, InRole, AdoptLock
  <2> DEFINE rest == [call[g] EXCEPT !.keys = @ \ {j}]
  <2>3. rest.at = "adopt.lock" /\ rest.gen = call[g].gen /\ {"at", "gen"} \subseteq DOMAIN rest
    BY <2>1
  <2>4. \A h \in Goroutines : h # g => call'[h] = call[h]
    BY <1>pick, <2>1
  <2>5. call'[g] = Idle \/ call'[g] = rest
    BY <1>pick, <2>1
  <2> HIDE DEF rest
  <2> QED
    BY <2>3, <2>4, <2>5 DEF Idle
<1>same. gen' = gen /\ floor' = floor /\ doubt' = doubt /\ call[g].at = "adopt.lock"
  BY DEF AdoptLock
<1>entries. /\ slots' = [k \in TrustKeys |-> slots'[k]]
            /\ \A k \in TrustKeys : slots'[k] \in {slots[k], Vacant, [trust |-> "adopted", gen |-> call[g].gen]}
  BY <1>entry DEF Written
<1>others. \A h \in Goroutines :
               call[h].at # "adopt.lock" \/ call'[h].at \notin {"idle", "adopt.lock"} => call'[h] = call[h]
  BY <1>same, <1>mine
<1>gens. \A h \in Goroutines : call'[h].at = "adopt.lock" =>
             {"at", "gen"} \subseteq DOMAIN call'[h] /\ call'[h].gen \in Nat /\ call'[h].gen <= gen
  BY <1>same, <1>mine, Zenon DEF TrustInv, InRole, Bounded
<1> USE DEF Idle, TrustInv, InRole, Bounded, ApplierPoints, ApplierCalls, Trust
<1>1. InRole'
  BY <1>calls, <1>others, <1>gens, Zenon
<1>2. Bounded'
  <2>1. \A k \in TrustKeys : slots'[k] # Vacant => slots'[k] \in [trust : Trust, gen : Nat] /\ slots'[k].gen <= gen
    BY <1>same, <1>entries
  <2> QED
    BY <1>same, <1>others, <1>gens, <1>entries, <2>1
<1>grows. \A n \in Nat : Beneath(n) => Beneath(n)'
  BY <1>same, <1>others, Zenon DEF Roles, Beneath
<1>3. EntriesBeneath'
  <2> SUFFICES ASSUME NEW k \in doubt', (slots[k] # Vacant)'
               PROVE  (\/ slots[k].trust # "complete"
                       \/ Beneath(slots[k].gen)
                       \/ \E h \in Goroutines : call[h].at = "clear.gen" /\ k \in call[h].keys)'
    BY DEF EntriesBeneath
  <2>1. k \in TrustKeys /\ k \in doubt
    BY <1>same
  <2>2. CASE slots'[k] = slots[k]
    <3>1. \A h \in Goroutines : call[h].at = "clear.gen" => call'[h] = call[h]
      BY <1>others
    <3>2. slots[k].gen \in Nat
      BY <2>1, <2>2
    <3> QED
      BY <1>grows, <2>1, <2>2, <3>1, <3>2, Zenon DEF EntriesBeneath
  <2>3. CASE slots'[k] = [trust |-> "adopted", gen |-> call[g].gen]
    BY <2>3
  <2> QED
    BY <1>entries, <2>1, <2>2, <2>3, Zenon
<1>4. WritersBeneath'
  <2> SUFFICES ASSUME NEW h \in Goroutines
               PROVE  (/\ call[h].at = "apply.lock" /\ call[h].trust = "complete" /\ call[h].key \in doubt =>
                             Beneath(call[h].gen)
                       /\ call[h].at \in {"clear.floor", "clear.lock"} =>
                             \A k \in doubt \cap call[h].keys : Beneath(call[h].gen))'
    BY DEF WritersBeneath
  <2>1. call'[h].at \in {"apply.lock", "clear.floor", "clear.lock"} => call'[h] = call[h]
    BY <1>others
  <2> QED
    BY <1>same, <1>grows, <2>1, Zenon DEF WritersBeneath
<1>5. ClearsAbove'
  <2>1. \A h \in Goroutines : call'[h].at \in {"clear.floor", "clear.lock", "mark.store"} => call'[h] = call[h]
    BY <1>others
  <2> QED
    BY <1>same, <2>1 DEF ClearsAbove
<1> QED
  BY <1>1, <1>2, <1>3, <1>4, <1>5, Zenon

-----------------------------------------------------------------------------
(* Trust: the theorems.                                                    *)

\* Every step keeps the invariant.
LEMMA StepTrusted == Roles /\ TrustInv /\ [TrustNext]_trustVars => TrustInv'
<1> SUFFICES ASSUME Roles, TrustInv, [TrustNext]_trustVars PROVE TrustInv'
  OBVIOUS
<1>1. CASE UNCHANGED trustVars
  BY <1>1, Zenon DEF trustVars, TrustInv, InRole, Bounded, EntriesBeneath, WritersBeneath, ClearsAbove, Beneath
<1>2. ASSUME NEW g \in Goroutines, Step(g) PROVE TrustInv'
  BY <1>2, ApplyFloorTrusted, ApplyGenTrusted, ApplyLockTrusted, MarkAddTrusted, MarkStoreTrusted,
     MarkZeroTrusted, MarkPatternFloorTrusted, MarkPatternLockTrusted, ClearStoreTrusted,
     ClearPatternTrusted, ClearGenTrusted, ClearFloorTrusted, ClearLockTrusted, AdoptFloorTrusted,
     AdoptGenTrusted, AdoptLockTrusted, Zenon DEF Step
<1> QED
  BY <1>1, <1>2 DEF TrustNext

\* The inductive invariant holds throughout.
LEMMA TrustHolds == Roles /\ TrustSpec => []TrustInv
<1> SUFFICES ASSUME Roles PROVE TrustSpec => []TrustInv
  OBVIOUS
<1>1. TrustInv /\ [TrustNext]_trustVars => TrustInv'
  BY StepTrusted
<1> QED
  BY <1>1, InitTrusted, PTL DEF TrustSpec

\* Once MarkSuspect has returned, a key it covered is not Complete before a later
\* event or a snapshot has spoken for it, wherever the applier was when the mark
\* came in.
THEOREM MarkIsKept == Roles /\ TrustSpec => []MarkHolds
<1>1. TrustInv => MarkHolds
  BY DEF TrustInv, Bounded, EntriesBeneath, Beneath, MarkHolds, Underway, Occupied, Effective
<1> QED
  BY <1>1, TrustHolds, PTL

\* After a snapshot cycle no key it covers is suspect, unless a mark came in during
\* the clear (I10).
THEOREM SnapshotLifts == Roles /\ TrustSpec => SnapshotRestoresTrust
<1> SUFFICES ASSUME Roles PROVE TrustSpec => SnapshotRestoresTrust
  OBVIOUS
<1> DEFINE Lifted ==
      \A g \in Goroutines : call[g].at = "clear.lock" /\ call'[g] = Idle =>
          \A k \in call[g].keys \ doubt' :
              slots'[k] # Vacant => Effective(slots'[k], floor') # "suspect"
<1>1. TrustInv /\ [TrustNext]_trustVars => [Lifted]_trustVars
  <2> SUFFICES ASSUME TrustInv, NEW h \in Goroutines, Step(h),
                      NEW g \in Goroutines, call[g].at = "clear.lock", call'[g] = Idle,
                      NEW k \in call[g].keys \ doubt', slots'[k] # Vacant
               PROVE  Effective(slots'[k], floor') # "suspect"
    BY Zenon DEF TrustNext
  <2>1. ClearLock(g)
    <3>1. call[g] # Idle
      BY DEF Idle
    <3>2. PICK c : call' = [call EXCEPT ![h] = c]
      BY Zenon DEF Step, Begin, Return, ApplyFloor, ApplyGen, ApplyLock, MarkAdd, MarkStore, MarkZero,
         MarkPatternFloor, MarkPatternLock, ClearStore, ClearPattern, ClearGen, ClearFloor, ClearLock,
         AdoptFloor, AdoptGen, AdoptLock
    <3>3. h = g
      BY <3>1, <3>2 DEF TrustInv, InRole
    <3>4. call[g].at = "clear.lock" /\ Step(g)
      BY <3>3
    <3> HIDE DEF TrustInv
    <3> QED
      BY <3>1, <3>4, Zenon DEF Step, Begin, ApplyFloor, ApplyGen, ApplyLock, MarkAdd, MarkStore, MarkZero,
         MarkPatternFloor, MarkPatternLock, ClearStore, ClearPattern, ClearGen, ClearFloor, AdoptFloor,
         AdoptGen, AdoptLock
  <2>2. k \in TrustKeys /\ floor' = floor /\ doubt' = doubt
    BY <2>1, Zenon DEF ClearLock, TrustInv, InRole
  <2>3. CASE slots[k] # Vacant /\ slots[k].trust # "adopted"
    <3>1. slots'[k] = [trust |-> "complete", gen |-> call[g].gen]
      BY <2>1, <2>2, <2>3 DEF ClearLock, Occupied
    <3>2. floor <= call[g].gen /\ floor \in Nat /\ call[g].gen \in Nat
      BY <2>2 DEF TrustInv, Bounded, ClearsAbove
    <3> QED
      BY <2>2, <3>1, <3>2 DEF Effective
  <2>4. CASE slots[k] = Vacant \/ slots[k].trust = "adopted"
    <3>1. slots'[k] = slots[k]
      BY <2>1, <2>2, <2>4 DEF ClearLock, Occupied
    <3> QED
      BY <2>4, <3>1 DEF Effective
  <2> QED
    BY <2>3, <2>4
<1> QED
  BY <1>1, TrustHolds, PTL DEF TrustSpec, SnapshotRestoresTrust

-----------------------------------------------------------------------------
(* Expectations: the invariant.                                            *)

Typed ==
    /\ ent \in [Keys -> Entries \cup {NoEntry}]
    /\ buckets \subseteq Nat \X Keys /\ settled \subseteq Keys
    /\ window \in 0 .. MaxWindow
    /\ instant \in Nat /\ instant >= MaxWindow + MaxDelay

\* Where a tracked key is in the index.
Indexed ==
    /\ \A b \in buckets : b[2] \in Tracked /\ b[2] \notin settled
                          /\ b[1] = BucketOf(ent[b[2]].lastEventAt)
    /\ \A k \in Tracked : k \in settled \/ <<BucketOf(ent[k].lastEventAt), k>> \in buckets
    /\ \A k \in settled : k \in Tracked /\ ent[k].lastEventAt < instant - MaxWindow

Fits == IsFiniteSet(Tracked) /\ Cardinality(Tracked) <= MaxKeys

OracleInv == Typed /\ Indexed /\ Fits

-----------------------------------------------------------------------------
(* Times, windows and buckets.                                             *)

\* What the constants are.
LEMMA Sizes ==
    /\ MaxKeys \in Nat \ {0} /\ Windows \subseteq Nat /\ MaxWindow \in Nat /\ Factor \in Nat \ {0}
    /\ BucketWidth \in Nat \ {0} /\ MaxDelay \in Nat /\ MaxVersion \in Nat
BY OracleAssumption

\* A chosen window is clamped to the configured maximum.
LEMMA ClampedFacts == ASSUME NEW w \in Nat PROVE Clamped(w) \in 0 .. MaxWindow
BY Sizes DEF Clamped

\* Buckets are numbered.
LEMMA BucketType == ASSUME NEW t \in Nat PROVE BucketOf(t) \in Nat
BY Sizes DEF BucketOf

\* An older bucket holds older times.
LEMMA BucketOrder ==
    ASSUME NEW s \in Nat, NEW t \in Nat, BucketOf(s) < BucketOf(t)
    PROVE  s < t
<1>1. PICK d, p, q : d = BucketWidth /\ p = BucketOf(s) /\ q = BucketOf(t)
  OBVIOUS
<1>2. d \in Nat \ {0} /\ p \in Nat /\ q \in Nat /\ p + 1 <= q
  BY <1>1, Sizes, BucketType
<1>3. s < d * p + d
  BY <1>1, Sizes DEF BucketOf
<1>4. d * q <= t
  BY <1>1, Sizes DEF BucketOf
<1>5. d * p + d <= d * q
  BY <1>2
<1>6. d * p \in Nat /\ d * q \in Nat
  BY <1>2
<1> QED
  BY <1>2, <1>3, <1>4, <1>5, <1>6

\* A nonempty set of numbers has a least one.
LEMMA LeastOfNat ==
    ASSUME NEW T, T \subseteq Nat, T # {}
    PROVE  \E x \in T : \A y \in T : x <= y
<1>1. PICK x \in T : \A y \in T : ~(<<y, x>> \in OpToRel(<, Nat))
  BY NatLessThanWellFounded, WFMin
<1>2. \A y \in T : ~(y < x)
  BY <1>1, Zenon DEF OpToRel
<1> QED
  BY <1>2

\* Min picks it.
LEMMA MinFacts ==
    ASSUME NEW T, T \subseteq Nat, T # {}
    PROVE  Min(T) \in T /\ \A y \in T : Min(T) <= y
BY LeastOfNat, Zenon DEF Min

\* What an entry holds.
LEMMA EntryFacts ==
    ASSUME NEW e \in Entries
    PROVE  /\ e # NoEntry /\ e.lastEventAt \in Nat /\ e.lastValueChangeAt \in Nat \cup {Zero}
           /\ e.version \in 1 .. MaxVersion
BY NoEntryAssumption DEF Entries

\* Versions count from one.
LEMMA VersionFacts == ASSUME Typed, NEW k \in Keys PROVE Version(k) \in Nat
<1>1. ent[k] \in Entries \cup {NoEntry}
  BY Zenon DEF Typed
<1>2. CASE ent[k] = NoEntry
  BY <1>2 DEF Version
<1>3. CASE ent[k] \in Entries
  BY <1>3, EntryFacts DEF Version
<1> QED
  BY <1>1, <1>2, <1>3, Zenon

\* Who is tracked has an entry.
LEMMA TrackedFacts ==
    ASSUME Typed
    PROVE  \A k \in Keys : /\ k \in Tracked <=> ent[k] # NoEntry
                           /\ k \in Tracked => ent[k] \in Entries /\ ent[k].lastEventAt \in Nat
BY EntryFacts DEF Typed, Tracked

-----------------------------------------------------------------------------
(* A write.                                                                *)

\* What makes room for k is a tracked key other than k, and only when k is new.
LEMMA VictimFacts ==
    ASSUME Typed, Indexed, NEW k \in Keys, NEW victims \in Victims(k)
    PROVE  \/ victims = {} /\ (ent[k] # NoEntry \/ Cardinality(Tracked) < MaxKeys)
           \/ /\ ent[k] = NoEntry
              /\ \E v \in Tracked :
                    /\ victims = {v} /\ v # k
                    /\ \/ v \in settled
                       \/ \A j \in Tracked : BucketOf(ent[v].lastEventAt) <= BucketOf(ent[j].lastEventAt)
<1>1. CASE ent[k] # NoEntry \/ Cardinality(Tracked) < MaxKeys
  BY <1>1 DEF Victims
<1>2. CASE ~(ent[k] # NoEntry \/ Cardinality(Tracked) < MaxKeys) /\ settled # {}
  <2>1. PICK v \in settled : victims = {v}
    BY <1>2 DEF Victims
  <2>2. v \in Tracked /\ v # k
    BY <1>2 DEF Indexed, Tracked
  <2> QED
    BY <1>2, <2>1, <2>2
<1>3. CASE ~(ent[k] # NoEntry \/ Cardinality(Tracked) < MaxKeys) /\ settled = {}
  <2> DEFINE Times == {d[1] : d \in buckets}
  <2>1. PICK b \in buckets : b[1] = Min(Times) /\ victims = {b[2]}
    BY <1>3, Zenon DEF Victims
  <2>2. Times \subseteq Nat /\ Times # {}
    BY <2>1 DEF Typed
  <2>3. \A y \in Times : Min(Times) <= y
    BY <2>2, MinFacts
  <2>4. b[2] \in Tracked /\ b[1] = BucketOf(ent[b[2]].lastEventAt) /\ b[2] # k
    BY <1>3 DEF Indexed, Tracked
  <2>5. ASSUME NEW j \in Tracked
        PROVE  BucketOf(ent[b[2]].lastEventAt) <= BucketOf(ent[j].lastEventAt)
    <3>1. <<BucketOf(ent[j].lastEventAt), j>> \in buckets
      BY <1>3 DEF Indexed
    <3>2. BucketOf(ent[j].lastEventAt) \in Times
      BY <3>1
    <3> QED
      BY <2>1, <2>3, <2>4, <3>2
  <2> QED
    BY <1>3, <2>1, <2>4, <2>5
<1> QED
  BY <1>1, <1>2, <1>3

\* What a write leaves: k is tracked, the victim is not, the others are as before.
LEMMA StoreFacts ==
    ASSUME Typed, Indexed, NEW k \in Keys, NEW e \in Entries, Store(k, e)
    PROVE  \E victims \in Victims(k) :
              /\ k \notin victims /\ victims \subseteq Tracked
              /\ Tracked' = (Tracked \ victims) \cup {k}
              /\ ent' = [j \in Keys |-> IF j = k THEN e ELSE IF j \in victims THEN NoEntry ELSE ent[j]]
              /\ Place(k, e, victims)
<1>1. PICK victims \in Victims(k) :
          /\ ent' = [j \in Keys |-> IF j = k THEN e ELSE IF j \in victims THEN NoEntry ELSE ent[j]]
          /\ Place(k, e, victims)
  BY Zenon DEF Store
<1>2. k \notin victims /\ victims \subseteq Tracked
  BY VictimFacts
<1>3. e # NoEntry
  BY EntryFacts
<1>4. Tracked' = {j \in Keys : ent'[j] # NoEntry}
  BY DEF Tracked
<1>5. \A j \in Keys : ent'[j] # NoEntry <=> j = k \/ (j \notin victims /\ ent[j] # NoEntry)
  BY <1>1, <1>3
<1>6. Tracked' = (Tracked \ victims) \cup {k}
  BY <1>4, <1>5 DEF Tracked
<1> QED
  BY <1>1, <1>2, <1>6

\* A write keeps the types.
LEMMA StoreTyped ==
    ASSUME Typed, Indexed, NEW k \in Keys, NEW e \in Entries, Store(k, e)
    PROVE  Typed'
<1>1. PICK victims :
          /\ ent' = [j \in Keys |-> IF j = k THEN e ELSE IF j \in victims THEN NoEntry ELSE ent[j]]
          /\ Place(k, e, victims)
  BY StoreFacts
<1>2. ent' \in [Keys -> Entries \cup {NoEntry}]
  BY <1>1 DEF Typed
<1>3. BucketOf(e.lastEventAt) \in Nat
  BY EntryFacts, BucketType
<1>4. buckets' \subseteq Nat \X Keys /\ settled' \subseteq Keys
  BY <1>1, <1>3 DEF Place, Typed
<1>5. window' = window /\ instant' = instant
  BY Zenon DEF Store
<1> QED
  BY <1>2, <1>4, <1>5 DEF Typed

\* A write leaves every tracked key in one place of the index.
LEMMA StoreIndexed ==
    ASSUME Typed, Indexed, NEW k \in Keys, NEW e \in Entries, Store(k, e)
    PROVE  Indexed'
<1>0. instant' = instant
  BY Zenon DEF Store
<1>1. PICK victims :
          /\ k \notin victims /\ victims \subseteq Tracked
          /\ Tracked' = (Tracked \ victims) \cup {k}
          /\ ent' = [j \in Keys |-> IF j = k THEN e ELSE IF j \in victims THEN NoEntry ELSE ent[j]]
          /\ Place(k, e, victims)
  BY StoreFacts
<1>2. /\ buckets' = {b \in buckets : b[2] \notin victims \cup {k}} \cup {<<BucketOf(e.lastEventAt), k>>}
      /\ settled' = settled \ (victims \cup {k})
  BY <1>1, Zenon DEF Place
<1>3. ent'[k] = e /\ \A j \in Tracked \ (victims \cup {k}) : ent'[j] = ent[j]
  BY <1>1 DEF Tracked
<1>4. ASSUME NEW b \in buckets'
      PROVE  b[2] \in Tracked' /\ b[2] \notin settled' /\ b[1] = BucketOf(ent'[b[2]].lastEventAt)
  <2>1. CASE b \in buckets /\ b[2] \notin victims \cup {k}
    <3>1. b[2] \in Tracked /\ b[2] \notin settled /\ b[1] = BucketOf(ent[b[2]].lastEventAt)
      BY <2>1 DEF Indexed
    <3>2. ent'[b[2]] = ent[b[2]]
      BY <1>3, <2>1, <3>1
    <3> QED
      BY <1>1, <1>2, <2>1, <3>1, <3>2, Zenon
  <2>2. CASE b = <<BucketOf(e.lastEventAt), k>>
    BY <1>1, <1>2, <1>3, <2>2
  <2> QED
    BY <1>2, <2>1, <2>2, Zenon
<1>5. ASSUME NEW j \in Tracked'
      PROVE  j \in settled' \/ <<BucketOf(ent'[j].lastEventAt), j>> \in buckets'
  <2>1. CASE j = k
    BY <1>2, <1>3, <2>1
  <2>2. CASE j # k
    <3>1. j \in Tracked /\ j \notin victims /\ ent'[j] = ent[j]
      BY <1>1, <1>3, <2>2
    <3>2. j \in settled \/ <<BucketOf(ent[j].lastEventAt), j>> \in buckets
      BY <3>1 DEF Indexed
    <3>3. CASE j \in settled
      BY <1>2, <2>2, <3>1, <3>3
    <3>4. CASE <<BucketOf(ent[j].lastEventAt), j>> \in buckets
      <4>1. PICK b : b = <<BucketOf(ent[j].lastEventAt), j>>
        BY Zenon
      <4>2. b[2] = j
        BY <4>1
      <4> QED
        BY <1>2, <2>2, <3>1, <3>4, <4>1, <4>2
    <3> QED
      BY <3>2, <3>3, <3>4
  <2> QED
    BY <2>1, <2>2
<1>6. ASSUME NEW j \in settled'
      PROVE  j \in Tracked' /\ ent'[j].lastEventAt < instant' - MaxWindow
  <2>1. j \in settled /\ j \notin victims /\ j # k
    BY <1>2
  <2>2. j \in Tracked /\ ent[j].lastEventAt < instant - MaxWindow
    BY <2>1 DEF Indexed
  <2>3. ent'[j] = ent[j]
    BY <1>3, <2>1, <2>2
  <2> QED
    BY <1>0, <1>1, <2>1, <2>2, <2>3
<1> QED
  BY <1>4, <1>5, <1>6 DEF Indexed, BucketOf

\* A write keeps the budget: who is new takes a free place or that of the victim.
LEMMA StoreFits ==
    ASSUME Typed, Indexed, Fits, NEW k \in Keys, NEW e \in Entries, Store(k, e)
    PROVE  Fits'
<1>1. PICK victims \in Victims(k) :
          /\ k \notin victims /\ victims \subseteq Tracked
          /\ Tracked' = (Tracked \ victims) \cup {k}
  BY StoreFacts
<1>2. PICK T : T = Tracked
  OBVIOUS
<1>3. IsFiniteSet(T) /\ Cardinality(T) \in Nat /\ Cardinality(T) <= MaxKeys /\ MaxKeys \in Nat
  BY <1>2, FS_CardinalityType, Sizes DEF Fits
<1>4. CASE k \in T
  <2>1. victims = {}
    BY <1>1, <1>2, <1>4, VictimFacts DEF Tracked
  <2>2. Tracked' = T
    BY <1>1, <1>2, <1>4, <2>1
  <2> QED
    BY <1>3, <2>2, Zenon DEF Fits
<1>5. CASE k \notin T /\ victims = {}
  <2>1. Cardinality(T) < MaxKeys
    BY <1>2, <1>5, VictimFacts DEF Tracked
  <2>2. Tracked' = T \cup {k}
    BY <1>1, <1>2, <1>5
  <2>3. IsFiniteSet(T \cup {k}) /\ Cardinality(T \cup {k}) = Cardinality(T) + 1
    BY <1>3, <1>5, FS_AddElement
  <2> QED
    BY <1>3, <2>1, <2>2, <2>3 DEF Fits
<1>6. CASE k \notin T /\ victims # {}
  <2>1. PICK v \in T : victims = {v}
    BY <1>2, <1>6, VictimFacts
  <2>2. PICK S : S = T \ {v}
    BY Zenon
  <2>3. IsFiniteSet(S) /\ Cardinality(S) = Cardinality(T) - 1
    BY <1>3, <2>1, <2>2, FS_RemoveElement
  <2>4. Tracked' = S \cup {k} /\ k \notin S
    BY <1>1, <1>2, <1>6, <2>1, <2>2
  <2>5. IsFiniteSet(S \cup {k}) /\ Cardinality(S \cup {k}) = Cardinality(S) + 1
    BY <2>3, <2>4, FS_AddElement
  <2> QED
    BY <1>3, <2>3, <2>4, <2>5 DEF Fits
<1> QED
  BY <1>4, <1>5, <1>6

\* What Apply stores is an entry.
LEMMA ApplyStores ==
    ASSUME Typed, NEW k \in Keys, NEW v \in Values \cup {Absent},
           NEW at \in instant - MaxDelay .. instant, Apply(k, v, at)
    PROVE  \E e \in Entries : Store(k, e)
<1>1. at \in Nat
  BY Sizes DEF Typed
<1>2. PICK n, c : /\ n = Version(k) + 1
                  /\ c = IF Changes(k, v) THEN at ELSE ent[k].lastValueChangeAt
  OBVIOUS
<1>3. PICK e : e = [value |-> v, version |-> n, adopted |-> FALSE, lastEventAt |-> at,
                    lastValueChangeAt |-> c]
  BY Zenon
<1>4. Store(k, e)
  BY <1>2, <1>3, Zenon DEF Apply
<1>5. n \in Nat \ {0}
  BY <1>2, VersionFacts
<1>6. n <= MaxVersion
  BY <1>3, <1>4 DEF Store
<1>7. c \in Nat \cup {Zero}
  BY <1>1, <1>2, EntryFacts DEF Typed, Changes
<1>8. e \in Entries
  BY <1>1, <1>3, <1>5, <1>6, <1>7, Sizes DEF Entries
<1> QED
  BY <1>4, <1>8

\* And so is what AdoptSnapshot stores.
LEMMA AdoptStores ==
    ASSUME Typed, NEW k \in Keys, NEW v \in Values,
           NEW at \in instant - MaxDelay .. instant, AdoptSnapshot(k, v, at)
    PROVE  \E e \in Entries : Store(k, e)
<1>1. at \in Nat
  BY Sizes DEF Typed
<1>2. PICK n, c : /\ n = Version(k) + 1
                  /\ c = IF ent[k] = NoEntry THEN Zero ELSE ent[k].lastValueChangeAt
  OBVIOUS
<1>3. PICK e : e = [value |-> v, version |-> n, adopted |-> TRUE, lastEventAt |-> at,
                    lastValueChangeAt |-> c]
  BY Zenon
<1>4. Store(k, e)
  BY <1>2, <1>3, Zenon DEF AdoptSnapshot
<1>5. n \in Nat \ {0}
  BY <1>2, VersionFacts
<1>6. n <= MaxVersion
  BY <1>3, <1>4 DEF Store
<1>7. c \in Nat \cup {Zero}
  BY <1>2, EntryFacts DEF Typed
<1>8. e \in Entries
  BY <1>1, <1>3, <1>5, <1>6, <1>7, Sizes DEF Entries
<1> QED
  BY <1>4, <1>8

\* A step writes an entry, promotes, or changes the clock or the window.
LEMMA StepCases ==
    ASSUME Typed, OracleNext
    PROVE  \/ \E k \in Keys, e \in Entries : Store(k, e)
           \/ SettledKeys
           \/ TimePasses \/ \E w \in Windows : SetSettlementWindow(w)
BY ApplyStores, AdoptStores, Zenon DEF OracleNext

-----------------------------------------------------------------------------
(* The other steps.                                                        *)

\* Promotion moves old keys into the coalesced set: their buckets lie before the
\* horizon, so their last events do.
LEMMA PromoteKeeps ==
    ASSUME OracleInv, SettledKeys
    PROVE  OracleInv'
<1> DEFINE old == {b \in buckets : b[1] < BucketOf(instant - MaxWindow)}
<1>0. /\ ent' = ent /\ window' = window /\ instant' = instant
      /\ settled' = settled \cup {b[2] : b \in old} /\ buckets' = buckets \ old
  BY Zenon DEF SettledKeys, Promote
<1>1. Tracked' = Tracked
  BY <1>0, Zenon DEF Tracked
<1>2. Typed'
  BY <1>0 DEF OracleInv, Typed
<1>3. Fits'
  BY <1>1 DEF OracleInv, Fits
<1>4. instant - MaxWindow \in Nat
  BY Sizes DEF OracleInv, Typed
<1>5. ASSUME NEW b \in buckets
      PROVE  /\ b = <<b[1], b[2]>> /\ b[2] \in Tracked /\ b[2] \notin settled
             /\ b[1] = BucketOf(ent[b[2]].lastEventAt) /\ ent[b[2]].lastEventAt \in Nat
  <2>1. b[2] \in Tracked /\ b[2] \notin settled /\ b[1] = BucketOf(ent[b[2]].lastEventAt)
    BY DEF OracleInv, Indexed
  <2>2. b = <<b[1], b[2]>> /\ b[2] \in Keys
    BY DEF OracleInv, Typed
  <2>3. ent[b[2]].lastEventAt \in Nat
    BY <2>1, <2>2, TrackedFacts DEF OracleInv
  <2> QED
    BY <2>1, <2>2, <2>3
<1>6. ASSUME NEW b \in buckets, b \notin old
      PROVE  b[2] \notin settled'
  <2> SUFFICES ASSUME NEW c \in old, c[2] = b[2]
               PROVE  FALSE
    BY <1>0, <1>5
  <2>1. c = b
    BY <1>5
  <2> QED
    BY <1>6, <2>1
<1>7. ASSUME NEW k \in settled'
      PROVE  k \in Tracked /\ ent[k].lastEventAt < instant - MaxWindow
  <2>1. CASE k \in settled
    BY <2>1 DEF OracleInv, Indexed
  <2>2. CASE \E b \in old : k = b[2]
    <3>1. PICK b \in old : k = b[2]
      BY <2>2
    <3>2. BucketOf(ent[k].lastEventAt) < BucketOf(instant - MaxWindow) /\ k \in Tracked
          /\ ent[k].lastEventAt \in Nat
      BY <1>5, <3>1, Zenon
    <3> QED
      BY <1>4, <3>2, BucketOrder
  <2> QED
    BY <1>0, <2>1, <2>2
<1>8. ASSUME NEW k \in Tracked
      PROVE  k \in settled' \/ <<BucketOf(ent[k].lastEventAt), k>> \in buckets'
  <2>1. PICK b : b = <<BucketOf(ent[k].lastEventAt), k>>
    BY Zenon
  <2>2. b[2] = k
    BY <2>1
  <2>3. k \in settled \/ b \in buckets
    BY <2>1 DEF OracleInv, Indexed
  <2> QED
    BY <1>0, <2>1, <2>2, <2>3
<1>9. Indexed'
  BY <1>0, <1>1, <1>5, <1>6, <1>7, <1>8 DEF Indexed, BucketOf
<1> QED
  BY <1>2, <1>3, <1>9 DEF OracleInv

\* The clock only moves the horizon forward, and the window is no part of the index.
LEMMA ClockKeeps ==
    ASSUME OracleInv, TimePasses \/ \E w \in Windows : SetSettlementWindow(w)
    PROVE  OracleInv'
<1>1. /\ ent' = ent /\ buckets' = buckets /\ settled' = settled
      /\ instant' \in {instant, instant + 1}
      /\ window' = window \/ \E w \in Windows : window' = Clamped(w)
  BY DEF TimePasses, SetSettlementWindow
<1>2. window' \in 0 .. MaxWindow
  BY <1>1, ClampedFacts, Sizes DEF OracleInv, Typed
<1>3. instant' \in Nat /\ instant \in Nat /\ instant' >= instant /\ instant' >= MaxWindow + MaxDelay
  BY <1>1, Sizes DEF OracleInv, Typed
<1>4. Tracked' = Tracked
  BY <1>1 DEF Tracked
<1>5. Typed'
  BY <1>1, <1>2, <1>3 DEF OracleInv, Typed
<1>6. Fits'
  BY <1>4 DEF OracleInv, Fits
<1>7. \A k \in settled : k \in Tracked /\ ent[k].lastEventAt < instant' - MaxWindow
  <2> SUFFICES ASSUME NEW k \in settled
               PROVE  k \in Tracked /\ ent[k].lastEventAt < instant' - MaxWindow
    OBVIOUS
  <2>1. k \in Tracked /\ ent[k].lastEventAt < instant - MaxWindow
    BY DEF OracleInv, Indexed
  <2>2. ent[k].lastEventAt \in Nat
    BY <2>1, TrackedFacts, Zenon DEF OracleInv, Tracked
  <2> QED
    BY <1>3, <2>1, <2>2, Sizes
<1>8. Indexed'
  BY <1>1, <1>4, <1>7 DEF OracleInv, Indexed, BucketOf
<1> QED
  BY <1>5, <1>6, <1>8, Zenon DEF OracleInv

\* An empty shard satisfies the invariant.
LEMMA OracleStarts == OracleInit => OracleInv
<1> SUFFICES ASSUME OracleInit
             PROVE  OracleInv
  OBVIOUS
<1>1. Tracked = {}
  BY DEF OracleInit, Tracked
<1>2. Fits
  BY <1>1, FS_EmptySet, Sizes DEF Fits
<1>3. Indexed
  BY <1>1, Zenon DEF OracleInit, Indexed
<1>4. window \in 0 .. MaxWindow
  BY ClampedFacts, Sizes, Zenon DEF OracleInit
<1>5. Typed
  BY <1>4, Sizes DEF OracleInit, Typed
<1> QED
  BY <1>2, <1>3, <1>5 DEF OracleInv

\* Every step keeps it.
LEMMA OracleKeeps == OracleInv /\ [OracleNext]_oracleVars => OracleInv'
<1> SUFFICES ASSUME OracleInv, [OracleNext]_oracleVars
             PROVE  OracleInv'
  OBVIOUS
<1>1. CASE OracleNext
  <2>1. CASE \E k \in Keys, e \in Entries : Store(k, e)
    BY <2>1, StoreTyped, StoreIndexed, StoreFits DEF OracleInv
  <2>2. CASE SettledKeys
    BY <2>2, PromoteKeeps
  <2>3. CASE TimePasses \/ \E w \in Windows : SetSettlementWindow(w)
    BY <2>3, ClockKeeps, Zenon
  <2> QED
    BY <1>1, <2>1, <2>2, <2>3, StepCases DEF OracleInv
<1>2. CASE UNCHANGED oracleVars
  BY <1>2 DEF oracleVars, OracleInv, Typed, Indexed, Fits, Tracked, BucketOf
<1> QED
  BY <1>1, <1>2

\* It always holds.
LEMMA OracleHolds == OracleSpec => []OracleInv
BY OracleStarts, OracleKeeps, PTL DEF OracleSpec

\* The fields keep their types and the shard keeps to its key budget (I8), for any
\* keys, budget and windows: whoever is new makes room first.
THEOREM OracleTyped == OracleSpec => []OracleTypeOK
<1>1. OracleInv => OracleTypeOK
  BY Zenon DEF OracleInv, Typed, Fits, OracleTypeOK
<1> QED
  BY <1>1, OracleHolds, PTL

\* With the invariant the listing is exact: who is coalesced is settled under every
\* legal window, and everybody else is looked at.
LEMMA ListingFollows == OracleInv => IndexWhole /\ ListingExact
<1> SUFFICES ASSUME OracleInv
             PROVE  IndexWhole /\ ListingExact
  OBVIOUS
<1>1. settled \cup {b[2] : b \in buckets} = Tracked
  <2>1. ASSUME NEW k \in Tracked
        PROVE  k \in settled \cup {b[2] : b \in buckets}
    <3>1. PICK b : b = <<BucketOf(ent[k].lastEventAt), k>>
      BY Zenon
    <3>2. b[2] = k
      BY <3>1
    <3>3. k \in settled \/ b \in buckets
      BY <3>1 DEF OracleInv, Indexed
    <3> QED
      BY <3>2, <3>3
  <2>2. settled \subseteq Tracked /\ \A b \in buckets : b[2] \in Tracked
    BY DEF OracleInv, Indexed
  <2> QED
    BY <2>1, <2>2, Zenon
<1>2. ASSUME NEW w \in Windows, NEW k \in settled
      PROVE  IsSettled(ent[k], Clamped(w))
  <2>1. PICK c, t : c = Clamped(w) /\ t = ent[k].lastEventAt
    OBVIOUS
  <2>2. c \in Nat /\ c <= MaxWindow
    BY <2>1, ClampedFacts, Sizes
  <2>3. k \in Tracked /\ t < instant - MaxWindow
    BY <2>1, Zenon DEF OracleInv, Indexed
  <2>4. t \in Nat /\ instant \in Nat /\ MaxWindow \in Nat
    BY <2>1, <2>3, TrackedFacts, Sizes DEF OracleInv, Tracked, Typed
  <2>5. t < instant - c
    BY <2>2, <2>3, <2>4
  <2> QED
    BY <2>1, <2>5 DEF IsSettled
<1>3. ASSUME NEW w \in Windows
      PROVE  Listed(Clamped(w)) = {k \in Tracked : IsSettled(ent[k], Clamped(w))}
  <2>1. PICK c : c = Clamped(w)
    OBVIOUS
  <2>2. \A k \in settled : k \in Tracked /\ IsSettled(ent[k], c)
    BY <1>1, <1>2, <2>1
  <2>3. \A k \in Tracked : k \in settled \/ \E b \in buckets : b[2] = k
    BY <1>1
  <2>4. Listed(c) = settled \cup {k \in Tracked : \E b \in buckets : b[2] = k /\ IsSettled(ent[k], c)}
    BY Zenon DEF Listed
  <2>5. Listed(c) = {k \in Tracked : IsSettled(ent[k], c)}
    BY <2>2, <2>3, <2>4, Zenon
  <2> QED
    BY <2>1, <2>5
<1> QED
  BY <1>1, <1>3 DEF IndexWhole, ListingExact

\* Who loses its entry in a step was past every legal window, or no one's last
\* event is in an older bucket.
LEMMA EvictionIsCold ==
    ASSUME OracleInv, OracleNext, NEW k \in Keys, ent[k] # NoEntry, ent'[k] = NoEntry
    PROVE  \/ ent[k].lastEventAt < instant - MaxWindow
           \/ \A j \in Tracked : BucketOf(ent[k].lastEventAt) <= BucketOf(ent[j].lastEventAt)
<1>1. CASE \E n \in Keys, e \in Entries : Store(n, e)
  <2>1. PICK n \in Keys, e \in Entries : Store(n, e)
    BY <1>1
  <2>2. PICK victims \in Victims(n) :
            ent' = [j \in Keys |-> IF j = n THEN e ELSE IF j \in victims THEN NoEntry ELSE ent[j]]
    BY <2>1, Zenon DEF Store
  <2>3. k \in victims
    BY <2>2, EntryFacts, Zenon
  <2>4. PICK v \in Tracked :
            /\ victims = {v}
            /\ \/ v \in settled
               \/ \A j \in Tracked : BucketOf(ent[v].lastEventAt) <= BucketOf(ent[j].lastEventAt)
    BY <2>3, VictimFacts DEF OracleInv
  <2>5. v = k
    BY <2>3, <2>4
  <2> QED
    BY <2>4, <2>5, Zenon DEF OracleInv, Indexed
<1>2. CASE SettledKeys \/ TimePasses \/ \E w \in Windows : SetSettlementWindow(w)
  <2>1. ent' = ent
    BY <1>2, Zenon DEF SettledKeys, TimePasses, SetSettlementWindow
  <2> QED
    BY <2>1
<1> QED
  BY <1>1, <1>2, StepCases, Zenon DEF OracleInv

\* The settlement index lists exactly the settled keys, whatever legal window is
\* chosen next, and a full shard gives up one of its coldest keys, for any keys,
\* windows, bucket width and budget (settle.go, evict.go).
THEOREM IndexStaysExact == OracleSpec => IndexIsExact
<1> DEFINE Cold ==
        \A k \in Keys : ent[k] # NoEntry /\ ent'[k] = NoEntry =>
            \/ ent[k].lastEventAt < instant - MaxWindow
            \/ \A j \in Tracked : BucketOf(ent[k].lastEventAt) <= BucketOf(ent[j].lastEventAt)
<1>1. OracleInv /\ [OracleNext]_oracleVars => [Cold]_oracleVars
  BY EvictionIsCold
<1>2. OracleInv => IndexWhole /\ ListingExact
  BY ListingFollows
<1> QED
  BY <1>1, <1>2, OracleHolds, PTL DEF OracleSpec, IndexIsExact, EvictsColdest

-----------------------------------------------------------------------------
(* The counters: the invariant.                                            *)

Counters == {"fresh", "adopted", "suspect"}

\* Recount, as a function of its arguments alone.
Tally(entries, f) ==
    [c \in Counters |-> Cardinality({k \in TrustKeys : Share(entries[k], f)[c] = 1})]

\* The points of a call that has loaded the floor.
FloorLoaded == {"apply.gen", "apply.lock", "pattern.lock", "clear.lock", "adopt.gen", "adopt.lock"}

\* What an entry e looks like.
Stamped(e) == e # Vacant => e = [trust |-> e.trust, gen |-> e.gen] /\ e.gen \in Nat /\ e.gen <= gen

\* The types that are needed, and that no generation is ahead of the counter.
Recorded ==
    /\ call = [g \in Goroutines |-> call[g]]
    /\ count = [c \in Counters |-> count[c]]
    /\ gen \in Nat /\ floor \in Nat
    /\ \A k \in TrustKeys : Stamped(slots[k])
    /\ \A g \in Goroutines :
          /\ call[g].at \in {"apply.lock", "clear.floor", "clear.lock", "adopt.lock"} =>
                call[g].gen \in Nat /\ call[g].gen <= gen
          /\ call[g].at = "mark.store" => call[g].gen \in Nat
          /\ call[g].at = "adopt.lock" =>
                call[g] = [at |-> "adopt.lock", keys |-> call[g].keys, floor |-> call[g].floor,
                           gen |-> call[g].gen]

\* A call that moves the floor is the only one.
Alone == \A g, h \in Goroutines : g # h /\ call[g].at \in MovesFloor => call[h] = Idle

\* The floor a call has loaded is the floor.
SameFloor == \A g \in Goroutines : call[g].at \in FloorLoaded => call[g].floor = floor

\* Every entry is older than a generation n.
Older(n) == \A k \in TrustKeys : slots[k] # Vacant => slots[k].gen < n

\* The floor that is about to be stored is above every entry.
AboveAll == \A g \in Goroutines : call[g].at = "mark.store" => Older(call[g].gen)

\* The points where the counters may be wrong.
Unsettled == {"mark.zero", "clear.gen", "clear.floor", "clear.lock"}

\* The counters are right, or a clear is about to count again, or a mark is about
\* to make them right.
Exact ==
    /\ (\A g \in Goroutines : call[g].at \notin Unsettled) => count = Tally(slots, floor)
    /\ \A g \in Goroutines : call[g].at = "mark.zero" =>
          [count EXCEPT !.fresh = 0] = Tally(slots, floor)

CountInv == Recorded /\ (apart => Alone /\ SameFloor /\ AboveAll /\ Exact)

-----------------------------------------------------------------------------
(* The counters: counting.                                                 *)

\* forget and remember what changes, and every entry is counted.
LEMMA CountsChange ==
    ASSUME IsFiniteSet(TrustKeys), NEW A \in SUBSET TrustKeys, NEW B \in SUBSET TrustKeys,
           NEW D \in SUBSET TrustKeys, \A k \in TrustKeys \ D : k \in A <=> k \in B
    PROVE  Cardinality(A) - Cardinality(A \cap D) + Cardinality(B \cap D) = Cardinality(B)
<1>1. IsFiniteSet(A) /\ IsFiniteSet(B) /\ IsFiniteSet(D)
  BY FS_Subset, Zenon
<1>2. A \ D = B \ D
  OBVIOUS
<1>3. Cardinality(A \ D) = Cardinality(A) - Cardinality(A \cap D)
  BY <1>1, FS_Difference, Zenon
<1>4. Cardinality(B \ D) = Cardinality(B) - Cardinality(B \cap D)
  BY <1>1, FS_Difference, Zenon
<1>5. Cardinality(A) - Cardinality(A \cap D) = Cardinality(B) - Cardinality(B \cap D)
  BY <1>2, <1>3, <1>4, Zenon
<1>6. /\ IsFiniteSet(A \cap D) /\ IsFiniteSet(B \cap D)
      /\ Cardinality(A) \in Nat /\ Cardinality(B) \in Nat
  BY <1>1, FS_Subset, FS_CardinalityType, FS_Intersection, Zenon
<1>7. Cardinality(A \cap D) \in Nat /\ Cardinality(B \cap D) \in Nat
  BY <1>6, FS_CardinalityType, Zenon
<1> QED
  BY <1>5, <1>6, <1>7

\* Counters that were right are right after a Replace.
LEMMA ReplaceTallies ==
    ASSUME IsFiniteSet(TrustKeys), Recorded, NEW f, NEW entries, count = Tally(slots, f)
    PROVE  Replace(entries, f) = Tally(entries, f)
<1>1. DOMAIN count = Counters
  BY DEF Recorded
<1>2. ASSUME NEW c \in Counters
      PROVE  count[c] - Cardinality({k \in TrustKeys : entries[k] # slots[k] /\ Share(slots[k], f)[c] = 1})
                 + Cardinality({k \in TrustKeys : entries[k] # slots[k] /\ Share(entries[k], f)[c] = 1})
             = Cardinality({k \in TrustKeys : Share(entries[k], f)[c] = 1})
  <2> DEFINE A == {k \in TrustKeys : Share(slots[k], f)[c] = 1}
             B == {k \in TrustKeys : Share(entries[k], f)[c] = 1}
             D == {k \in TrustKeys : entries[k] # slots[k]}
  <2>1. count[c] = Cardinality(A)
    BY Zenon DEF Tally
  <2>2. {k \in TrustKeys : entries[k] # slots[k] /\ Share(slots[k], f)[c] = 1} = A \cap D
    BY Zenon
  <2>3. {k \in TrustKeys : entries[k] # slots[k] /\ Share(entries[k], f)[c] = 1} = B \cap D
    BY Zenon
  <2>4. \A k \in TrustKeys \ D : k \in A <=> k \in B
    BY Zenon
  <2>5. A \in SUBSET TrustKeys /\ B \in SUBSET TrustKeys /\ D \in SUBSET TrustKeys
    BY Zenon
  <2> HIDE DEF A, D
  <2>6. Cardinality(A) - Cardinality(A \cap D) + Cardinality(B \cap D) = Cardinality(B)
    BY <2>4, <2>5, CountsChange, Zenon
  <2> QED
    BY <2>1, <2>2, <2>3, <2>6, Zenon
<1> QED
  BY <1>1, <1>2, Zenon DEF Replace, Tally

\* When every entry is older than the new floor, nothing is fresh; what is adopted
\* or marked does not depend on the floor.
LEMMA NoneFresh ==
    ASSUME NEW f, NEW n \in Nat, Recorded, Older(n), count = Tally(slots, f)
    PROVE  [count EXCEPT !.fresh = 0] = Tally(slots, n)
<1>1. {k \in TrustKeys : Share(slots[k], n)["fresh"] = 1} = {}
  <2>1. ASSUME NEW k \in TrustKeys PROVE Share(slots[k], n)["fresh"] # 1
    <3>1. slots[k] # Vacant => ~(slots[k].gen >= n)
      <4>1. slots[k] # Vacant => slots[k].gen \in Nat /\ slots[k].gen < n
        BY Zenon DEF Older, Recorded, Stamped
      <4>2. \A m \in Nat : m < n => ~(m >= n)
        OBVIOUS
      <4> QED
        BY <4>1, <4>2, Zenon
    <3> QED
      BY <3>1 DEF Share
  <2> QED
    BY <2>1, Zenon
<1>2. \A k \in TrustKeys : /\ Share(slots[k], n)["adopted"] = Share(slots[k], f)["adopted"]
                          /\ Share(slots[k], n)["suspect"] = Share(slots[k], f)["suspect"]
  BY Zenon DEF Share
<1>3. Tally(slots, n)["fresh"] = 0
  BY <1>1, FS_EmptySet, Zenon DEF Tally, Counters
<1>4. /\ Tally(slots, n)["adopted"] = Tally(slots, f)["adopted"]
      /\ Tally(slots, n)["suspect"] = Tally(slots, f)["suspect"]
  <2>1. /\ {k \in TrustKeys : Share(slots[k], n)["adopted"] = 1} = {k \in TrustKeys : Share(slots[k], f)["adopted"] = 1}
        /\ {k \in TrustKeys : Share(slots[k], n)["suspect"] = 1} = {k \in TrustKeys : Share(slots[k], f)["suspect"] = 1}
    BY <1>2, Zenon
  <2> QED
    BY <2>1, Zenon DEF Tally, Counters
<1>5. \A c \in Counters : [count EXCEPT !.fresh = 0][c] = Tally(slots, n)[c]
  BY <1>3, <1>4, Zenon DEF Counters, Recorded, Tally
<1> QED
  BY <1>5, Zenon DEF Tally, Recorded

-----------------------------------------------------------------------------
(* The counters: the steps.                                                *)

\* What a call carries that is at c.
Carries(c) ==
    /\ c.at \in {"apply.lock", "clear.floor", "clear.lock", "adopt.lock"} => c.gen \in Nat /\ c.gen <= gen
    /\ c.at = "mark.store" => c.gen \in Nat
    /\ c.at = "adopt.lock" =>
          c = [at |-> "adopt.lock", keys |-> c.keys, floor |-> c.floor, gen |-> c.gen]

\* One call moves to c; the others stay.
LEMMA OneMoves ==
    ASSUME Recorded, NEW g \in Goroutines, NEW c, call' = [call EXCEPT ![g] = c]
    PROVE  /\ call' = [h \in Goroutines |-> call'[h]] /\ call'[g] = c
           /\ \A h \in Goroutines : h # g => call'[h] = call[h]
<1>1. call = [h \in Goroutines |-> call[h]]
  BY Zenon DEF Recorded
<1>2. DOMAIN call = Goroutines
  BY <1>1, Zenon
<1> QED
  BY <1>2, Zenon

\* The types stay when one call moves to c.
LEMMA RecordedKept ==
    ASSUME Recorded, NEW g \in Goroutines, NEW c, call' = [call EXCEPT ![g] = c], Carries(c),
           UNCHANGED gen, floor' \in Nat, count' = [n \in Counters |-> count'[n]],
           \A k \in TrustKeys : Stamped(slots'[k])
    PROVE  Recorded'
<1>1. /\ call' = [h \in Goroutines |-> call'[h]] /\ call'[g] = c
      /\ \A h \in Goroutines : h # g => call'[h] = call[h]
  BY OneMoves, Zenon
<1>2. \A h \in Goroutines : Carries(call[h])
  BY Zenon DEF Recorded, Carries
<1>3. \A h \in Goroutines : Carries(call'[h])
  BY <1>1, <1>2, Zenon
<1>4. \A h \in Goroutines : Carries(call[h])'
  BY <1>3, Zenon DEF Carries
<1>5. \A k \in TrustKeys : Stamped(slots[k])'
  BY Zenon DEF Stamped
<1> QED
  BY <1>1, <1>4, <1>5, Zenon DEF Recorded, Carries

\* What a goroutine that is in no call says of itself.
LEMMA IdleFacts == Idle.at = "idle"
  BY DEF Idle

\* The counters, the floor and the entries stay, and the call of g goes on.
LEMMA QuietCounts ==
    ASSUME CountInv, NEW g \in Goroutines, NEW c, call' = [call EXCEPT ![g] = c],
           UNCHANGED <<slots, count, gen, floor>>, apart' => apart /\ Alone',
           call[g].at # "mark.zero", c.at \notin {"mark.store", "mark.zero"}, Carries(c),
           apart /\ c.at \in FloorLoaded => c.floor = floor,
           call[g].at \in {"clear.gen", "clear.floor", "clear.lock"} =>
               c.at \in {"clear.gen", "clear.floor", "clear.lock"}
    PROVE  CountInv'
<1>1. /\ call' = [h \in Goroutines |-> call'[h]] /\ call'[g] = c
      /\ \A h \in Goroutines : h # g => call'[h] = call[h]
  BY OneMoves, Zenon DEF CountInv
<1>2. Recorded'
  <2>1. /\ \A k \in TrustKeys : Stamped(slots'[k])
        /\ count' = [n \in Counters |-> count'[n]] /\ floor' \in Nat
    BY Zenon DEF CountInv, Recorded
  <2> QED
    BY <2>1, RecordedKept, Zenon DEF CountInv
<1>3. ASSUME apart' PROVE SameFloor'
  BY <1>1, <1>3, Zenon DEF CountInv, SameFloor
<1>4. ASSUME apart' PROVE AboveAll'
  BY <1>1, <1>4, Zenon DEF CountInv, AboveAll, Older
<1>5. ASSUME apart' PROVE Exact'
  <2>1. (\A h \in Goroutines : call'[h].at \notin Unsettled) =>
            \A h \in Goroutines : call[h].at \notin Unsettled
    BY <1>1 DEF Unsettled
  <2>2. \A h \in Goroutines : call'[h].at = "mark.zero" => call[h].at = "mark.zero"
    BY <1>1, Zenon
  <2> QED
    BY <1>5, <2>1, <2>2, Zenon DEF CountInv, Exact
<1> QED
  BY <1>2, <1>3, <1>4, <1>5, Zenon DEF CountInv

\* Entries are written and the counters follow, while no call moves the floor.
LEMMA WriteCounts ==
    ASSUME IsFiniteSet(TrustKeys), CountInv, NEW g \in Goroutines, NEW c,
           call' = [call EXCEPT ![g] = c], call[g].at \in {"apply.lock", "pattern.lock", "adopt.lock"},
           c.at \in {"idle", "adopt.lock"}, Carries(c), c.at = "adopt.lock" => c.floor = call[g].floor,
           count' = Replace(slots', call[g].floor), UNCHANGED <<gen, floor>>,
           \A k \in TrustKeys : Stamped(slots'[k]),
           apart' => apart /\ Alone'
    PROVE  CountInv'
<1>1. /\ call' = [h \in Goroutines |-> call'[h]] /\ call'[g] = c
      /\ \A h \in Goroutines : h # g => call'[h] = call[h]
  BY OneMoves, Zenon DEF CountInv
<1>2. Recorded'
  <2>1. DOMAIN count = Counters /\ floor' \in Nat
    BY Zenon DEF CountInv, Recorded
  <2>2. count' = [n \in Counters |-> count'[n]]
    BY <2>1, Zenon DEF Replace
  <2> QED
    BY <2>1, <2>2, RecordedKept, Zenon DEF CountInv
<1>3. ASSUME apart' PROVE \A h \in Goroutines : call[h].at \notin MovesFloor
  <2>1. call[g].at \notin MovesFloor /\ call[g] # Idle
    BY DEF MovesFloor, Idle
  <2> QED
    BY <1>3, <2>1, Zenon DEF CountInv, Alone
<1>4. ASSUME apart' PROVE SameFloor'
  <2>1. call[g].floor = floor
    BY <1>4 DEF CountInv, SameFloor, FloorLoaded
  <2>2. c.at \in FloorLoaded => c.floor = floor
    BY <2>1 DEF FloorLoaded
  <2> QED
    BY <1>1, <1>4, <2>2, Zenon DEF CountInv, SameFloor
<1>5. ASSUME apart' PROVE AboveAll'
  <2>1. \A h \in Goroutines : call'[h].at # "mark.store"
    BY <1>1, <1>3, <1>5 DEF MovesFloor
  <2> QED
    BY <2>1, Zenon DEF AboveAll
<1>6. ASSUME apart' PROVE Exact'
  <2>1. count = Tally(slots, floor)
    <3>1. \A h \in Goroutines : call[h].at \notin Unsettled
      BY <1>3, <1>6 DEF MovesFloor, Unsettled
    <3> QED
      BY <1>6, <3>1, Zenon DEF CountInv, Exact
  <2>2. call[g].floor = floor
    BY <1>6 DEF CountInv, SameFloor, FloorLoaded
  <2>3. count' = Tally(slots', floor)
    BY <2>1, <2>2, ReplaceTallies, Zenon DEF CountInv
  <2>4. \A h \in Goroutines : call'[h].at # "mark.zero"
    BY <1>1, <1>3, <1>6 DEF MovesFloor
  <2> QED
    BY <2>3, <2>4, Zenon DEF Exact
<1> QED
  BY <1>2, <1>4, <1>5, <1>6, Zenon DEF CountInv

\* What writing an entry leaves in the shard is not ahead of the counter.
LEMMA WrittenFacts ==
    ASSUME Recorded, NEW k, NEW e, NEW victims, Stamped(e), slots' = Written(k, e, victims)
    PROVE  \A j \in TrustKeys : Stamped(slots'[j])
<1> SUFFICES ASSUME NEW j \in TrustKeys PROVE Stamped(slots'[j])
  OBVIOUS
<1>1. slots'[j] = IF j = k THEN e ELSE IF j \in victims THEN Vacant ELSE slots[j]
  BY Zenon DEF Written
<1>2. Stamped(slots[j]) /\ Stamped(Vacant)
  BY Zenon DEF Recorded, Stamped
<1> QED
  BY <1>1, <1>2, Zenon

\* Apply.
LEMMA ApplyCounts ==
    ASSUME IsFiniteSet(TrustKeys), CountInv, NEW g \in Goroutines,
           apart' => apart /\ Alone',
           \/ \E k \in TrustKeys, t \in {"complete", "suspect"} : ApplyFloor(g, k, t)
           \/ ApplyGen(g) \/ ApplyLock(g)
    PROVE  CountInv'
<1>1. ASSUME NEW k \in TrustKeys, NEW t \in {"complete", "suspect"}, ApplyFloor(g, k, t)
      PROVE  CountInv'
  <2>1. PICK c : c = [at |-> "apply.gen", key |-> k, trust |-> t, floor |-> floor]
    BY Zenon
  <2>2. c.at = "apply.gen" /\ c.floor = floor
    BY <2>1, Zenon
  <2>3. /\ call' = [call EXCEPT ![g] = c] /\ UNCHANGED <<slots, count, gen, floor>>
        /\ call[g].at = "idle"
    <3>1. call' = [call EXCEPT ![g] = c] /\ UNCHANGED <<slots, count, gen, floor>>
      BY <1>1, <2>1, Zenon DEF ApplyFloor, Begin
    <3>2. call[g] = Idle
      BY <1>1, Zenon DEF ApplyFloor, Begin
    <3> QED
      BY <3>1, <3>2, IdleFacts, Zenon
  <2>4. Carries(c)
    BY <2>2 DEF Carries
  <2> QED
    BY <2>2, <2>3, <2>4, QuietCounts, Zenon
<1>2. CASE ApplyGen(g)
  <2>1. PICK c : c = [at |-> "apply.lock", key |-> call[g].key, trust |-> call[g].trust,
                      floor |-> call[g].floor, gen |-> gen]
    BY Zenon
  <2>2. c.at = "apply.lock" /\ c.floor = call[g].floor /\ c.gen = gen
    BY <2>1, Zenon
  <2>3. /\ call' = [call EXCEPT ![g] = c] /\ UNCHANGED <<slots, count, gen, floor>>
        /\ call[g].at = "apply.gen"
    BY <1>2, <2>1, Zenon DEF ApplyGen
  <2>4. Carries(c)
    BY <2>2 DEF Carries, CountInv, Recorded
  <2>5. apart => c.floor = floor
    BY <2>2, <2>3 DEF CountInv, SameFloor, FloorLoaded
  <2> QED
    BY <2>2, <2>3, <2>4, <2>5, QuietCounts, Zenon
<1>3. CASE ApplyLock(g)
  <2>1. PICK victims \in Outgoing(call[g].key) :
           /\ slots' = Written(call[g].key, [trust |-> call[g].trust, gen |-> call[g].gen], victims)
           /\ count' = Replace(slots', call[g].floor)
    BY <1>3, Zenon DEF ApplyLock
  <2>2. /\ call[g].at = "apply.lock" /\ call' = [call EXCEPT ![g] = Idle]
        /\ UNCHANGED <<gen, floor>>
    BY <1>3 DEF ApplyLock, Return
  <2>3. \A j \in TrustKeys : Stamped(slots'[j])
    <3>1. PICK e : e = [trust |-> call[g].trust, gen |-> call[g].gen]
      BY Zenon
    <3>2. Stamped(e)
      BY <2>2, <3>1 DEF CountInv, Recorded, Stamped
    <3> QED
      BY <2>1, <3>1, <3>2, WrittenFacts, Zenon DEF CountInv
  <2>4. Carries(Idle) /\ Idle.at = "idle"
    BY DEF Carries, Idle
  <2> QED
    BY <2>1, <2>2, <2>3, <2>4, WriteCounts, Zenon
<1> QED
  BY <1>1, <1>2, <1>3, Zenon

\* AdoptSnapshot.
LEMMA AdoptCounts ==
    ASSUME IsFiniteSet(TrustKeys), CountInv, NEW g \in Goroutines,
           apart' => apart /\ Alone',
           \/ \E batch \in (SUBSET TrustKeys) \ {{}} : AdoptFloor(g, batch)
           \/ AdoptGen(g) \/ AdoptLock(g)
    PROVE  CountInv'
<1>1. ASSUME NEW batch \in (SUBSET TrustKeys) \ {{}}, AdoptFloor(g, batch)
      PROVE  CountInv'
  <2>1. PICK c : c = [at |-> "adopt.gen", keys |-> batch, floor |-> floor]
    BY Zenon
  <2>2. c.at = "adopt.gen" /\ c.floor = floor
    BY <2>1, Zenon
  <2>3. /\ call' = [call EXCEPT ![g] = c] /\ UNCHANGED <<slots, count, gen, floor>>
        /\ call[g].at = "idle"
    <3>1. call' = [call EXCEPT ![g] = c] /\ UNCHANGED <<slots, count, gen, floor>>
      BY <1>1, <2>1, Zenon DEF AdoptFloor, Begin
    <3>2. call[g] = Idle
      BY <1>1, Zenon DEF AdoptFloor, Begin
    <3> QED
      BY <3>1, <3>2, IdleFacts, Zenon
  <2>4. Carries(c)
    BY <2>2 DEF Carries
  <2> QED
    BY <2>2, <2>3, <2>4, QuietCounts, Zenon
<1>2. CASE AdoptGen(g)
  <2>1. PICK c : c = [at |-> "adopt.lock", keys |-> call[g].keys, floor |-> call[g].floor, gen |-> gen]
    BY Zenon
  <2>2. c.at = "adopt.lock" /\ c.floor = call[g].floor /\ c.gen = gen
    BY <2>1, Zenon
  <2>3. /\ call' = [call EXCEPT ![g] = c] /\ UNCHANGED <<slots, count, gen, floor>>
        /\ call[g].at = "adopt.gen"
    BY <1>2, <2>1, Zenon DEF AdoptGen
  <2>4. Carries(c)
    BY <2>1 DEF Carries, CountInv, Recorded
  <2>5. apart => c.floor = floor
    BY <2>2, <2>3 DEF CountInv, SameFloor, FloorLoaded
  <2> QED
    BY <2>2, <2>3, <2>4, <2>5, QuietCounts, Zenon
<1>3. CASE AdoptLock(g)
  <2>1. call[g].at = "adopt.lock" /\ UNCHANGED <<gen, floor>>
    BY <1>3, Zenon DEF AdoptLock
  <2>2. PICK k \in call[g].keys : \E victims \in Outgoing(k) :
           /\ slots' = Written(k, [trust |-> "adopted", gen |-> call[g].gen], victims)
           /\ count' = Replace(slots', call[g].floor)
           /\ call' = [call EXCEPT ![g] = IF call[g].keys = {k} THEN Idle
                                          ELSE [call[g] EXCEPT !.keys = @ \ {k}]]
    BY <1>3, Zenon DEF AdoptLock
  <2>3. PICK victims \in Outgoing(k) :
           /\ slots' = Written(k, [trust |-> "adopted", gen |-> call[g].gen], victims)
           /\ count' = Replace(slots', call[g].floor)
           /\ call' = [call EXCEPT ![g] = IF call[g].keys = {k} THEN Idle
                                          ELSE [call[g] EXCEPT !.keys = @ \ {k}]]
    BY <2>2, Zenon
  <2>4. PICK c : c = IF call[g].keys = {k} THEN Idle ELSE [call[g] EXCEPT !.keys = @ \ {k}]
    BY Zenon
  <2>5. /\ c.at \in {"idle", "adopt.lock"} /\ (c.at = "adopt.lock" => c.floor = call[g].floor)
        /\ Carries(c)
    <3>1. Carries(call[g])
      BY Zenon DEF CountInv, Recorded, Carries
    <3>2. CASE c = Idle
      BY <3>2, Zenon DEF Carries, Idle
    <3>3. CASE c = [call[g] EXCEPT !.keys = @ \ {k}]
      BY <2>1, <3>1, <3>3 DEF Carries
    <3> QED
      BY <2>4, <3>2, <3>3, Zenon
  <2>6. \A j \in TrustKeys : Stamped(slots'[j])
    <3>1. PICK e : e = [trust |-> "adopted", gen |-> call[g].gen]
      BY Zenon
    <3>2. Stamped(e)
      BY <2>1, <3>1 DEF CountInv, Recorded, Stamped
    <3> QED
      BY <2>3, <3>1, <3>2, WrittenFacts, Zenon DEF CountInv
  <2>7. call' = [call EXCEPT ![g] = c] /\ count' = Replace(slots', call[g].floor)
    BY <2>3, <2>4, Zenon
  <2> QED
    BY <2>1, <2>5, <2>6, <2>7, WriteCounts, Zenon
<1> QED
  BY <1>1, <1>2, <1>3, Zenon

\* MarkSuspect(pattern).
LEMMA PatternCounts ==
    ASSUME IsFiniteSet(TrustKeys), CountInv, NEW g \in Goroutines,
           apart' => apart /\ Alone',
           (\E pattern \in Patterns : MarkPatternFloor(g, pattern)) \/ MarkPatternLock(g)
    PROVE  CountInv'
<1>1. ASSUME NEW pattern \in Patterns, MarkPatternFloor(g, pattern)
      PROVE  CountInv'
  <2>1. PICK c : c = [at |-> "pattern.lock", keys |-> pattern, floor |-> floor]
    BY Zenon
  <2>2. c.at = "pattern.lock" /\ c.floor = floor
    BY <2>1, Zenon
  <2>3. /\ call' = [call EXCEPT ![g] = c] /\ UNCHANGED <<slots, count, gen, floor>>
        /\ call[g].at = "idle"
    <3>1. call' = [call EXCEPT ![g] = c] /\ UNCHANGED <<slots, count, gen, floor>>
      BY <1>1, <2>1, Zenon DEF MarkPatternFloor, Begin
    <3>2. call[g] = Idle
      BY <1>1, Zenon DEF MarkPatternFloor, Begin
    <3> QED
      BY <3>1, <3>2, IdleFacts, Zenon
  <2>4. Carries(c)
    BY <2>2 DEF Carries
  <2> QED
    BY <2>2, <2>3, <2>4, QuietCounts, Zenon
<1>2. CASE MarkPatternLock(g)
  <2>1. /\ slots' = [k \in TrustKeys |->
              IF k \in call[g].keys \cap Occupied /\ slots[k].trust = "complete"
              THEN [slots[k] EXCEPT !.trust = "suspect"] ELSE slots[k]]
        /\ count' = Replace(slots', call[g].floor)
    BY <1>2, Zenon DEF MarkPatternLock
  <2>2. /\ call[g].at = "pattern.lock" /\ call' = [call EXCEPT ![g] = Idle]
        /\ UNCHANGED <<gen, floor>>
    BY <1>2, Zenon DEF MarkPatternLock, Return
  <2>3. ASSUME NEW j \in TrustKeys
        PROVE  Stamped(slots'[j])
    <3>1. Stamped(slots[j])
      BY Zenon DEF CountInv, Recorded
    <3>2. CASE slots'[j] = slots[j]
      BY <3>1, <3>2, Zenon
    <3>3. CASE slots[j] # Vacant /\ slots'[j] = [slots[j] EXCEPT !.trust = "suspect"]
      BY <3>1, <3>3, Zenon DEF Stamped
    <3> QED
      BY <2>1, <3>2, <3>3, Zenon DEF Occupied
  <2>4. Carries(Idle) /\ Idle.at = "idle"
    BY DEF Carries, Idle
  <2> QED
    BY <2>1, <2>2, <2>3, <2>4, WriteCounts, Zenon
<1> QED
  BY <1>1, <1>2, Zenon

\* Where one call moves the floor, the others rest.
LEMMA OthersRest ==
    ASSUME Alone, NEW g \in Goroutines, call[g].at \in MovesFloor
    PROVE  \A h \in Goroutines : h # g => call[h].at = "idle"
<1>1. Idle.at = "idle"
  BY DEF Idle
<1> QED
  BY <1>1, Zenon DEF Alone

\* MarkSuspect("") takes its generation.
LEMMA MarkAddCounts ==
    ASSUME CountInv, NEW g \in Goroutines, apart' => apart /\ Alone', MarkAdd(g)
    PROVE  CountInv'
<1>1. PICK c : c = [at |-> "mark.store", gen |-> gen + 1]
  BY Zenon
<1>2. c.at = "mark.store" /\ c.gen = gen + 1
  BY <1>1
<1>3. call' = [call EXCEPT ![g] = c] /\ UNCHANGED <<slots, count, floor>> /\ gen' = gen + 1
      /\ call[g].at = "idle"
  <2>1. call' = [call EXCEPT ![g] = c] /\ UNCHANGED <<slots, count, floor>> /\ gen' = gen + 1
    BY <1>1, Zenon DEF MarkAdd, Begin
  <2>2. call[g] = Idle
    BY Zenon DEF MarkAdd, Begin
  <2> QED
    BY <2>1, <2>2, IdleFacts, Zenon
<1>4. /\ call' = [h \in Goroutines |-> call'[h]] /\ call'[g] = c
      /\ \A h \in Goroutines : h # g => call'[h] = call[h]
  BY <1>3, OneMoves, Zenon DEF CountInv
<1>5. gen \in Nat /\ gen' \in Nat
  BY <1>3 DEF CountInv, Recorded
<1>6. \A n \in Nat : n <= gen => n <= gen' /\ n < gen + 1
  BY <1>3, <1>5
<1>7. Recorded'
  <2>1. \A h \in Goroutines : Carries(call[h])
    BY Zenon DEF CountInv, Recorded, Carries
  <2>2. Carries(c)
    BY <1>2, <1>5 DEF Carries
  <2>3. \A h \in Goroutines : Carries(call'[h])
    BY <1>4, <2>1, <2>2, Zenon
  <2>4. \A h \in Goroutines : Carries(call[h])'
    BY <1>6, <2>3, Zenon DEF Carries
  <2>5. \A k \in TrustKeys : Stamped(slots[k])
    BY Zenon DEF CountInv, Recorded
  <2>6. \A k \in TrustKeys : Stamped(slots[k])'
    BY <1>3, <1>6, <2>5, Zenon DEF Stamped
  <2> QED
    BY <1>3, <1>4, <1>5, <2>4, <2>6, Zenon DEF CountInv, Recorded, Carries
<1>8. ASSUME apart' PROVE SameFloor'
  <2>1. c.at \notin FloorLoaded
    BY <1>2 DEF FloorLoaded
  <2> QED
    BY <1>3, <1>4, <1>8, <2>1, Zenon DEF CountInv, SameFloor
<1>9. ASSUME apart' PROVE AboveAll'
  <2>1. Older(c.gen)
    BY <1>2, <1>6, Zenon DEF CountInv, Recorded, Stamped, Older
  <2>2. \A h \in Goroutines : h # g /\ call'[h].at = "mark.store" => Older(call'[h].gen)
    BY <1>4, <1>9, Zenon DEF CountInv, AboveAll
  <2>3. \A h \in Goroutines : call'[h].at = "mark.store" => Older(call'[h].gen)
    BY <1>4, <2>1, <2>2, Zenon
  <2> QED
    BY <1>3, <2>3, Zenon DEF AboveAll, Older
<1>10. ASSUME apart' PROVE Exact'
  <2>1. (\A h \in Goroutines : call'[h].at \notin Unsettled) =>
            \A h \in Goroutines : call[h].at \notin Unsettled
    BY <1>3, <1>4 DEF Unsettled
  <2>2. \A h \in Goroutines : call'[h].at = "mark.zero" => call[h].at = "mark.zero"
    BY <1>2, <1>4
  <2> QED
    BY <1>3, <1>10, <2>1, <2>2, Zenon DEF CountInv, Exact
<1> QED
  BY <1>7, <1>8, <1>9, <1>10, Zenon DEF CountInv

\* MarkSuspect("") stores the floor.
LEMMA MarkStoreCounts ==
    ASSUME CountInv, NEW g \in Goroutines, apart' => apart /\ Alone', MarkStore(g)
    PROVE  CountInv'
<1>1. PICK c : c = [at |-> "mark.zero"]
  BY Zenon
<1>2. c.at = "mark.zero"
  BY <1>1
<1>3. call' = [call EXCEPT ![g] = c] /\ UNCHANGED <<slots, count, gen>>
      /\ call[g].at = "mark.store" /\ floor' = call[g].gen
  BY <1>1, Zenon DEF MarkStore
<1>4. /\ call' = [h \in Goroutines |-> call'[h]] /\ call'[g] = c
      /\ \A h \in Goroutines : h # g => call'[h] = call[h]
  BY <1>3, OneMoves, Zenon DEF CountInv
<1>5. floor' \in Nat
  BY <1>3, Zenon DEF CountInv, Recorded
<1>6. Recorded'
  <2>1. /\ \A k \in TrustKeys : Stamped(slots'[k])
        /\ count' = [n \in Counters |-> count'[n]]
    BY <1>3, Zenon DEF CountInv, Recorded
  <2>2. Carries(c)
    BY <1>2 DEF Carries
  <2> QED
    BY <1>3, <1>5, <2>1, <2>2, RecordedKept, Zenon DEF CountInv
<1>7. ASSUME apart' PROVE \A h \in Goroutines : h # g => call[h].at = "idle" /\ call'[h].at = "idle"
  <2>1. Alone /\ call[g].at \in MovesFloor
    BY <1>3, <1>7 DEF CountInv, MovesFloor
  <2> QED
    BY <1>4, <2>1, OthersRest, Zenon
<1>8. ASSUME apart' PROVE SameFloor' /\ AboveAll'
  <2>1. "idle" \notin FloorLoaded /\ "mark.zero" \notin FloorLoaded
    BY DEF FloorLoaded
  <2>2. \A h \in Goroutines : call'[h].at \notin FloorLoaded /\ call'[h].at # "mark.store"
    BY <1>2, <1>4, <1>7, <1>8, <2>1, Zenon
  <2> QED
    BY <2>2, Zenon DEF SameFloor, AboveAll
<1>9. ASSUME apart' PROVE Exact'
  <2>1. \A h \in Goroutines : call[h].at \notin Unsettled
    BY <1>3, <1>7, <1>9 DEF Unsettled
  <2>2. count = Tally(slots, floor)
    BY <1>9, <2>1, Zenon DEF CountInv, Exact
  <2>3. Older(floor')
    BY <1>3, <1>9, Zenon DEF CountInv, AboveAll
  <2>4. [count EXCEPT !.fresh = 0] = Tally(slots, floor')
    BY <1>5, <2>2, <2>3, NoneFresh, Zenon DEF CountInv
  <2>5. call'[g].at \in Unsettled
    BY <1>2, <1>4, Zenon DEF Unsettled
  <2> QED
    BY <1>3, <2>4, <2>5, Zenon DEF Exact
<1> QED
  BY <1>6, <1>8, <1>9, Zenon DEF CountInv

\* MarkSuspect("") sets fresh to zero.
LEMMA MarkZeroCounts ==
    ASSUME CountInv, NEW g \in Goroutines, apart' => apart /\ Alone', MarkZero(g)
    PROVE  CountInv'
<1>1. call' = [call EXCEPT ![g] = Idle] /\ UNCHANGED <<slots, gen, floor>>
      /\ call[g].at = "mark.zero" /\ count' = [count EXCEPT !.fresh = 0]
  BY Zenon DEF MarkZero, Return
<1>2. Idle.at = "idle" /\ Carries(Idle)
  BY DEF Idle, Carries
<1>3. /\ call' = [h \in Goroutines |-> call'[h]] /\ call'[g] = Idle
      /\ \A h \in Goroutines : h # g => call'[h] = call[h]
  BY <1>1, OneMoves, Zenon DEF CountInv
<1>4. Recorded'
  <2>1. /\ \A k \in TrustKeys : Stamped(slots'[k])
        /\ count = [n \in Counters |-> count[n]] /\ floor' \in Nat
    BY <1>1, Zenon DEF CountInv, Recorded
  <2>2. count' = [n \in Counters |-> count'[n]]
    BY <1>1, <2>1, Zenon
  <2> QED
    BY <1>1, <1>2, <2>1, <2>2, RecordedKept, Zenon DEF CountInv
<1>5. ASSUME apart' PROVE \A h \in Goroutines : call'[h].at = "idle"
  <2>1. Alone /\ call[g].at \in MovesFloor
    BY <1>1, <1>5 DEF CountInv, MovesFloor
  <2> QED
    BY <1>2, <1>3, <2>1, OthersRest, Zenon
<1>6. ASSUME apart' PROVE SameFloor' /\ AboveAll'
  <2>1. "idle" \notin FloorLoaded
    BY DEF FloorLoaded
  <2> QED
    BY <1>5, <1>6, <2>1, Zenon DEF SameFloor, AboveAll
<1>7. ASSUME apart' PROVE Exact'
  <2>1. count' = Tally(slots, floor)
    BY <1>1, <1>7, Zenon DEF CountInv, Exact
  <2>2. \A h \in Goroutines : call'[h].at # "mark.zero"
    BY <1>5, <1>7
  <2> QED
    BY <1>1, <2>1, <2>2, Zenon DEF Exact
<1> QED
  BY <1>4, <1>6, <1>7, Zenon DEF CountInv

\* ClearSuspect("") lowers the floor.
LEMMA ClearStoreCounts ==
    ASSUME CountInv, NEW g \in Goroutines, apart' => apart /\ Alone', ClearStore(g)
    PROVE  CountInv'
<1>1. PICK c : c = [at |-> "clear.gen", keys |-> TrustKeys]
  BY Zenon
<1>2. c.at = "clear.gen"
  BY <1>1
<1>3. call' = [call EXCEPT ![g] = c] /\ UNCHANGED <<slots, count, gen>> /\ floor' = 0
  BY <1>1, Zenon DEF ClearStore, Begin
<1>4. /\ call' = [h \in Goroutines |-> call'[h]] /\ call'[g] = c
      /\ \A h \in Goroutines : h # g => call'[h] = call[h]
  BY <1>3, OneMoves, Zenon DEF CountInv
<1>5. Recorded'
  <2>1. /\ \A k \in TrustKeys : Stamped(slots'[k])
        /\ count' = [n \in Counters |-> count'[n]]
    BY <1>3, Zenon DEF CountInv, Recorded
  <2>2. Carries(c)
    BY <1>2 DEF Carries
  <2>3. floor' \in Nat
    BY <1>3
  <2> QED
    BY <1>3, <2>1, <2>2, <2>3, RecordedKept, Zenon DEF CountInv
<1>6. ASSUME apart' PROVE \A h \in Goroutines : h # g => call'[h].at = "idle"
  <2>1. call'[g].at \in MovesFloor /\ Idle.at = "idle"
    BY <1>2, <1>4 DEF MovesFloor, Idle
  <2> QED
    BY <1>6, <2>1, Zenon DEF Alone
<1>7. ASSUME apart' PROVE SameFloor' /\ AboveAll' /\ Exact'
  <2>1. "idle" \notin FloorLoaded /\ "clear.gen" \notin FloorLoaded /\ "clear.gen" \in Unsettled
    BY DEF FloorLoaded, Unsettled
  <2>2. \A h \in Goroutines : call'[h].at \notin FloorLoaded \cup {"mark.store", "mark.zero"}
    BY <1>2, <1>4, <1>6, <1>7, <2>1, Zenon
  <2> QED
    BY <1>2, <1>4, <2>1, <2>2, Zenon DEF SameFloor, AboveAll, Exact
<1> QED
  BY <1>5, <1>7, Zenon DEF CountInv

\* ClearSuspect up to its lock.
LEMMA ClearingCounts ==
    ASSUME CountInv, NEW g \in Goroutines, apart' => apart /\ Alone',
           (\E pattern \in Patterns : ClearPattern(g, pattern)) \/ ClearGen(g) \/ ClearFloor(g)
    PROVE  CountInv'
<1>1. ASSUME NEW pattern \in Patterns, ClearPattern(g, pattern)
      PROVE  CountInv'
  <2>1. PICK c : c = [at |-> "clear.gen", keys |-> pattern]
    BY Zenon
  <2>2. c.at = "clear.gen" /\ c.at \notin FloorLoaded
    BY <2>1, Zenon DEF FloorLoaded
  <2>3. /\ call' = [call EXCEPT ![g] = c] /\ UNCHANGED <<slots, count, gen, floor>>
        /\ call[g].at = "idle"
    <3>1. call' = [call EXCEPT ![g] = c] /\ UNCHANGED <<slots, count, gen, floor>>
      BY <1>1, <2>1, Zenon DEF ClearPattern, Begin
    <3>2. call[g] = Idle
      BY <1>1, Zenon DEF ClearPattern, Begin
    <3> QED
      BY <3>1, <3>2, IdleFacts, Zenon
  <2>4. Carries(c)
    BY <2>2 DEF Carries
  <2> QED
    BY <2>2, <2>3, <2>4, QuietCounts, Zenon
<1>2. CASE ClearGen(g)
  <2>1. PICK c : c = [at |-> "clear.floor", keys |-> call[g].keys, gen |-> gen]
    BY Zenon
  <2>2. c.at = "clear.floor" /\ c.at \notin FloorLoaded /\ c.gen = gen
    BY <2>1 DEF FloorLoaded
  <2>3. /\ call' = [call EXCEPT ![g] = c] /\ UNCHANGED <<slots, count, gen, floor>>
        /\ call[g].at = "clear.gen"
    BY <1>2, <2>1, Zenon DEF ClearGen
  <2>4. Carries(c)
    BY <2>2 DEF Carries, CountInv, Recorded
  <2> QED
    BY <2>2, <2>3, <2>4, QuietCounts, Zenon
<1>3. CASE ClearFloor(g)
  <2>1. PICK c : c = [at |-> "clear.lock", keys |-> call[g].keys, gen |-> call[g].gen, floor |-> floor]
    BY Zenon
  <2>2. c.at = "clear.lock" /\ c.gen = call[g].gen /\ c.floor = floor
    BY <2>1, Zenon
  <2>3. /\ call' = [call EXCEPT ![g] = c] /\ UNCHANGED <<slots, count, gen, floor>>
        /\ call[g].at = "clear.floor"
    BY <1>3, <2>1, Zenon DEF ClearFloor
  <2>4. Carries(c)
    BY <2>2, <2>3, Zenon DEF Carries, CountInv, Recorded
  <2> QED
    BY <2>2, <2>3, <2>4, QuietCounts, Zenon
<1> QED
  BY <1>1, <1>2, <1>3, Zenon

\* ClearSuspect under the lock: the entries are lifted and counted again.
LEMMA ClearLockCounts ==
    ASSUME CountInv, NEW g \in Goroutines, apart' => apart /\ Alone', ClearLock(g)
    PROVE  CountInv'
<1>1. /\ call' = [call EXCEPT ![g] = Idle] /\ UNCHANGED <<gen, floor>>
      /\ call[g].at = "clear.lock" /\ count' = Recount(slots', call[g].floor)
      /\ slots' = [k \in TrustKeys |-> IF k \in call[g].keys \cap Occupied /\ slots[k].trust # "adopted"
                                       THEN [trust |-> "complete", gen |-> call[g].gen] ELSE slots[k]]
  BY Zenon DEF ClearLock, Return
<1>2. Idle.at = "idle" /\ Carries(Idle)
  BY DEF Idle, Carries
<1>3. /\ call' = [h \in Goroutines |-> call'[h]] /\ call'[g] = Idle
      /\ \A h \in Goroutines : h # g => call'[h] = call[h]
  BY <1>1, OneMoves, Zenon DEF CountInv
<1>4. count' = Tally(slots', call[g].floor)
  <2>1. DOMAIN count = Counters
    BY Zenon DEF CountInv, Recorded
  <2> QED
    BY <1>1, <2>1, Zenon DEF Recount, Tally
<1>5. ASSUME NEW k \in TrustKeys PROVE Stamped(slots'[k])
  <2>1. Stamped(slots[k])
    BY Zenon DEF CountInv, Recorded
  <2>2. PICK e : e = [trust |-> "complete", gen |-> call[g].gen]
    BY Zenon
  <2>3. Stamped(e)
    BY <1>1, <2>2 DEF CountInv, Recorded, Stamped
  <2> QED
    BY <1>1, <2>1, <2>2, <2>3, Zenon
<1>6. Recorded'
  <2>1. count' = [n \in Counters |-> count'[n]]
    BY <1>4, Zenon DEF Tally
  <2>2. floor' \in Nat
    BY <1>1, Zenon DEF CountInv, Recorded
  <2> QED
    BY <1>1, <1>2, <1>5, <2>1, <2>2, RecordedKept, Zenon DEF CountInv
<1>7. ASSUME apart' PROVE \A h \in Goroutines : call'[h].at = "idle"
  <2>1. Alone /\ call[g].at \in MovesFloor
    BY <1>1, <1>7, Zenon DEF CountInv, MovesFloor
  <2> QED
    BY <1>2, <1>3, <2>1, OthersRest, Zenon
<1>8. ASSUME apart' PROVE SameFloor' /\ AboveAll'
  <2>1. "idle" \notin FloorLoaded
    BY DEF FloorLoaded
  <2> QED
    BY <1>7, <1>8, <2>1, Zenon DEF SameFloor, AboveAll
<1>9. ASSUME apart' PROVE Exact'
  <2>1. call[g].floor = floor
    BY <1>1, <1>9 DEF CountInv, SameFloor, FloorLoaded
  <2>2. \A h \in Goroutines : call'[h].at # "mark.zero"
    BY <1>7, <1>9
  <2> QED
    BY <1>1, <1>4, <2>1, <2>2, Zenon DEF Exact
<1> QED
  BY <1>6, <1>8, <1>9, Zenon DEF CountInv

-----------------------------------------------------------------------------
\* Nothing is there and nothing is counted.
LEMMA CountStarts == TrustInit => CountInv
<1> SUFFICES ASSUME TrustInit PROVE CountInv
  OBVIOUS
<1>1. \A g \in Goroutines : call[g] = Idle /\ call[g].at = "idle"
  BY DEF TrustInit, Idle
<1>2. Recorded
  <2>1. \A g \in Goroutines : Carries(call[g])
    BY <1>1 DEF Carries
  <2>2. \A k \in TrustKeys : Stamped(slots[k])
    BY DEF TrustInit, Stamped
  <2>3. count = [c \in Counters |-> count[c]]
    BY DEF TrustInit, Counters
  <2>4. gen \in Nat /\ floor \in Nat /\ call = [g \in Goroutines |-> call[g]]
    BY DEF TrustInit
  <2> QED
    BY <2>1, <2>2, <2>3, <2>4, Zenon DEF Recorded, Carries
<1>3. Alone
  BY <1>1, Zenon DEF Alone
<1>4. SameFloor /\ AboveAll
  BY <1>1 DEF SameFloor, AboveAll, FloorLoaded
<1>5. Exact
  <2>1. \A c \in Counters : {k \in TrustKeys : Share(slots[k], floor)[c] = 1} = {}
    BY DEF TrustInit, Share, Counters
  <2>2. \A c \in Counters : Tally(slots, floor)[c] = 0
    BY <2>1, FS_EmptySet, Zenon DEF Tally
  <2>3. \A c \in Counters : count[c] = 0
    BY DEF TrustInit, Counters
  <2>4. count = Tally(slots, floor)
    BY <1>2, <2>2, <2>3, Zenon DEF Recorded, Tally
  <2> QED
    BY <1>1, <2>4, Zenon DEF Exact
<1> QED
  BY <1>2, <1>3, <1>4, <1>5, Zenon DEF CountInv

\* Every step of any goroutine.
LEMMA CountKeeps == IsFiniteSet(TrustKeys) /\ CountInv /\ [TrustNext]_trustVars => CountInv'
<1> SUFFICES ASSUME IsFiniteSet(TrustKeys), CountInv, [TrustNext]_trustVars PROVE CountInv'
  OBVIOUS
<1>1. ASSUME NEW g \in Goroutines, Step(g), apart' => apart /\ Alone' PROVE CountInv'
  BY <1>1, ApplyCounts, AdoptCounts, PatternCounts, MarkAddCounts, MarkStoreCounts, MarkZeroCounts,
     ClearStoreCounts, ClearingCounts, ClearLockCounts, Zenon DEF Step
<1>2. CASE TrustNext
  <2>1. apart' => apart /\ Alone'
    BY <1>2, Zenon DEF TrustNext, Alone
  <2> QED
    BY <1>1, <1>2, <2>1, Zenon DEF TrustNext
<1>3. CASE UNCHANGED trustVars
  BY <1>3 DEF trustVars, CountInv, Recorded, Stamped, Alone, SameFloor, AboveAll, Older, Exact
<1> QED
  BY <1>2, <1>3, Zenon

\* Whenever no call is under way, the cached cardinalities agree with the entries,
\* for any keys, goroutines and calls, as long as no mark or clear of the keyspace
\* has overlapped another call.
THEOREM CountersStayExact == IsFiniteSet(TrustKeys) /\ TrustSpec => []CountersExact
<1>1. CountInv => CountersExact
  <2> SUFFICES ASSUME CountInv, apart, \A g \in Goroutines : call[g] = Idle
               PROVE  count = Recount(slots, floor)
    BY Zenon DEF CountersExact
  <2>1. \A g \in Goroutines : call[g].at \notin Unsettled
    BY DEF Idle, Unsettled
  <2>2. count = Tally(slots, floor) /\ DOMAIN count = Counters
    BY <2>1, Zenon DEF CountInv, Exact, Recorded
  <2> QED
    BY <2>2, Zenon DEF Recount, Tally
<1> SUFFICES ASSUME IsFiniteSet(TrustKeys) PROVE TrustSpec => []CountersExact
  OBVIOUS
<1>2. CountInv /\ [TrustNext]_trustVars => CountInv'
  BY CountKeeps
<1> QED
  BY <1>1, <1>2, CountStarts, PTL DEF TrustSpec
=============================================================================
