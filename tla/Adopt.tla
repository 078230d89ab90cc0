------------------------------- MODULE Adopt --------------------------------
(***************************************************************************)
(* pkg/check: bootstrap Adopt. The adopt scan reads the store batch by     *)
(* batch (module Reads) and writes what it read into the oracle as a       *)
(* baseline, while events are applied (fold) and materialized around it.   *)
(*                                                                         *)
(* A key's value is the set of events folded into it, each event adding a  *)
(* member of its own (keysetOwnership), or only the last (scalar). Before  *)
(* driftwatch attached the key held its event 1, if anything.              *)
(***************************************************************************)
EXTENDS Reads, FiniteSets

CONSTANTS
    BatchKeys,      \* the keys of one batch, in order
    MaxEmitted,     \* bound: per key, events
    NotTracked      \* the oracle has no entry

AdoptKeys == {BatchKeys[i] : i \in 1..Len(BatchKeys)}

ASSUME AdoptAssumption == MaxEmitted \in [AdoptKeys -> Nat]

VARIABLES
    shape,      \* the projection: "set" or "scalar"
    emitted,    \* per key, how many events there were
    written,    \* per key, how many the materializer has written
    delivered,  \* per key, how many driftwatch has folded
    foreign,    \* per key, "no", or what something else did: "hash" or "evicted"
    expects,    \* the oracle: value and trust, or NotTracked
    adopting,   \* the adopt scan, with the values of the batch it has read
    raced       \* history: keys adopted without an event that was folded already,
                \* or that could not be read

adoptVars == <<shape, emitted, written, delivered, foreign, expects, adopting, raced>>

\* The value after the first n events.
ValueAfter(n) ==
    IF shape = "set" THEN 1..n ELSE {n}

HeldBy(k) ==
    IF foreign[k] = "hash" THEN Held("hash", NoSuchKey)
    ELSE IF foreign[k] = "evicted" THEN Nowhere
    ELSE Held(IF shape = "set" THEN "set" ELSE "string", ValueAfter(written[k]))

\* The stream begins where driftwatch attached, and SCAN has listed the batch:
\* event 1 of each key is written.
AdoptInit ==
    /\ shape \in {"set", "scalar"}
    /\ emitted = [k \in AdoptKeys |-> 1]
    /\ written = emitted /\ delivered = emitted
    /\ foreign = [k \in AdoptKeys |-> "no"]
    /\ expects = [k \in AdoptKeys |-> NotTracked]
    /\ adopting = [at |-> "scan"]
    /\ raced = {}

EmitEvent(k) ==
    /\ emitted[k] < MaxEmitted[k]
    /\ emitted' = [emitted EXCEPT ![k] = @ + 1]
    /\ UNCHANGED <<shape, written, delivered, foreign, expects, adopting, raced>>

WriteEvent(k) ==
    /\ written[k] < emitted[k]
    /\ written' = [written EXCEPT ![k] = @ + 1]
    /\ UNCHANGED <<shape, emitted, delivered, foreign, expects, adopting, raced>>

\* The store evicts the key, or something puts another type under it.
BecomesForeign(k, what) ==
    /\ foreign[k] = "no"
    /\ foreign' = [foreign EXCEPT ![k] = what]
    /\ raced' = raced \cup {k}
    /\ UNCHANGED <<shape, emitted, written, delivered, expects, adopting>>

\* Check.fold: the next event onto the value Get returns.
FoldEvent(k) ==
    /\ delivered[k] < emitted[k]
    /\ delivered' = [delivered EXCEPT ![k] = @ + 1]
    /\ LET n == delivered[k] + 1
           prev == IF expects[k] = NotTracked \/ expects[k].value = NoSuchKey THEN {} ELSE expects[k].value
       IN  expects' = [expects EXCEPT ![k] =
                          [value |-> IF shape = "set" THEN prev \cup {n} ELSE {n}, trust |-> "complete"]]
    /\ UNCHANGED <<shape, emitted, written, foreign, adopting, raced>>

\* adoptScan: GetMany of the batch; per command, whether it fails.
ReadAdopted(fails) ==
    /\ adopting.at = "scan"
    /\ LET replies == [i \in 1..Len(BatchKeys) |-> ServerReply(shape, HeldBy(BatchKeys[i]), fails[i])]
           many == ReadMany(shape, replies)
           unread == {BatchKeys[i] : i \in {j \in 1..Len(BatchKeys) : fails[j]}}
           values == ValuesFromReads(many.reads)
       IN  IF many.err # ""
           THEN UNCHANGED <<adopting, raced>>      \* bootstrapAdopt tries again
           ELSE /\ adopting' = [at |-> "adopt",
                                upTo |-> written,
                                values |-> [k \in AdoptKeys |->
                                    values[CHOOSE i \in 1..Len(BatchKeys) : BatchKeys[i] = k]]]
                /\ raced' = raced \cup unread
    /\ UNCHANGED <<shape, emitted, written, delivered, foreign, expects>>

\* AdoptSnapshot, for one key.
Adopted1(e, v) == [value |-> v, trust |-> "adopted"]

\* AdoptSnapshot of the batch; the scan is done.
AdoptBatch ==
    /\ adopting.at = "adopt"
    /\ expects' = [k \in AdoptKeys |-> Adopted1(expects[k], adopting.values[k])]
    /\ raced' = raced \cup {k \in AdoptKeys : delivered[k] > adopting.upTo[k]}
    /\ adopting' = [at |-> "done"]
    /\ UNCHANGED <<shape, emitted, written, delivered, foreign>>

AdoptNext ==
    \/ \E k \in AdoptKeys : EmitEvent(k) \/ WriteEvent(k) \/ FoldEvent(k)
    \/ \E k \in AdoptKeys, what \in {"hash", "evicted"} : BecomesForeign(k, what)
    \/ \E fails \in [1..Len(BatchKeys) -> BOOLEAN] : ReadAdopted(fails)
    \/ AdoptBatch

AdoptSpec == AdoptInit /\ [][AdoptNext]_adoptVars

-----------------------------------------------------------------------------
(* Properties                                                              *)

\* The key is at rest: every event has been written and folded.
AtRest(k) == written[k] = emitted[k] /\ delivered[k] = emitted[k]

\* A key driftwatch asserts on, whose last event was folded after the baseline
\* was taken.
Asserted(k) == adopting.at = "done" /\ expects[k] # NotTracked /\ expects[k].trust = "complete"

\* Once adoption is over, a key at rest that is asserted on is expected to be
\* what the store holds, unless its baseline replaced an event the store had yet
\* to write when it was read, or its read failed; a scalar even then.
AdoptedAgrees ==
    \A k \in AdoptKeys : Asserted(k) /\ AtRest(k) /\ foreign[k] = "no" /\ (k \notin raced \/ shape = "scalar")
        => expects[k].value = ValueAfter(written[k])

\* A batch read never passes off a key the store holds as absent: a slot without
\* an error is the value, or the key is not there. MemoryTarget and RedisTarget
\* read alike.
ReadsAreFaithful ==
    \A sh \in {"set", "scalar", "counter"}, fails \in [1..Len(BatchKeys) -> BOOLEAN] :
        LET many == ReadMany(sh, [i \in 1..Len(BatchKeys) |-> ServerReply(sh, HeldBy(BatchKeys[i]), fails[i])])
        IN  many.err = "" => \A i \in 1..Len(BatchKeys) :
                LET h == HeldBy(BatchKeys[i])
                IN  /\ many.reads[i].err = "" /\ many.reads[i].value = NoSuchKey => h.type = "none"
                    /\ h.type # "hash" /\ ~fails[i] => many.reads[i] = ReadLocked(sh, h)

\* oracle.go: Adopt mode guarantees "no new drift since I started". A key at rest
\* whose store never departed from the events is expected to be what it holds.
\* Does not hold: README, section 6.
NoNewDrift ==
    \A k \in AdoptKeys : Asserted(k) /\ AtRest(k) /\ foreign[k] = "no" => expects[k].value = ValueAfter(written[k])

\* target.go: the error of one slot "is never a transport error - those fail the
\* batch". Exec reports only the first command error.
\* Does not hold: README, section 6.
SlotsHoldNoFailure ==
    \A fails \in [1..Len(BatchKeys) -> BOOLEAN] :
        LET many == ReadMany(shape, [i \in 1..Len(BatchKeys) |-> ServerReply(shape, HeldBy(BatchKeys[i]), fails[i])])
        IN  \A i \in 1..Len(many.reads) : many.reads[i].err # "failed"


\* Bootstrap takes over what the store holds: the batch read hands each key its
\* own reply, and an adopted key is what the events would have made of it.
AdoptionIsFaithful == AdoptedAgrees /\ ReadsAreFaithful
=============================================================================
