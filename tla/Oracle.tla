------------------------------- MODULE Oracle -------------------------------
(***************************************************************************)
(* pkg/oracle: the expected state of the store, with the versions sweeps   *)
(* are fenced by and the index that says which keys are settled. One shard *)
(* (no operation needs two), each method one step under its lock. Trust is *)
(* in OracleTrust; here an entry only remembers whether it was adopted.    *)
(*                                                                         *)
(* Times are instants of the local clock. An event is applied with the     *)
(* time it was received, which may lie MaxDelay in the past when the       *)
(* reorder buffer held it; an adopt scan uses the time it began.           *)
(***************************************************************************)
EXTENDS Integers, FiniteSets, FiniteSetsExt

CONSTANTS
    Keys,
    Values,         \* what an upsert may store
    Absent,         \* the tombstone a delete leaves
    MaxKeys,        \* shard.maxKeys
    Windows,        \* the settlement windows the estimator may choose
    MaxWindow,      \* Config.MaxSettlementWindow
    Factor,         \* Config.NeverSettledFactor
    BucketWidth,    \* Config.BucketWidth
    Bootstrap,      \* "Adopt" or "Wait"
    MaxDelay,       \* bound: how long an event is held, or a scan takes
    MaxInstants,        \* bound: how far the clock runs
    MaxVersion,     \* bound: how often a key is written
    NoEntry            \* no entry

ASSUME OracleAssumption ==
    /\ MaxKeys \in Nat \ {0}
    /\ Windows \subseteq Nat /\ Windows # {}
    /\ MaxWindow \in Nat /\ Factor \in Nat \ {0} /\ BucketWidth \in Nat \ {0}
    /\ Bootstrap \in {"Adopt", "Wait"}
    /\ MaxDelay \in Nat /\ MaxInstants \in Nat /\ MaxVersion \in Nat

\* time.Time{}: lastValueChangeAt of an entry that only adoption has written.
Zero == -1

Entries == [value : Values \cup {Absent}, version : 1 .. MaxVersion, adopted : BOOLEAN,
            lastEventAt : Nat, lastValueChangeAt : Nat \cup {Zero}]

ASSUME NoEntryAssumption == NoEntry \notin Entries

VARIABLES
    ent,        \* shard.entries
    buckets,    \* shard.buckets, as <<bucket, key>> pairs
    settled,    \* shard.settled
    window,     \* Oracle.settlementWindow
    instant         \* the injected clock

oracleVars == <<ent, buckets, settled, window, instant>>

Tracked == {k \in Keys : ent[k] # NoEntry}

Clamped(w) == IF w > MaxWindow THEN MaxWindow ELSE w

OracleInit ==
    /\ ent = [k \in Keys |-> NoEntry]
    /\ buckets = {} /\ settled = {}
    /\ window \in {Clamped(w) : w \in Windows}
    /\ instant = MaxWindow + MaxDelay

TimePasses ==
    /\ instant < MaxWindow + MaxDelay + MaxInstants
    /\ instant' = instant + 1
    /\ UNCHANGED <<ent, buckets, settled, window>>

\* SetSettlementWindow
SetSettlementWindow(w) ==
    /\ window' = Clamped(w)
    /\ UNCHANGED <<ent, buckets, settled, instant>>

-----------------------------------------------------------------------------
(* The settlement index.                                                   *)

BucketOf(at) == at \div BucketWidth

NeverSettled(w) == Clamped(Factor * w)

\* isSettled
IsSettled(e, w) ==
    \/ e.lastEventAt < instant - w
    \/ e.lastValueChangeAt # Zero /\ e.lastValueChangeAt < instant - NeverSettled(w)

\* settledKeys
Listed(w) == settled \cup {k \in Tracked : \E b \in buckets : b[2] = k /\ IsSettled(ent[k], w)}

\* Mutant: the horizon is the window of the moment.
PromoteCurrent ==
    LET old == {b \in buckets : b[1] < BucketOf(instant - window)}
    IN  /\ settled' = settled \cup {b[2] : b \in old}
        /\ buckets' = buckets \ old

\* promote
Promote ==
    LET old == {b \in buckets : b[1] < BucketOf(instant - MaxWindow)}
    IN  /\ settled' = settled \cup {b[2] : b \in old}
        /\ buckets' = buckets \ old

\* SettledKeys and Counts promote before they read.
SettledKeys == Promote /\ UNCHANGED <<ent, window, instant>>

\* oldestIndexed, when a new key needs room: any coalesced key, or else any key
\* of the oldest bucket.
Victims(k) ==
    IF ent[k] # NoEntry \/ Cardinality(Tracked) < MaxKeys THEN {{}}
    ELSE IF settled # {} THEN {{v} : v \in settled}
    ELSE {{b[2]} : b \in {c \in buckets : c[1] = Min({d[1] : d \in buckets})}}

\* place for k, and drop for the victims: each leaves whichever structure held
\* it, and k enters the bucket of its new time.
Place(k, e, victims) ==
    /\ buckets' = {b \in buckets : b[2] \notin victims \cup {k}} \cup {<<BucketOf(e.lastEventAt), k>>}
    /\ settled' = settled \ (victims \cup {k})

-----------------------------------------------------------------------------
(* Writes.                                                                 *)

Version(k) == IF ent[k] = NoEntry THEN 0 ELSE ent[k].version

\* Write the entry e for k.
Store(k, e) ==
    /\ e.version <= MaxVersion
    /\ \E victims \in Victims(k) :
          /\ ent' = [j \in Keys |-> IF j = k THEN e ELSE IF j \in victims THEN NoEntry ELSE ent[j]]
          /\ Place(k, e, victims)
    /\ UNCHANGED <<window, instant>>

Changes(k, v) == ent[k] = NoEntry \/ ent[k].value # v

\* Apply of an upsert, or of a delete when v is Absent.
Apply(k, v, at) ==
    Store(k, [value |-> v, version |-> Version(k) + 1, adopted |-> FALSE,
              lastEventAt |-> at,
              lastValueChangeAt |-> IF Changes(k, v) THEN at ELSE ent[k].lastValueChangeAt])

\* AdoptSnapshot for one key of the batch: the value and the event time are
\* overwritten, the change time is not.
AdoptSnapshot(k, v, at) ==
    /\ Bootstrap = "Adopt"
    /\ Store(k, [value |-> v, version |-> Version(k) + 1, adopted |-> TRUE, lastEventAt |-> at,
                 lastValueChangeAt |-> IF ent[k] = NoEntry THEN Zero ELSE ent[k].lastValueChangeAt])

OracleNext ==
    \/ TimePasses
    \/ \E w \in Windows : SetSettlementWindow(w)
    \/ SettledKeys
    \/ \E k \in Keys, v \in Values \cup {Absent}, at \in instant - MaxDelay .. instant : Apply(k, v, at)
    \/ \E k \in Keys, v \in Values, at \in instant - MaxDelay .. instant : AdoptSnapshot(k, v, at)

OracleSpec == OracleInit /\ [][OracleNext]_oracleVars

-----------------------------------------------------------------------------
\* Fields keep their types, and the shard keeps to its key budget (I8).
OracleTypeOK ==
    /\ ent \in [Keys -> Entries \cup {NoEntry}]
    /\ buckets \subseteq Nat \X Keys /\ settled \subseteq Keys
    /\ window \in 0 .. MaxWindow
    /\ Cardinality(Tracked) <= MaxKeys

\* The index holds exactly the tracked keys: an entry missing from it could never
\* be compared nor evicted, and one left behind would be a victim that is not there.
IndexWhole == settled \cup {b[2] : b \in buckets} = Tracked

\* The index finds exactly the settled keys, whatever legal window the estimator
\* switches to next: coalescing, re-writing and evicting a key neither hide a
\* settled key from the sweep nor offer it one that is in flight.
ListingExact ==
    \A w \in Windows : Listed(Clamped(w)) = {k \in Tracked : IsSettled(ent[k], Clamped(w))}

\* A full shard gives up one of its coldest keys: one past every legal window,
\* or one from the oldest bucket there is ("a victim is drawn from the oldest
\* group available").
EvictsColdest ==
    [][\A k \in Keys : ent[k] # NoEntry /\ ent'[k] = NoEntry =>
          \/ ent[k].lastEventAt < instant - MaxWindow
          \/ \A j \in Tracked : BucketOf(ent[k].lastEventAt) <= BucketOf(ent[j].lastEventAt)]_oracleVars

\* The settlement index lists what it should, and eviction takes from its cold end.
IndexIsExact == [](IndexWhole /\ ListingExact) /\ EvictsColdest
=============================================================================
