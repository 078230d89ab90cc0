-------------------------------- MODULE Scan --------------------------------
(***************************************************************************)
(* pkg/target: Scan and its iterators, which walk a Redis keyspace while   *)
(* the store changes. redisIterator walks one node with SCAN;              *)
(* clusterIterator walks every master one after the other.                 *)
(*                                                                         *)
(* A node's hash table has Slots slots and a cursor is the number of the   *)
(* next slot to visit. A call returns the keys of its slot and may repeat  *)
(* any key it has returned before, as a rehash makes it do. A node that    *)
(* loops hands back a cursor it has handed back before.                    *)
(***************************************************************************)
EXTENDS Naturals, Sequences, FiniteSets

CONSTANTS
    Masters,        \* the nodes ForEachMaster visits; one if not a cluster
    Slots,          \* slots of a node's table
    ScanKeys,       \* keys of the store
    Home,           \* key -> <<master, slot>>
    MaxRepeats,     \* maxCursorRepeats
    MaxCalls,       \* maxScanCalls
    DedupRoom,      \* maxDedupKeys
    Looping,        \* nodes whose cursor may go round
    NoError

ASSUME ScanAssumption ==
    /\ Slots \in Nat \ {0} /\ MaxRepeats \in Nat /\ MaxCalls \in Nat /\ DedupRoom \in Nat \ {0}
    /\ Home \in [ScanKeys -> Masters \X (1..Slots)] /\ Looping \subseteq Masters

VARIABLES
    present,    \* keys the store holds now
    throughout, \* history: keys it has held since the scan began
    visiting,   \* ForEachMaster: per master, its call, with the slice it read
    iters,      \* clusterIterator.iters
    idx,        \* clusterIterator.idx
    it,         \* the redisIterator at idx
    scanErr,    \* Iterator.Err
    yielded,    \* keys handed to the caller
    scanPhase   \* "building", "next", "batch" or "end"

scanVars == <<present, throughout, visiting, iters, idx, it, scanErr, yielded, scanPhase>>

\* newClusterIterator, the literal each iterator starts as.
Fresh == [cursor |-> 0, started |-> FALSE, current |-> {}, seen |-> {},
          cursors |-> [c \in 1..Slots |-> 0], calls |-> 0]

ScanInit ==
    /\ present \in SUBSET ScanKeys /\ throughout = present
    /\ visiting = [m \in Masters |-> [at |-> "todo"]]
    /\ iters = <<>> /\ idx = 1 /\ it = Fresh
    /\ scanErr = NoError /\ yielded = {}
    /\ scanPhase = "building"

\* Keys come and go during the scan.
StoreChanges ==
    /\ scanPhase # "end"
    /\ \E k \in ScanKeys :
           IF k \in present THEN present' = present \ {k} /\ throughout' = throughout \ {k}
           ELSE present' = present \cup {k} /\ UNCHANGED throughout
    /\ UNCHANGED <<visiting, iters, idx, it, scanErr, yielded, scanPhase>>

-----------------------------------------------------------------------------
(* Scan and newClusterIterator. ForEachMaster calls its function once per  *)
(* master, concurrently, and each call appends to the same slice.          *)

\* The append reads the slice header.
AppendReads(m) ==
    /\ scanPhase = "building" /\ visiting[m].at = "todo"
    /\ visiting' = [visiting EXCEPT ![m] = [at |-> "read", slice |-> iters]]
    /\ UNCHANGED <<present, throughout, iters, idx, it, scanErr, yielded, scanPhase>>

\* It writes the header back, one element longer.
AppendWrites(m) ==
    /\ scanPhase = "building" /\ visiting[m].at = "read"
    /\ iters' = Append(visiting[m].slice, m)
    /\ visiting' = [visiting EXCEPT ![m] = [at |-> "done"]]
    /\ UNCHANGED <<present, throughout, idx, it, scanErr, yielded, scanPhase>>

\* A master cannot be reached: ForEachMaster returns the error.
MasterFails ==
    /\ scanPhase = "building"
    /\ scanErr' = "unreachable" /\ scanPhase' = "end"
    /\ UNCHANGED <<present, throughout, visiting, iters, idx, it, yielded>>

Built ==
    /\ scanPhase = "building" /\ \A m \in Masters : visiting[m].at = "done"
    /\ scanPhase' = "next"
    /\ UNCHANGED <<present, throughout, visiting, iters, idx, it, scanErr, yielded>>

-----------------------------------------------------------------------------
(* redisIterator.Next: one SCAN call is one step.                          *)

Stop(err) == scanErr' = err /\ scanPhase' = "end" /\ UNCHANGED <<idx, it, yielded>>

\* clusterIterator.Next: this node is done, go on to the next.
NextIterator ==
    /\ idx' = idx + 1 /\ it' = Fresh
    /\ UNCHANGED <<scanErr, yielded, scanPhase>>

\* The dedup loop over the keys of one reply: a full window starts afresh.
Deduped(keys, seen) ==
    LET new == keys \ seen
    IN  IF Cardinality(seen \cup new) <= DedupRoom
        THEN {[current |-> new, seen |-> seen \cup new]}
        ELSE {[current |-> new \cup again, seen |-> window] :
                 window \in {w \in SUBSET (seen \cup keys) : Cardinality(w) <= DedupRoom},
                 again \in SUBSET (keys \cap seen)}

\* Mutant: an empty reply ends the node's scan.
AfterReplyStops(batch, next) ==
    IF batch = {} THEN "done" ELSE "batch"

\* What follows a reply: hand over a batch, call again, or be done with the node.
AfterReply(batch, next) ==
    IF batch # {} THEN "batch" ELSE IF next = 0 THEN "done" ELSE "again"

\* The cursor has been handed back too often.
Loops(next) == next # 0 /\ it.cursors[next] + 1 > MaxRepeats

\* SCAN answers with keys and the next cursor.
Reply(keys, next) ==
    IF Loops(next) THEN Stop("restarted")
    ELSE \E d \in Deduped(keys, it.seen) :
        LET moved == [it EXCEPT !.cursor = next, !.started = TRUE, !.current = d.current, !.seen = d.seen,
                                !.calls = @ + 1,
                                !.cursors = IF next = 0 THEN @ ELSE [@ EXCEPT ![next] = @ + 1]]
        IN  CASE AfterReply(d.current, next) = "batch" ->
                    /\ it' = moved /\ scanPhase' = "batch"
                    /\ UNCHANGED <<idx, scanErr, yielded>>
              [] AfterReply(d.current, next) = "again" ->
                    /\ it' = moved
                    /\ UNCHANGED <<idx, scanErr, yielded, scanPhase>>
              [] AfterReply(d.current, next) = "done" -> NextIterator

\* What the node sends: its slot, and perhaps keys it has sent before.
Replies(m) ==
    LET slot == it.cursor + 1
        own == {k \in present : Home[k] = <<m, slot>>}
        next == IF slot = Slots THEN 0 ELSE slot
        old == {k \in present : Home[k][1] = m /\ Home[k][2] < slot}
    IN  {[keys |-> own \cup more, next |-> n] :
            more \in SUBSET old,
            n \in {next} \cup (IF m \in Looping THEN 1..(slot - 1) ELSE {})}

Next1 ==
    /\ scanPhase = "next"
    /\ IF idx > Len(iters) THEN scanPhase' = "end" /\ UNCHANGED <<idx, it, scanErr, yielded>>
       ELSE IF it.started /\ it.cursor = 0 THEN NextIterator
       ELSE IF it.calls + 1 > MaxCalls THEN Stop("gave up")
       ELSE \E r \in Replies(iters[idx]) : Reply(r.keys, r.next)
    /\ UNCHANGED <<present, throughout, visiting, iters>>

\* The context is cancelled, or the call fails.
NextFails ==
    /\ scanPhase = "next" /\ idx <= Len(iters)
    /\ Stop("failed")
    /\ UNCHANGED <<present, throughout, visiting, iters>>

\* The caller takes Keys() and calls Next again.
TakeBatch ==
    /\ scanPhase = "batch"
    /\ yielded' = yielded \cup it.current
    /\ it' = [it EXCEPT !.current = {}]
    /\ scanPhase' = "next"
    /\ UNCHANGED <<present, throughout, visiting, iters, idx, scanErr>>

Walk == (\E m \in Masters : AppendReads(m) \/ AppendWrites(m)) \/ Built \/ Next1 \/ TakeBatch

ScanNext == Walk \/ StoreChanges \/ MasterFails \/ NextFails

ScanFairness == WF_scanVars(Walk)

ScanSpec == ScanInit /\ [][ScanNext]_scanVars /\ ScanFairness

-----------------------------------------------------------------------------
(* Properties                                                              *)

Registered == {iters[i] : i \in 1..Len(iters)}

\* A scan that ends without an error has handed over every key the visited
\* masters held throughout, whatever empty replies, repeats and dedup windows
\* there were on the way.
StableKeysSeen ==
    scanPhase = "end" /\ scanErr = NoError =>
        {k \in throughout : Home[k][1] \in Registered} \subseteq yielded

\* A scan ends, on a node whose cursor goes round too.
ScanEnds == <>(scanPhase = "end")

\* A cursor that goes round is noticed as such, long before the cap on calls.
LoopIsNoticed == scanErr # "gave up"

\* redis.go: "Cluster scanning has to visit every master". Concurrent calls
\* append to one slice, so one of them may be lost.
EveryMasterVisited == scanPhase = "end" /\ scanErr = NoError => Registered = Masters

=============================================================================
