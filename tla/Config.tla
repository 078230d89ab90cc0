------------------------------- MODULE Config -------------------------------
(***************************************************************************)
(* pkg/check/config.go and api/v1alpha1: how a specification is completed, *)
(* converted and judged. One manifest can reach a check in two ways:       *)
(*                                                                         *)
(*   driftwatch watch -f   Load, ApplyDefaults, then Validate in New       *)
(*   kubectl apply         the webhook's Default and Validate, then the    *)
(*                         controller's ToCheckSpec and Validate in New    *)
(*                                                                         *)
(* A specification is a record of the fields that some rule reads; the     *)
(* empty string and 0 stand for an absent field, as in the Go structs.     *)
(* Durations and sizes are small numbers in the order of the real ones.    *)
(* The other positive bounds (ringSize, maxTrackedKeys, maxPublishers and  *)
(* so on) are treated like oracleShards and are left out.                  *)
(***************************************************************************)
EXTENDS Integers, TLC

CONSTANTS
    NoFactor,   \* safetyFactor is absent
    Garbage,    \* safetyFactor is no number: "3.O"
    NotANumber  \* safetyFactor is "NaN", which strconv.ParseFloat accepts

\* config.go's Default... constants, in the order of their real values. A
\* factor is counted in halves: 2 is 1.0, the least that Validate allows.
Default == [buffer |-> 2, recvHWM |-> 1, min |-> 1, static |-> 2, max |-> 4, factor |-> 6,
            sweep |-> 6, reorder |-> 2, shards |-> 4]

OneSecond == 2

LeastFactor == 2

-----------------------------------------------------------------------------
(* What the operator may write into each field.                            *)

SourceChoices ==
    [source |-> {"", "zmq", "nats", "file", "memory"},
     endpoints |-> {"none", "good", "malformed"},
     nats |-> {"none", "good", "noSubject", "queueGroup"},
     file |-> {"none", "good", "badSpeed", "stdinLoop"},
     buffer |-> {0, 1, 2}, recvHWM |-> {0, 1, 3}]

CodecChoices ==
    [codec |-> {"", "json", "msgpack", "template"},
     ops |-> {{}, {"add"}, {"add", "snapshotBegin", "snapshotEnd"}, {"bogus"}}]

ProjectionChoices ==
    [projection |-> {"", "keysetOwnership", "scalar", "counter"},
     ownership |-> {"none", "pattern", "noPattern"}]

\* secret: the password comes from a Secret.
TargetChoices ==
    [target |-> {"", "redis", "memory"},
     mode |-> {"", "standalone", "cluster", "sentinel"},
     addr |-> BOOLEAN, addrs |-> 0..2, masterName |-> BOOLEAN, keyPattern |-> {"", "good", "bad"},
     secret |-> BOOLEAN]

WindowChoices ==
    [window |-> {"", "static", "adaptive"},
     min |-> {0, 1, 3}, static |-> {0, 2}, max |-> {0, 1, 4},
     factor |-> {NoFactor, Garbage, NotANumber, -1, 0, 1, 2}]

PolicyChoices ==
    [sweep |-> {0, 1, 6}, reorder |-> {-1, 0, 2},
     bootstrap |-> {"", "Adopt", "Strict", "Wait"},
     expiry |-> {"", "Ignore", "Model", "Strict"}, assumedTTL |-> {0, 1},
     shards |-> {0, 3, 4}, paused |-> BOOLEAN]

Choices ==
    SourceChoices @@ CodecChoices @@ ProjectionChoices @@ TargetChoices @@ WindowChoices
        @@ PolicyChoices

Fields == DOMAIN Choices

Or(value, fallback) == IF value = "" THEN fallback ELSE value

OrPositive(value, fallback) == IF value <= 0 THEN fallback ELSE value

\* A comparison with NaN is false.
Below(factor, bound) == factor # NotANumber /\ factor < bound

-----------------------------------------------------------------------------
(* Defaults.                                                               *)

\* What ApplyDefaults and the webhook's Default do alike.
Completed(s) ==
    [s EXCEPT !.buffer = OrPositive(@, Default.buffer), !.recvHWM = OrPositive(@, Default.recvHWM),
              !.codec = Or(@, "json"),
              !.mode = IF s.target = "redis" THEN Or(@, "standalone") ELSE @,
              !.keyPattern = IF s.target = "redis" THEN Or(@, "good") ELSE @,
              !.min = OrPositive(@, Default.min), !.static = OrPositive(@, Default.static),
              !.max = OrPositive(@, Default.max), !.sweep = OrPositive(@, Default.sweep),
              !.bootstrap = Or(@, "Adopt"), !.expiry = Or(@, "Strict"),
              !.shards = OrPositive(@, Default.shards)]

\* check.Spec.ApplyDefaults. safetyFactor is a Decimal, and any value that is
\* not positive is taken for an absent one.
ApplyDefaults(s) ==
    Completed([s EXCEPT !.source = Or(@, "memory"), !.projection = Or(@, "scalar"),
                        !.target = Or(@, "memory"), !.window = Or(@, "static"),
                        !.factor = IF Below(@, 1) THEN Default.factor ELSE @,
                        !.reorder = IF @ = 0 THEN Default.reorder ELSE @])

\* DriftCheckSpec.Default, the webhook's. safetyFactor is a string here, and
\* setDuration replaces every reorderWindow that is not positive.
WebhookDefault(s) ==
    Completed([s EXCEPT !.source = Or(@, "zmq"), !.projection = Or(@, "keysetOwnership"),
                        !.target = Or(@, "redis"), !.window = Or(@, "adaptive"),
                        !.factor = IF @ = NoFactor THEN Default.factor ELSE @,
                        !.reorder = OrPositive(@, Default.reorder)])

\* parseDecimal: what is no number becomes zero.
ParseDecimal(factor) == IF factor \in {NoFactor, Garbage} THEN 0 ELSE factor

\* DriftCheckSpec.ToCheckSpec ends in ApplyDefaults.
ToCheckSpec(s) == ApplyDefaults([s EXCEPT !.factor = ParseDecimal(@)])

-----------------------------------------------------------------------------
(* Validation. Each operator is the list of rules of one function.         *)

ValidSource(s) ==
    /\ s.source = "zmq" => s.endpoints = "good" /\ s.buffer >= s.recvHWM
    /\ s.source = "nats" => s.nats = "good"
    /\ s.source = "file" => s.file = "good"

ValidCodec(s) == "bogus" \notin s.ops

ValidProjection(s) == s.ownership # "noPattern"

ValidTarget(s) ==
    s.target = "redis" =>
        /\ CASE s.mode = "standalone" -> s.addr \/ s.addrs > 0
             [] s.mode = "cluster"    -> s.addrs > 0 /\ ~s.addr
             [] s.mode = "sentinel"   -> s.addrs > 0 /\ s.masterName
        /\ s.keyPattern # "bad"

\* Mutant: any mapping of operations is taken to have the markers.
MapsSnapshotOpsLoose(s) == s.ops = {} \/ "add" \in s.ops

\* Without a mapping the codec knows driftwatch's own operation names.
MapsSnapshotOps(s) == s.ops = {} \/ {"snapshotBegin", "snapshotEnd"} \subseteq s.ops

PowersOfTwo == {1, 2, 4}

ValidPolicy(s) ==
    /\ s.min <= s.static /\ s.static <= s.max
    /\ ~Below(s.factor, LeastFactor)
    /\ s.sweep >= OneSecond
    /\ s.bootstrap = "Strict" => MapsSnapshotOps(s)
    /\ s.expiry = "Ignore" => s.assumedTTL > 0
    /\ s.shards \in PowersOfTwo

\* check.Spec.Validate.
Validate(s) ==
    /\ ValidSource(s) /\ ValidCodec(s) /\ ValidProjection(s) /\ ValidTarget(s) /\ ValidPolicy(s)

\* check.Spec.ValidateUpdate.
ValidateUpdate(s, previous) ==
    previous.projection = s.projection /\ previous.target = s.target

\* DriftCheck.Validate, after the webhook's Default: decimalErrors, then the
\* rules of the converted specification.
AdmitsNew(s) == s.factor # Garbage /\ Validate(ToCheckSpec(s))

AdmitsUpdate(s, previous) ==
    AdmitsNew(s) /\ ValidateUpdate(ToCheckSpec(s), ToCheckSpec(previous))

\* Load fails on a factor that is no number.
Loads(s) == s.factor # Garbage

-----------------------------------------------------------------------------
(* Construction.                                                           *)

\* newTemplate wants a pattern, and CodecConfig has none to give.
CodecBuilds(s) == s.codec # "template"

\* New: defaults once more, Validate, then build.
Builds(s) == Validate(ApplyDefaults(s)) /\ CodecBuilds(s)

\* TargetSettings puts addr before addrs and leaves the mode out.
Addresses(s) == s.addrs + (IF s.addr THEN 1 ELSE 0)

\* redis.NewUniversalClient, as NewRedis calls it: the master's name decides,
\* then the number of addresses.
ClientMode(s) ==
    IF s.masterName THEN "sentinel" ELSE IF Addresses(s) > 1 THEN "cluster" ELSE "standalone"
=============================================================================
