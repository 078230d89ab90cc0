----------------------------- MODULE Admission ------------------------------
(***************************************************************************)
(* From the manifest an operator edits to the check that runs: the         *)
(* admission webhook completes and judges every write, the controller      *)
(* hashes what was stored together with the secrets it refers to, and      *)
(* keeps, pauses or replaces the runner. The same manifest can be handed   *)
(* to the command line. Who may be running when is module Registry's       *)
(* subject; here one reconcile is one step.                                *)
(***************************************************************************)
EXTENDS Config

CONSTANTS
    MaxManifests,   \* bound: writes by the operator
    MaxRotations,   \* bound: changes of the secret
    NoObject

VARIABLES
    typed,      \* the manifest in the operator's editor
    writes,     \* how often it was applied
    stored,     \* the DriftCheck's spec at the API server
    secret,     \* the content of the secret it may refer to; 0 when missing
    rotations,  \* how often the secret was changed
    serving,    \* the running check: what it was started from and what it runs
    throttle,   \* lastStart is less than RestartInterval ago
    born        \* history: projection and target of the living object

admVars == <<typed, writes, stored, secret, rotations, serving, throttle, born>>

\* A manifest that is admitted, for the operator to start from.
Sample ==
    [source |-> "zmq", endpoints |-> "good", nats |-> "none", file |-> "none", buffer |-> 0,
     recvHWM |-> 0, codec |-> "", ops |-> {}, projection |-> "", ownership |-> "none",
     target |-> "redis", mode |-> "", addr |-> TRUE, addrs |-> 0, masterName |-> FALSE,
     keyPattern |-> "", window |-> "", min |-> 0, static |-> 0, max |-> 0, factor |-> NoFactor,
     sweep |-> 0, reorder |-> 0, bootstrap |-> "", expiry |-> "", assumedTTL |-> 0, shards |-> 0,
     paused |-> FALSE, secret |-> FALSE]

Edits(s) == UNION {{[s EXCEPT ![f] = v] : v \in Choices[f]} : f \in Fields}

AdmInit ==
    /\ typed = Sample
    /\ writes = 0 /\ secret = 0 /\ rotations = 0
    /\ stored = NoObject /\ serving = NoObject /\ born = NoObject
    /\ throttle = FALSE

Shape(s) == [projection |-> s.projection, target |-> s.target]

\* kubectl apply: the webhook's Default, then ValidateCreate or ValidateUpdate.
\* A manifest that is refused changes nothing.
Applied(manifest) ==
    LET s == WebhookDefault(manifest)
    IN  IF stored = NoObject
        THEN IF AdmitsNew(s) THEN s ELSE NoObject
        ELSE IF AdmitsUpdate(s, stored) THEN s ELSE stored

\* The operator changes one field of the manifest and applies it.
ApplyManifest ==
    /\ writes < MaxManifests
    /\ writes' = writes + 1
    /\ typed' \in Edits(typed)
    /\ stored' = Applied(typed')
    /\ born' = IF stored = NoObject /\ stored' # NoObject THEN Shape(stored') ELSE born
    /\ UNCHANGED <<secret, rotations, serving, throttle>>

\* ValidateDelete allows it; Forget drops the throttle's record.
DeleteObject ==
    /\ stored # NoObject
    /\ stored' = NoObject /\ serving' = NoObject /\ born' = NoObject
    /\ throttle' = FALSE
    /\ UNCHANGED <<typed, writes, secret, rotations>>

RotateSecret ==
    /\ rotations < MaxRotations
    /\ rotations' = rotations + 1 /\ secret' = secret + 1
    /\ UNCHANGED <<typed, writes, stored, serving, throttle, born>>

IntervalEnds == throttle /\ throttle' = FALSE /\ UNCHANGED <<typed, writes, stored, secret, rotations, serving, born>>

\* resolveSecrets: what the hash and the check get of the secret.
Resolved == IF stored.secret THEN secret ELSE 0

\* Mutant: the hash is of the whole spec.
SpecHashWhole(s, resolved) == [spec |-> s, secret |-> resolved]

\* SpecHash: all of the spec but policy.paused, and a digest of each secret.
SpecHash(s, resolved) == [spec |-> [s EXCEPT !.paused = FALSE], secret |-> resolved]

Started ==
    LET spec == ToCheckSpec(stored)
    IN  IF Builds(spec)
        THEN [hash |-> SpecHash(stored, Resolved), spec |-> ApplyDefaults(spec), secret |-> Resolved]
        ELSE NoObject

\* Reconcile: a secret that is missing stops the reconcile (secretFailure), the
\* same hash only sets paused, another one replaces the runner unless it was
\* started a moment ago, and a check that cannot be built leaves none.
ReconcileSpec ==
    /\ stored # NoObject
    /\ stored.secret => secret > 0
    /\ IF serving = NoObject
       THEN serving' = Started /\ throttle' = (serving' # NoObject \/ throttle)
       ELSE IF serving.hash = SpecHash(stored, Resolved)
       THEN serving' = [serving EXCEPT !.spec.paused = stored.paused] /\ UNCHANGED throttle
       ELSE ~throttle /\ serving' = Started /\ throttle' = (serving' # NoObject)
    /\ UNCHANGED <<typed, writes, stored, secret, rotations, born>>

AdmNext ==
    \/ ApplyManifest \/ DeleteObject \/ RotateSecret \/ IntervalEnds \/ ReconcileSpec

\* Reconcile comes back after StatusRefreshInterval, and time passes.
AdmFairness == WF_admVars(ReconcileSpec) /\ WF_admVars(IntervalEnds)

AdmSpec == AdmInit /\ [][AdmNext]_admVars /\ AdmFairness

-----------------------------------------------------------------------------
(* Properties.                                                             *)

\* Whatever was applied, edited, rotated and in whatever order, the check that
\* runs keeps the promises the rest of the program rests on: a ZeroMQ socket
\* never holds more than the buffer behind it, the window's bounds are in
\* order, a Strict bootstrap can recognise a snapshot, an Ignore policy has an
\* age to ignore from (Validate in New, on what ApplyDefaults filled in).
RunningIsSound ==
    serving # NoObject =>
        LET s == serving.spec
        IN  /\ s.source = "zmq" => s.buffer >= s.recvHWM
            /\ 0 < s.min /\ s.min <= s.static /\ s.static <= s.max
            /\ s.bootstrap = "Strict" => s.ops = {} \/ {"snapshotBegin", "snapshotEnd"} \subseteq s.ops
            /\ s.expiry = "Ignore" => s.assumedTTL > 0
            /\ s.target = "redis" => Addresses(s) > 0

\* As long as an object lives, neither its projection nor its target changes,
\* in the object or in any runner it is given: the oracle holds values in that
\* shape (ValidateUpdate, on defaulted specifications).
ShapeIsKept ==
    /\ stored # NoObject => Shape(stored) = born
    /\ serving # NoObject => Shape(serving.spec) = born

\* A pause or a resume never costs the oracle: as long as nothing but paused
\* differs from what the runner was started with, no reconcile replaces it
\* (SpecHash leaves policy.paused out).
PauseKeepsOracle ==
    [][(/\ serving # NoObject /\ stored # NoObject /\ stored' = stored
        /\ serving.hash.spec = [stored EXCEPT !.paused = FALSE]
        /\ serving.secret = Resolved)
       => /\ serving' # NoObject
          /\ serving'.hash = serving.hash]_admVars

\* What was stored last is what runs in the end, with the secret's last
\* content and the last word on paused, unless it cannot be built or its
\* secret is missing: an edit held back by the throttle, a rotation that
\* leaves the spec as it was and a pause all arrive.
StoredRuns ==
    <>[](\/ stored = NoObject
         \/ stored # NoObject /\ stored.secret /\ secret = 0
         \/ /\ stored # NoObject /\ serving # NoObject
            /\ serving.secret = Resolved /\ serving.spec = ToCheckSpec(stored)
         \/ stored # NoObject /\ ~Builds(ToCheckSpec(stored)))

\* "kubectl get driftcheck -o yaml shows the configuration that is actually
\* running" (driftcheck_defaults.go). A safetyFactor of "0" is stored, shown,
\* and run as 3.0.
\* Does not hold: README, section 6.
ShownIsRunning ==
    serving # NoObject /\ stored # NoObject /\ serving.hash = SpecHash(stored, Resolved) =>
        serving.spec.factor = stored.factor

\* The webhook catches what cannot be built (startFailure); it admits the
\* template codec, whose pattern no specification can carry.
\* Does not hold: README, section 6.
AdmittedIsBuilt == stored # NoObject => Builds(ToCheckSpec(stored))

\* conversion.go: the command line and the cluster differ in the shape of the
\* error message, not in the verdict. Their defaults differ.
\* Does not hold: README, section 6.
VerdictsAgree ==
    (Loads(typed) /\ Validate(ApplyDefaults([typed EXCEPT !.factor = ParseDecimal(@)])))
        <=> AdmitsNew(WebhookDefault(typed))

\* "SafetyFactor ... Must be at least 1.0" (driftcheck_types.go): NaN passes.
\* Does not hold: README, section 6.
FactorIsAtLeastOne == serving # NoObject => serving.spec.factor \in {2, 6}

\* "Mode selects the deployment topology" (driftcheck_types.go): it is not
\* handed to the client, which counts addresses.
\* Does not hold: README, section 6.
ModeIsHonoured ==
    serving # NoObject /\ serving.spec.target = "redis" => ClientMode(serving.spec) = serving.spec.mode

\* What runs was validated, and an update never changes the fields that are fixed.
AdmissionIsSound == RunningIsSound /\ ShapeIsKept
=============================================================================
