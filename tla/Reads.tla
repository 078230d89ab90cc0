------------------------------- MODULE Reads --------------------------------
(***************************************************************************)
(* pkg/target: what a read of the store returns. RedisTarget asks with GET *)
(* or SMEMBERS, one key at a time (Get) or a pipelined batch (ReadMany,    *)
(* GetMany); MemoryTarget looks in its own maps. Each command of a batch   *)
(* has a reply of its own: a value, no such key, a type error, or a        *)
(* failure (a node that is loading, moved or unreachable).                 *)
(***************************************************************************)
EXTENDS Naturals, Sequences

CONSTANTS
    NoSuchKey,      \* redis.Nil, and a Value that is absent
    NotAnInt        \* the string ParseInt refuses

\* A stored value: its Redis type, and the members or the string.
Held(type, v) == [type |-> type, v |-> v]
Nowhere == Held("none", NoSuchKey)

\* What the server answers to the command the shape implies (commandFor).
\* External: the Redis server and go-redis.
ServerReply(shape, h, fails) ==
    LET wanted == IF shape = "set" THEN "set" ELSE "string"
    IN  IF fails THEN [err |-> "failed"]
        ELSE IF h.type = "none" THEN IF shape = "set" THEN [err |-> "", v |-> {}] ELSE [err |-> "nil"]
        ELSE IF h.type = wanted THEN [err |-> "", v |-> h.v]
        ELSE [err |-> "WRONGTYPE"]

\* setValue
SetValue(members) == IF members = {} THEN NoSuchKey ELSE members

Answer(v) == [value |-> v, err |-> ""]
Failing(err) == [value |-> NoSuchKey, err |-> err]

\* Mutant: any error but a type error reads as no such key.
ReadOfLenient(shape, r) ==
    CASE r.err \in {"nil", "failed"} -> Answer(NoSuchKey)
      [] r.err = "WRONGTYPE" -> Failing("wrongType")
      [] OTHER -> Answer(IF shape = "set" THEN SetValue(r.v) ELSE r.v)

\* Get, and one slot of readChunk, with wrapRedisErr and isWrongType.
ReadOf(shape, r) ==
    CASE r.err = "nil" -> Answer(NoSuchKey)
      [] r.err = "WRONGTYPE" -> Failing("wrongType")
      [] r.err = "failed" -> Failing("failed")
      [] OTHER ->
            IF shape = "set" THEN Answer(SetValue(r.v))
            ELSE IF shape = "counter" /\ r.v = NotAnInt THEN Failing("wrongType")
            ELSE Answer(r.v)

\* Pipeline.Exec: the first command error. External: go-redis.
Exec(replies) ==
    LET bad == {i \in 1..Len(replies) : replies[i].err # ""}
    IN  IF bad = {} THEN "" ELSE replies[CHOOSE i \in bad : \A j \in bad : i <= j].err

\* ReadMany and readChunk: only a failure that Exec reports fails the batch.
ReadMany(shape, replies) ==
    IF Exec(replies) \in {"", "nil", "WRONGTYPE"}
    THEN [err |-> "", reads |-> [i \in 1..Len(replies) |-> ReadOf(shape, replies[i])]]
    ELSE [err |-> Exec(replies), reads |-> <<>>]

\* valuesFromReads: a key that could not be read is absent.
ValuesFromReads(reads) ==
    [i \in 1..Len(reads) |-> IF reads[i].err = "" THEN reads[i].value ELSE NoSuchKey]

\* MemoryTarget.readLocked, for a key in at most one of its maps.
ReadLocked(shape, h) ==
    CASE shape = "set" ->
            IF h.type = "string" THEN Failing("wrongType")
            ELSE IF h.type = "none" \/ h.v = {} THEN Answer(NoSuchKey) ELSE Answer(h.v)
      [] shape # "set" ->
            IF h.type = "set" THEN Failing("wrongType")
            ELSE IF h.type = "none" THEN Answer(NoSuchKey)
            ELSE IF shape = "counter" /\ h.v = NotAnInt THEN Failing("wrongType")
            ELSE Answer(h.v)

=============================================================================
