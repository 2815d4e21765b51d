------------------------------- MODULE Cache -------------------------------
(***************************************************************************)
(* The Redis cache of src/cache.py: get, set and delete over a connection   *)
(* opened by the first of them, with many coroutines calling at once.       *)
(*                                                                          *)
(* The process runs one event loop, so a coroutine loses control only where *)
(* it awaits: the ping of _get_client and each Redis command.  An action is *)
(* what one coroutine does from one await to the next.  Redis itself is     *)
(* external: it outlives the process, expires and evicts entries, may hold  *)
(* text that no version of the program wrote, and may carry out a command   *)
(* the program has given up on.                                             *)
(***************************************************************************)
EXTENDS Integers, FiniteSets

CONSTANTS
    Caller,         \* coroutines that use the cache
    Signal, Provider, Payload,
    Digest,         \* payload -> the first 32 hex digits of its SHA-256
    Ask,            \* the (signal, provider, payload) triples in use
    Value,          \* provider results, as decoded from JSON
    Owner,          \* value -> the triple it answers
    Encodable,      \* the values json.dumps accepts
    Garbage,        \* stored text that is not JSON
    Alien,          \* stored JSON that is not a provider result
    None,
    RedisUrl,       \* "unset", "malformed" (from_url raises) or "set"
    FactTtl, StaticTtl,     \* FACT_TTL_S and STATIC_TTL_S, in ticks
    ForeignTtl,     \* the times to live other writers give their text
    MaxLate         \* bound on abandoned commands Redis may still carry out

Triples == [signal : Signal, provider : Provider, payload : Payload]

\* The time to live of an entry that has none, as Redis's TTL answers it.
NoExpiry == -1

Ttl == {NoExpiry} \cup (Nat \ {0})

\* SHA-256 cut to 128 bits is taken to separate the payloads in use; the
\* time to live of a fact is the shorter one, as at cache.py:33-34.
ASSUME CacheAssumption ==
    /\ Ask \subseteq Triples /\ Ask # {}
    /\ \A p, q \in Payload : Digest[p] = Digest[q] => p = q
    /\ Owner \in [Value -> Ask]
    /\ Encodable \subseteq Value
    /\ Garbage \notin Value /\ Alien \notin Value /\ None \notin Value
    /\ Garbage # Alien /\ None # Garbage /\ None # Alien
    /\ RedisUrl \in {"unset", "malformed", "set"}
    /\ FactTtl \in Nat \ {0} /\ StaticTtl \in Nat /\ FactTtl =< StaticTtl
    /\ ForeignTtl \subseteq Ttl
    /\ MaxLate \in Nat

VARIABLES
    life,       \* parity of the number of restarts
    client,     \* _client: "none" or "connected"
    attempted,  \* _client_attempted
    store,      \* what Redis holds: key -> entry
    call,       \* caller -> the cache call it is in, or its last one
    late        \* commands Redis got but has not carried out, whose caller left

vars == <<life, client, attempted, store, call, late>>
----------------------------------------------------------------------------
\* A key that leaves the provider out.
HashKeyWithoutProvider(a) == <<a.signal, "any", Digest[a.payload]>>

\* _hash_key: signal and provider are kept in clear, the payload is digested.
HashKey(a) == <<a.signal, a.provider, Digest[a.payload]>>

Key == {HashKey(a) : a \in Ask}

Text == Value \cup {Garbage, Alien}

TtlKind == {"fact", "static"}

TtlOf(kind) == IF kind = "static" THEN StaticTtl ELSE FactTtl

\* An entry is its text and the ticks it has left to live.
Entry == [text : Text, left : Ttl] \cup {None}

Command == [key : Key, entry : Entry]

Stages == {"idle", "ping", "command", "drop", "done", "raised"}

Call == [at : Stages, op : {"get", "set", "delete"}, ask : Ask,
         text : Value \cup {None}, kind : TtlKind,
         got : Value \cup {Alien, None}]

Quiet(c) == call[c].at \in {"idle", "done", "raised"}

\* A coroutine that has not called anything yet in this life.
Rest == [at |-> "idle", op |-> "get", ask |-> CHOOSE a \in Ask : TRUE,
         text |-> None, kind |-> "fact", got |-> None]

TypeOK ==
    /\ life \in {0, 1}
    /\ client \in {"none", "connected"}
    /\ attempted \in BOOLEAN
    /\ store \in [Key -> Entry]
    /\ call \in [Caller -> Call]
    /\ late \subseteq Command

Init ==
    /\ life = 0
    /\ client = "none"
    /\ attempted = FALSE
    /\ store = [k \in Key |-> None]
    /\ call = [c \in Caller |-> Rest]
    /\ late = {}
----------------------------------------------------------------------------
(* Coroutine steps. *)

\* A call that has its client goes on to its Redis command.  Only set does
\* anything first: it encodes the value, and gives up if that fails.
Ready(r) ==
    [r EXCEPT !.at = IF r.op = "set" /\ r.text \notin Encodable
                     THEN "done" ELSE "command"]

Finish(r, v) == [r EXCEPT !.at = "done", !.got = v]

\* The first call of a process: nothing to connect to, from_url raising out
\* of the operation, or the ping.
Opening(r) ==
    IF RedisUrl = "unset" THEN Finish(r, None)
    ELSE [r EXCEPT !.at = IF RedisUrl = "malformed" THEN "raised" ELSE "ping"]

\* GetClient with the flag never set before the ping.
GetClientFlagLast(c, r) ==
    \/ /\ client = "connected"
       /\ call' = [call EXCEPT ![c] = Ready(r)]
       /\ UNCHANGED attempted
    \/ /\ client = "none"
       /\ call' = [call EXCEPT ![c] = [r EXCEPT !.at = "ping"]]
       /\ UNCHANGED attempted

\* The flag set only once redis-py has taken the URL.
GetClientFlagAfterUrl(c, r) ==
    \/ /\ client = "connected"
       /\ call' = [call EXCEPT ![c] = Ready(r)]
       /\ UNCHANGED attempted
    \/ /\ client = "none" /\ attempted
       /\ call' = [call EXCEPT ![c] = Finish(r, None)]
       /\ UNCHANGED attempted
    \/ /\ client = "none" /\ ~attempted
       /\ attempted' = (RedisUrl # "malformed")
       /\ call' = [call EXCEPT ![c] = Opening(r)]

\* The opening of every operation: _get_client up to its first await, and
\* what follows it when it does not await at all.
GetClient(c, r) ==
    \/ /\ client = "connected"
       /\ call' = [call EXCEPT ![c] = Ready(r)]
       /\ UNCHANGED attempted
    \/ /\ client = "none" /\ attempted
       /\ call' = [call EXCEPT ![c] = Finish(r, None)]
       /\ UNCHANGED attempted
    \/ /\ client = "none" /\ ~attempted
       /\ attempted' = TRUE
       /\ call' = [call EXCEPT ![c] = Opening(r)]

Begin(c, op, a, v, kind) ==
    /\ Quiet(c)
    /\ GetClient(c, [at |-> "idle", op |-> op, ask |-> a, text |-> v,
                     kind |-> kind, got |-> None])
    /\ UNCHANGED <<life, client, store, late>>

BeginGet(c, a) == Begin(c, "get", a, None, "fact")

BeginSet(c, a, v, kind) == Begin(c, "set", a, v, kind)

BeginDelete(c, a) == Begin(c, "delete", a, None, "fact")

PingAnswered(c) ==
    /\ call[c].at = "ping"
    /\ client' = "connected"
    /\ call' = [call EXCEPT ![c] = Ready(call[c])]
    /\ UNCHANGED <<life, attempted, store, late>>

\* A failed ping after which the operation goes on with its command.
PingFailsUnnoticed(c) ==
    /\ call[c].at = "ping"
    /\ call' = [call EXCEPT ![c] = Ready(call[c])]
    /\ UNCHANGED <<life, client, attempted, store, late>>

\* A RedisError or an OSError, the two-second connect timeout included.
PingFails(c) ==
    /\ call[c].at = "ping"
    /\ call' = [call EXCEPT ![c] = Finish(call[c], None)]
    /\ UNCHANGED <<life, client, attempted, store, late>>

\* What the caller's command asks Redis to do to the store.
Effect(r) ==
    [key |-> HashKey(r.ask),
     entry |-> IF r.op = "set" THEN [text |-> r.text, left |-> TtlOf(r.kind)]
                               ELSE None]

Apply(m) == store' = [store EXCEPT ![m.key] = m.entry]

\* A get that hands out the stored text without decoding it.
GetAnsweredUndecoded(c) ==
    /\ call[c].at = "command" /\ call[c].op = "get"
    /\ LET e == store[HashKey(call[c].ask)]
       IN  call' = [call EXCEPT ![c] =
                      IF e = None THEN Finish(call[c], None) ELSE Finish(call[c], e.text)]
    /\ UNCHANGED <<life, client, attempted, store, late>>

\* get, once GET is answered: a miss, a decoded hit, or text that is not
\* JSON, which the coroutine goes on to delete.
GetAnswered(c) ==
    /\ call[c].at = "command" /\ call[c].op = "get"
    /\ LET e == store[HashKey(call[c].ask)]
       IN  call' = [call EXCEPT ![c] =
                      IF e = None THEN Finish(call[c], None)
                      ELSE IF e.text = Garbage THEN [call[c] EXCEPT !.at = "drop"]
                      ELSE Finish(call[c], e.text)]
    /\ UNCHANGED <<life, client, attempted, store, late>>

\* set and delete, once SETEX or DEL is answered (whether DEL found anything,
\* which delete returns, is left out: no route asks); and the DEL by which get
\* drops a corrupt entry.
WriteAnswered(c) ==
    /\ \/ call[c].at = "command" /\ call[c].op \in {"set", "delete"}
       \/ call[c].at = "drop"
    /\ Apply(Effect(call[c]))
    /\ call' = [call EXCEPT ![c] = Finish(call[c], None)]
    /\ UNCHANGED <<life, client, attempted, late>>

\* A command ends in an error.  The caller is told nothing but "no result";
\* a write whose answer timed out may still be carried out, later.
CommandFails(c) ==
    /\ call[c].at \in {"command", "drop"}
    /\ call' = [call EXCEPT ![c] = Finish(call[c], None)]
    /\ \/ late' = late
       \/ /\ call[c].at = "drop" \/ call[c].op # "get"
          /\ Cardinality(late) < MaxLate
          /\ late' = late \cup {Effect(call[c])}
    /\ UNCHANGED <<life, client, attempted, store>>

CallerStep(c) ==
    \/ PingAnswered(c) \/ PingFails(c)
    \/ GetAnswered(c) \/ WriteAnswered(c) \/ CommandFails(c)
----------------------------------------------------------------------------
(* Redis and the process around it. *)

\* Redis gets to a command whose caller is no longer waiting.
LateApplied ==
    \E m \in late :
        /\ Apply(m)
        /\ late' = late \ {m}
        /\ UNCHANGED <<life, client, attempted, call>>

Aged(e) ==
    CASE e = None \/ e.left = 1 -> None
      [] e # None /\ e.left = NoExpiry -> e
      [] OTHER -> [e EXCEPT !.left = @ - 1]

Tick ==
    /\ store' = [k \in Key |-> Aged(store[k])]
    /\ UNCHANGED <<life, client, attempted, call, late>>

Evict(k) ==
    /\ store' = [store EXCEPT ![k] = None]
    /\ UNCHANGED <<life, client, attempted, call, late>>

\* Something else wrote under the key: an older release, an operator.  It gave
\* its text a time to live of its own, or none.
Damage(k) ==
    /\ \E t \in {Garbage, Alien}, n \in ForeignTtl :
          store' = [store EXCEPT ![k] = [text |-> t, left |-> n]]
    /\ UNCHANGED <<life, client, attempted, call, late>>

\* The container restarts.  Redis keeps its data, and may already have been
\* sent the commands the dead process was waiting for.
Restart ==
    /\ life' = 1 - life
    /\ client' = "none"
    /\ attempted' = FALSE
    /\ call' = [c \in Caller |-> Rest]
    /\ \E W \in SUBSET {c \in Caller : \/ call[c].at = "drop"
                                       \/ call[c].at = "command" /\ call[c].op # "get"} :
          /\ Cardinality(late) + Cardinality(W) =< MaxLate
          /\ late' = late \cup {Effect(call[c]) : c \in W}
    /\ UNCHANGED store

\* The commands of the routes: they ask what they like, and store under a
\* triple only a value that answers it.
Calls(c) ==
    \E a \in Ask :
        \/ BeginGet(c, a)
        \/ BeginDelete(c, a)
        \/ \E v \in Value, kind \in TtlKind :
              Owner[v] = a /\ BeginSet(c, a, v, kind)

Environment ==
    LateApplied \/ Tick \/ Restart \/ \E k \in Key : Evict(k) \/ Damage(k)

Next ==
    \/ \E c \in Caller : Calls(c) \/ CallerStep(c)
    \/ Environment

Spec == Init /\ [][Next]_vars
----------------------------------------------------------------------------
(* Properties. *)

\* No cross-talk: a get that returns a provider result returns one that
\* answers the very (signal, provider, payload) it was asked for, however
\* writes, late writes, evictions and restarts interleave, and never text
\* that does not decode (cache.py:93-114).
HitsAnswerTheirAsk ==
    \A c \in Caller :
        call[c].at = "done" /\ call[c].op = "get"
            => call[c].got \in {None, Alien} \/ Owner[call[c].got] = call[c].ask

\* While the process has no client, no operation is talking to Redis and no
\* operation returns anything: the cache is a no-op (cache.py:12-15).
DisabledIsNoOp ==
    client = "none" =>
        \A c \in Caller : call[c].at \notin {"command", "drop"} /\ call[c].got = None

\* At most one connection attempt in a process life, whatever the number of
\* callers that meet in it, and no way back once it is decided
\* (cache.py:53-77).
Phase ==
    IF client = "connected" THEN "up"
    ELSE IF ~attempted THEN "untried"
    ELSE IF \E c \in Caller : call[c].at = "ping" THEN "trying"
    ELSE "down"

Connection == INSTANCE OneShot WITH life <- life, phase <- Phase

ConnectsOnce == Connection!Spec
=============================================================================
