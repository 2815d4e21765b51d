------------------------------ MODULE Kitchen ------------------------------
(***************************************************************************)
(* The life of requests to the signal endpoints, from src/main.py through   *)
(* the telemetry middleware, require_skill and the route handler and back,  *)
(* over the cache of module Cache and the cost log of module Cost.          *)
(*                                                                          *)
(* Requests are tasks of one event loop.  An action takes one request from  *)
(* one await to the next; while a cache or log call is under way its own    *)
(* steps (Cache!CallerStep, Cost!CallerStep) interleave with everything     *)
(* else.  Where such a call ends without awaiting, the model still takes a  *)
(* step between the call and what follows: nothing shared is read there.    *)
(***************************************************************************)
EXTENDS Integers, Sequences, FiniteSets, Routes, Registry

CONSTANTS
    Request, Skill, NoSkill,
    Body,           \* signal -> the request bodies its clients send
    Provider,       \* the names whose class is of its signal's type
    Edition,        \* successive answers of a provider to one question
    Cap,            \* max_daily_usd_per_skill; 0 disables the check
    RecordedUsd,    \* the cost the telemetry middleware gives to record
    OldUsd,         \* costs of rows another writer left in cost_log
    Shaken,         \* bound on the questions whose entries Redis disturbs
    Registered,     \* the classes registered at the start: see Registry
    Equipped,       \* the names whose class finds its key or library
    Mistyped,       \* the names whose class is not of its signal's type
    Selection,      \* what providers.yaml may hold for a signal
    RedisUrl, FactTtl, StaticTtl, ForeignTtl, MaxLate, Garbage, Alien, None,
    Dsn, PoolSize, Window, Horizon

Signal == DOMAIN Body

VARIABLES
    req,        \* request -> where it stands and what it carries
    config,     \* signal -> its entry in providers.yaml
    life, client, cacheAttempted, store, call, late,    \* Cache
    now, pool, poolAttempted, costLog, lateRows, query  \* Cost

cacheVars == <<client, cacheAttempted, store, call, late>>
costVars == <<now, pool, poolAttempted, costLog, lateRows, query>>
vars == <<req, config, life, cacheVars, costVars>>
----------------------------------------------------------------------------
(* The parts. *)

Question(s, p, payload) == [signal |-> s, provider |-> p, payload |-> payload]

QuestionsOf(s) == {Question(s, p, Asked(s, b)) : b \in Body[s], p \in Provider}

Questions == UNION {QuestionsOf(s) : s \in Signal}

ASSUME KitchenAssumption ==
    /\ Signal \subseteq Signals /\ Signal # {} /\ Provider # {}
    /\ \A s \in Signal : Body[s] # {} /\ \A b \in Body[s] : DOMAIN b = HandlerOf(s).fields
    /\ NoSkill \notin Skill /\ None \notin Request
    /\ (Provider \cup Mistyped) \cap (NotAName \cup {"unconfigured", "broken"}) = {}
    /\ Provider \cap Mistyped = {}
    /\ Registered \subseteq Signals \X (Provider \cup Mistyped)
    /\ Shaken \subseteq Questions
    /\ Cap \in Nat /\ RecordedUsd \in Nat /\ OldUsd \subseteq Nat

KeyedOf(s) == {Question(s, p, CachePayload(s, b)) : b \in Body[s], p \in Provider}

CacheAsk == UNION {KeyedOf(s) \cup QuestionsOf(s) : s \in Signal}

Result == [question : Questions, edition : Edition]

Payload == {a.payload : a \in CacheAsk}

\* What module Cache asks of the constants handed on to it.
ASSUME EntriesAssumption ==
    /\ Garbage \notin Result /\ Alien \notin Result /\ None \notin Result
    /\ Garbage # Alien /\ None # Garbage /\ None # Alien
    /\ RedisUrl \in {"unset", "malformed", "set"}
    /\ FactTtl \in Nat \ {0} /\ StaticTtl \in Nat /\ FactTtl =< StaticTtl
    /\ ForeignTtl \subseteq {-1} \cup (Nat \ {0})
    /\ MaxLate \in Nat

Cache == INSTANCE Cache WITH
    Caller <- Request, Digest <- [p \in Payload |-> p], Ask <- CacheAsk,
    Value <- Result, Owner <- [v \in Result |-> v.question],
    Encodable <- Result, attempted <- cacheAttempted

\* What a row says of a request besides its skill, cost and time: which
\* request, its status, and the X-Cache-Hit header no route ever sets.
Note == [request : Request \cup {None}, status : Nat, hit : {FALSE}]

\* What module Cost asks of the constants handed on to it.
ASSUME LogAssumption ==
    /\ Skill # {} /\ None \notin Note
    /\ Dsn \in {"unset", "malformed", "set"}
    /\ PoolSize \in Nat \ {0} /\ Window \in Nat \ {0} /\ Horizon \in Nat

\* MaxRows bounds Cost!Next only: here each request enters one row at most.
Cost == INSTANCE Cost WITH
    Caller <- Request, Usd <- {RecordedUsd} \cup OldUsd, NoNote <- None,
    MaxRows <- 0, attempted <- poolAttempted
----------------------------------------------------------------------------
(* Requests. *)

Unhandled == 0  \* the bare 500 of the server, for an exception no layer caught

Status == {Unhandled, 200, 401, 422, 429, 500, 502, 503}

ASSUME StatusAssumption == None \notin Status

Forms == {"valid", "invalid"}   \* whether the body validates

Stages == {"new", "cap", "cached", "lookup", "saving", "answered", "recording",
           "sent", "lost"}

Req == [at : Stages, signal : Signal, body : UNION {Body[s] : s \in Signal},
        form : Forms, skill : Skill \cup {NoSkill}, provider : Provider \cup {None},
        result : Result \cup {None}, status : Status \cup {None}]

Unborn ==
    LET s == CHOOSE x \in Signal : TRUE
    IN  [at |-> "new", signal |-> s, body |-> CHOOSE b \in Body[s] : TRUE,
         form |-> "valid", skill |-> NoSkill, provider |-> None,
         result |-> None, status |-> None]

TypeOK ==
    /\ req \in [Request -> Req]
    /\ config \in [Signal -> Selection]
    /\ Cache!TypeOK
    /\ Cost!TypeOK

OldNote == [request |-> None, status |-> 200, hit |-> FALSE]

Init ==
    /\ req = [r \in Request |-> Unborn]
    /\ config \in [Signal -> Selection]
    /\ Cache!Init
    /\ now = 0 /\ pool = "none" /\ poolAttempted = FALSE /\ lateRows = {}
    /\ query = [r \in Request |-> Cost!Rest]
    /\ costLog \in {<< >>} \cup
         {<<[skill |-> k, usd |-> u, note |-> OldNote, ts |-> 0]>> : k \in Skill, u \in OldUsd}

\* A response on its way out through the middleware.
Answer(q, status, result) ==
    [q EXCEPT !.at = "answered", !.status = status, !.result = result]

Refuse(q, status) == Answer(q, status, None)

\* An exception that leaves the route leaves the telemetry middleware too.
Crash(q) == [q EXCEPT !.at = "sent", !.status = Unhandled, !.result = None]

Becomes(r, q) == req' = [req EXCEPT ![r] = q]
----------------------------------------------------------------------------
(* The way in. *)

CacheQuestion(q) == Question(q.signal, q.provider, CachePayload(q.signal, q.body))

\* The handler up to its first await: validation of the body, then the
\* provider, then the cache.
Handle(r, q) ==
    LET p == Active(Registered, Equipped, q.signal, config[q.signal])
        asking == [q EXCEPT !.at = "cached", !.provider = p]
    IN  \/ /\ q.form = "invalid"
           /\ Becomes(r, Refuse(q, 422))
           /\ UNCHANGED <<life, cacheVars>>
        \/ /\ q.form = "valid" /\ p = "broken"
           /\ Becomes(r, Crash(q))
           /\ UNCHANGED <<life, cacheVars>>
        \/ /\ q.form = "valid" /\ p \in Mistyped \cup {"unconfigured"}
           /\ Becomes(r, Refuse(q, IF p = "unconfigured" THEN 503 ELSE 500))
           /\ UNCHANGED <<life, cacheVars>>
        \/ /\ q.form = "valid" /\ p \in Provider
           /\ Becomes(r, asking)
           /\ Cache!BeginGet(r, CacheQuestion(asking))

\* Requests with a known token: their JSON is of the wrong shape, or asks one
\* of the questions clients ask.
Misshapen == {[Unborn EXCEPT !.skill = k, !.form = "invalid"] : k \in Skill}

Asking(s) ==
    {[Unborn EXCEPT !.skill = k, !.signal = s, !.body = b] : k \in Skill, b \in Body[s]}

Authentic == Misshapen \cup UNION {Asking(s) : s \in Signal}

\* A request comes in.  A body that is not JSON is refused before any
\* dependency runs; then comes the bearer token; then the cap, if there is
\* one; then the handler.
Arrive(r) ==
    /\ req[r].at = "new"
    /\ \/ /\ Becomes(r, Refuse(Unborn, 422))
          /\ UNCHANGED <<life, cacheVars, costVars>>
       \/ /\ Becomes(r, Refuse(Unborn, 401))
          /\ UNCHANGED <<life, cacheVars, costVars>>
       \/ \E q \in Authentic :
             \/ /\ Cap > 0
                /\ Becomes(r, [q EXCEPT !.at = "cap"])
                /\ Cost!BeginTotal(r, q.skill)
                /\ UNCHANGED cacheVars
             \/ /\ Cap = 0
                /\ Handle(r, q)
                /\ UNCHANGED costVars
    /\ UNCHANGED config

\* The cap check off by one.
CapCheckedEarly(r) ==
    /\ req[r].at = "cap" /\ Cost!Quiet(r)
    /\ \/ /\ query[r].at = "done" /\ query[r].spent + 1 >= Cap
          /\ Becomes(r, Refuse(req[r], 429))
          /\ UNCHANGED <<life, cacheVars>>
       \/ /\ query[r].at = "done" /\ query[r].spent + 1 < Cap
          /\ Handle(r, req[r])
    /\ UNCHANGED <<config, costVars>>

\* require_skill once daily_total has returned, or raised.
CapChecked(r) ==
    /\ req[r].at = "cap" /\ Cost!Quiet(r)
    /\ \/ /\ query[r].at = "raised"
          /\ Becomes(r, Crash(req[r]))
          /\ UNCHANGED <<life, cacheVars>>
       \/ /\ query[r].at = "done" /\ query[r].spent >= Cap
          /\ Becomes(r, Refuse(req[r], 429))
          /\ UNCHANGED <<life, cacheVars>>
       \/ /\ query[r].at = "done" /\ query[r].spent < Cap
          /\ Handle(r, req[r])
    /\ UNCHANGED <<config, costVars>>

\* A hit that is taken for a result without model_validate.
CacheAnsweredUnvalidated(r) ==
    /\ req[r].at = "cached" /\ Cache!Quiet(r)
    /\ \/ /\ call[r].got # None
          /\ Becomes(r, Answer(req[r], 200, call[r].got))
       \/ /\ call[r].got = None
          /\ Becomes(r, [req[r] EXCEPT !.at = "lookup"])
    /\ UNCHANGED <<config, life, cacheVars, costVars>>

\* cache.get has returned: a hit that validates is the answer; a miss, and a
\* hit that does not, go to the provider.
CacheAnswered(r) ==
    /\ req[r].at = "cached" /\ Cache!Quiet(r)
    /\ \/ /\ call[r].at = "raised"
          /\ Becomes(r, Crash(req[r]))
       \/ /\ call[r].at = "done" /\ call[r].got \in Result
          /\ Becomes(r, Answer(req[r], 200, call[r].got))
       \/ /\ call[r].at = "done" /\ call[r].got \notin Result
          /\ Becomes(r, [req[r] EXCEPT !.at = "lookup"])
    /\ UNCHANGED <<config, life, cacheVars, costVars>>

\* An answer of the provider the request was dispatched to.
Provided(q, e) ==
    [question |-> Question(q.signal, q.provider, Asked(q.signal, q.body)), edition |-> e]

\* The provider answers, in one of its editions, or raises ValueError, or
\* raises anything else.
LookupEnds(r) ==
    /\ req[r].at = "lookup"
    /\ \/ \E e \in Edition :
            LET v == Provided(req[r], e)
            IN  /\ Becomes(r, [req[r] EXCEPT !.at = "saving", !.result = v])
                /\ Cache!BeginSet(r, CacheQuestion(req[r]), v, HandlerOf(req[r].signal).ttl)
       \/ /\ \E s \in {422, 502} : Becomes(r, Refuse(req[r], s))
          /\ UNCHANGED <<life, cacheVars>>
    /\ UNCHANGED <<config, costVars>>

\* cache.set has returned: the handler is done.
Saved(r) ==
    /\ req[r].at = "saving" /\ Cache!Quiet(r)
    /\ Becomes(r, IF call[r].at = "raised" THEN Crash(req[r])
                  ELSE Answer(req[r], 200, req[r].result))
    /\ UNCHANGED <<config, life, cacheVars, costVars>>
----------------------------------------------------------------------------
(* The way out. *)

\* Telemetry that records a success whatever the status.
RowOfSuccess(r) == [request |-> r, status |-> 200, hit |-> FALSE]

RowOf(r) == [request |-> r, status |-> req[r].status, hit |-> FALSE]

\* The middleware without its test for a missing skill_id.
TelemetryForAll(r) ==
    /\ req[r].at = "answered"
    /\ Becomes(r, [req[r] EXCEPT !.at = "recording"])
    /\ Cost!BeginRecord(r, req[r].skill, RecordedUsd, RowOf(r))
    /\ UNCHANGED <<config, cacheVars>>

\* The telemetry middleware: nothing to record for a request whose skill was
\* never established.
Telemetry(r) ==
    /\ req[r].at = "answered"
    /\ \/ /\ req[r].skill = NoSkill
          /\ Becomes(r, [req[r] EXCEPT !.at = "sent"])
          /\ UNCHANGED <<life, costVars>>
       \/ /\ req[r].skill # NoSkill
          /\ Becomes(r, [req[r] EXCEPT !.at = "recording"])
          /\ Cost!BeginRecord(r, req[r].skill, RecordedUsd, RowOf(r))
    /\ UNCHANGED <<config, cacheVars>>

\* The middleware without its try around record.
RecordedUncaught(r) ==
    /\ req[r].at = "recording" /\ Cost!Quiet(r)
    /\ Becomes(r, IF query[r].at = "raised" THEN Crash(req[r])
                  ELSE [req[r] EXCEPT !.at = "sent"])
    /\ UNCHANGED <<config, life, cacheVars, costVars>>

\* record has returned or raised; either way the response goes out now.
Recorded(r) ==
    /\ req[r].at = "recording" /\ Cost!Quiet(r)
    /\ Becomes(r, [req[r] EXCEPT !.at = "sent"])
    /\ UNCHANGED <<config, life, cacheVars, costVars>>

Proceed(r) ==
    \/ Arrive(r) \/ CapChecked(r) \/ CacheAnswered(r) \/ LookupEnds(r)
    \/ Saved(r) \/ Telemetry(r) \/ Recorded(r)

CacheStep(r) == Cache!CallerStep(r) /\ UNCHANGED <<req, config, costVars>>

CostStep(r) == Cost!CallerStep(r) /\ UNCHANGED <<req, config, cacheVars>>
----------------------------------------------------------------------------
(* The world around. *)

RedisMoves ==
    /\ \/ Cache!LateApplied
       \/ \E k \in {Cache!HashKey(a) : a \in Shaken} : Cache!Evict(k) \/ Cache!Damage(k)
    /\ UNCHANGED <<req, config, costVars>>

PostgresMoves ==
    /\ \E row \in lateRows : Cost!LateInsert(row)
    /\ UNCHANGED <<req, config, cacheVars>>

Tick == Cache!Tick /\ Cost!Tick /\ UNCHANGED <<req, config>>

\* config/providers.yaml is edited; it is read anew for every request.
Reconfigure(s) ==
    /\ \E entry \in Selection : config' = [config EXCEPT ![s] = entry]
    /\ UNCHANGED <<req, life, cacheVars, costVars>>

\* The process dies: requests under way are lost with it.
Restart ==
    /\ Cache!Restart /\ Cost!Restart
    /\ req' = [r \in Request |->
                 IF req[r].at \in {"new", "sent", "lost"} THEN req[r]
                 ELSE [req[r] EXCEPT !.at = "lost"]]
    /\ UNCHANGED config

Next ==
    \/ \E r \in Request : Proceed(r) \/ CacheStep(r) \/ CostStep(r)
    \/ RedisMoves \/ PostgresMoves \/ Tick \/ Restart
    \/ \E s \in Signal : Reconfigure(s)

Spec == Init /\ [][Next]_vars

\* Sockets and statements time out and the event loop resumes what was waiting
\* for them; answers and arrivals are not guaranteed, nor is it that a
\* connection to Postgres is ever given back.  Lookups end, but for the HTTP
\* body without end of module Providers, left out here.  A request makes one
\* call of the log at a time and at most two in all, so a free connection
\* cannot be taken from it for ever.
FairSpec ==
    /\ Spec
    /\ \A r \in Request :
        /\ WF_vars(req[r].at # "new" /\ Proceed(r))
        /\ WF_vars((Cache!PingFails(r) \/ Cache!CommandFails(r))
                     /\ UNCHANGED <<req, config, costVars>>)
        /\ WF_vars(Cost!TimesOut(r) /\ UNCHANGED <<req, config, cacheVars>>)
        /\ WF_vars((Cost!Acquired(r) \/ Cost!AcquireFails(r))
                     /\ UNCHANGED <<req, config, cacheVars>>)
----------------------------------------------------------------------------
(* Properties. *)

\* A 200 carries the answer of the provider the request was dispatched to, to
\* the question this request's own body asks: neither another request's
\* entry, nor another provider's after a change of configuration, nor damaged
\* text ever reaches a client (cache.py:44-50 with routes/*.py).
AnswersGenuine ==
    \A r \in Request : req[r].status = 200 =>
        req[r].result.question =
            Question(req[r].signal, req[r].provider, Asked(req[r].signal, req[r].body))

\* The log says of a request at most one thing, and that is what its client
\* was told: its skill and its final status (main.py:83-87,
\* middleware/cost_telemetry.py:32-61).
RowsOf(r) == {i \in DOMAIN costLog : costLog[i].note.request = r}

LedgerTruthful ==
    \A r \in Request :
        /\ \A i, j \in RowsOf(r) : i = j
        /\ \A i \in RowsOf(r) :
              /\ costLog[i].skill = req[r].skill
              /\ costLog[i].note.status = req[r].status

\* The signals whose answers change daily, by the comments of their routes
\* (routes/scraping.py:71, routes/search.py:70, routes/traffic.py:69).  people
\* is not one of them: cache.py:8-10 counts headcount and hiring among the
\* facts of a day, but the route takes headcount to change by the quarter and
\* stores it for seven (routes/people.py:69-70).
DailySignals == {"scraping", "search", "traffic"}

\* An answer to a daily-changing signal that the service stored is gone within
\* the fact TTL: Redis never holds it with longer to live or with no end,
\* however late the command that wrote it was carried out and whatever was
\* under its key before (cache.py:33-34, 117-139, routes/*.py).
FactsExpire ==
    \A k \in Cache!Key :
        store[k] # None /\ store[k].text \in Result /\ k[1] \in DailySignals
            => store[k].left \in 1..FactTtl

\* A 429 is sent only to a skill whose own rows reach the cap, those since the
\* cutoff its call of daily_total fixed before it waited for a connection, and
\* never while the log is unavailable (auth.py:82-98, cost.py:12-19, 141-143).
RefusalsJustified ==
    [][\A r \in Request :
          req'[r].status = 429 /\ req[r].status # 429
            => pool = "open" /\ Cost!SpentSince(req[r].skill, query[r].cutoff) >= Cap]_vars

\* What Service knows of a request, and of the rows about it.  A row is on its
\* way from the moment its INSERT is sent.
StageOf(r) ==
    IF req[r].at \in {"cap", "cached", "lookup", "saving"} THEN "open"
    ELSE IF req[r].at \in {"answered", "recording"} THEN "decided"
    ELSE req[r].at

AnswerOf(r) ==
    IF req[r].status = None THEN None
    ELSE [skill |-> req[r].skill, status |-> req[r].status, result |-> req[r].result]

LedgerOf(r) ==
    [i \in RowsOf(r) |-> [skill |-> costLog[i].skill, status |-> costLog[i].note.status]]

Inserting(r) == query[r].at = "statement" /\ query[r].op = "record"

LateOf(r) == {row \in lateRows : row.note.request = r}

Posted == {r \in Request : Inserting(r) \/ LateOf(r) # {}}

\* A result comes with a 200 and with nothing else, a stranger gets as far as
\* the check of the token.
Bare == [skill : Skill, status : {Unhandled}, result : {None}]

Answers ==
    Bare \cup [skill : Skill, status : {200}, result : Result]
         \cup [skill : Skill, status : {422, 429, 500, 502, 503}, result : {None}]
         \cup [skill : {NoSkill}, status : {401, 422}, result : {None}]

Promise == INSTANCE Service WITH
    Undecided <- None,
    stage <- [r \in Request |-> StageOf(r)],
    answer <- [r \in Request |-> AnswerOf(r)],
    posted <- Posted,
    ledger <- [r \in Request |-> LedgerOf(r)]

\* The pipeline, with the cache and the log in it, keeps the promise of module
\* Service: an answer decided once, sent as decided, entered at most once and
\* with the status its client is told, however late Postgres carries out the
\* INSERT, across failures of both back ends and restarts.  Where cost.py:7-8
\* and middleware/cost_telemetry.py:57-58 speak of a row after the response,
\* the INSERT is sent before it, and may be carried out before or after
\* (routes/*.py, middleware/cost_telemetry.py:32-61).
KeepsPromise == Promise!Spec

\* A connection URL that its library refuses costs one request of each process
\* life its answer, and no more: whoever comes later finds the attempt made
\* and goes on without the cache or the log (cache.py:58-62, cost.py:51-55).
RefusedUrlCostsOne ==
    /\ Cardinality({r \in Request : query[r].at = "raised"}) =< 1
    /\ Cardinality({r \in Request : call[r].at = "raised"}) =< 1

\* Held up by a connection that is not given back: the request's own, those of
\* all the others it would have to wait for, or that of the migrations.
Held(r) ==
    \/ query[r].at \in {"migrate", "release"}
    \/ /\ query[r].at = "acquire"
       /\ Cardinality({d \in Request : query[d].at = "release"}) >= PoolSize

\* Every request that came in is answered, with Redis, Postgres or both
\* silent, unless the process dies under it (cache.py:12-15, cost.py:12-19).
\* Nothing else can hold it up for good but connections that are not given
\* back, which has no timeout (cost.py:82, 113, 143).
EveryRequestAnswered ==
    \A r \in Request :
        \/ req[r].at \notin {"new", "sent", "lost"} ~> req[r].at \in {"sent", "lost"}
        \/ <>[]Held(r)

\* upstreams/__init__.py:98: "Import every concrete provider module so its
\* @register decorator fires".  So a signal for which providers.yaml names a
\* provider that is there, and has its key and library, is never unconfigured.
ShippedProvidersServe ==
    [][\A r \in Request :
          LET entry == config[req'[r].signal]
          IN  /\ req'[r].status = 503 /\ req[r].status # 503
              /\ entry \in Equipped
              => <<req'[r].signal, entry>> \notin Defined]_vars
=============================================================================
