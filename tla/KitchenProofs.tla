---------------------------- MODULE KitchenProofs ----------------------------
(***************************************************************************)
(* What clients are told, for any requests, bodies, providers and results,  *)
(* any configuration and any behaviour of Redis and Postgres.               *)
(*                                                                          *)
(* The theorems about the cache are those of CacheProofs, of which CP is    *)
(* the instance Kitchen makes of Cache: the first part of the module shows  *)
(* that each step of Kitchen is one of Cache, or leaves it alone.           *)
(***************************************************************************)
EXTENDS Kitchen, TLAPS

CP == INSTANCE CacheProofs WITH
    Caller <- Request, Digest <- [p \in Payload |-> p], Ask <- CacheAsk,
    Value <- Result, Owner <- [v \in Result |-> v.question],
    Encodable <- Result, attempted <- cacheAttempted

----------------------------------------------------------------------------
(* Cache and CP are instances of one module; the provers, which see two sets *)
(* of names, are shown so once, operator by operator.                        *)

LEMMA SameKey == \A a : Cache!HashKey(a) = CP!HashKey(a)
BY DEF Cache!HashKey, CP!HashKey

LEMMA SameKeys == Cache!Key = CP!Key
BY SameKey DEF Cache!Key, CP!Key

LEMMA SameRest == Cache!Rest = CP!Rest
BY DEF Cache!Rest, CP!Rest

LEMMA SameEffect == \A c : Cache!Effect(c) = CP!Effect(c)
BY DEF Cache!Effect, CP!Effect, Cache!HashKey, CP!HashKey, Cache!TtlOf, CP!TtlOf

LEMMA SameReady == \A c : Cache!Ready(c) = CP!Ready(c)
BY DEF Cache!Ready, CP!Ready

LEMMA SameFinish == \A c, v : Cache!Finish(c, v) = CP!Finish(c, v)
BY DEF Cache!Finish, CP!Finish

LEMMA SameAged == \A e : Cache!Aged(e) = CP!Aged(e)
BY DEF Cache!Aged, CP!Aged, Cache!NoExpiry, CP!NoExpiry

LEMMA SameApply == \A m : Cache!Apply(m) <=> CP!Apply(m)
BY DEF Cache!Apply, CP!Apply

LEMMA SameCardinality == \A S : Cache!Cardinality(S) = CP!Cardinality(S)
BY DEF Cache!Cardinality, CP!Cardinality

LEMMA SameCaller == ASSUME NEW c, Cache!CallerStep(c) PROVE CP!CallerStep(c)
<1>1. Cache!PingAnswered(c) => CP!PingAnswered(c)
  BY SameReady, Zenon DEF Cache!PingAnswered, CP!PingAnswered
<1>2. Cache!PingFails(c) => CP!PingFails(c)
  BY SameFinish, Zenon DEF Cache!PingFails, CP!PingFails
<1>3. Cache!GetAnswered(c) => CP!GetAnswered(c)
  BY SameFinish, SameKey DEF Cache!GetAnswered, CP!GetAnswered
<1>4. Cache!WriteAnswered(c) => CP!WriteAnswered(c)
  BY SameFinish, SameApply, SameEffect, Zenon DEF Cache!WriteAnswered, CP!WriteAnswered
<1>5. Cache!CommandFails(c) => CP!CommandFails(c)
  BY SameCardinality
     DEF Cache!CommandFails, CP!CommandFails, Cache!Finish, CP!Finish, Cache!Effect,
         CP!Effect, Cache!HashKey, CP!HashKey, Cache!TtlOf, CP!TtlOf
<1> QED
  BY <1>1, <1>2, <1>3, <1>4, <1>5 DEF Cache!CallerStep, CP!CallerStep

LEMMA SameEnv == ASSUME Cache!Environment PROVE CP!Environment
<1>1. Cache!LateApplied => CP!LateApplied
  BY SameApply DEF Cache!LateApplied, CP!LateApplied
<1>2. Cache!Tick => CP!Tick
  BY SameAged, SameKeys DEF Cache!Tick, CP!Tick
<1>3. Cache!Restart => CP!Restart
  BY SameCardinality
     DEF Cache!Restart, CP!Restart, Cache!Rest, CP!Rest, Cache!Effect, CP!Effect,
         Cache!HashKey, CP!HashKey, Cache!TtlOf, CP!TtlOf
<1>4. \A k : Cache!Evict(k) => CP!Evict(k)
  BY DEF Cache!Evict, CP!Evict
<1>5. \A k : Cache!Damage(k) => CP!Damage(k)
  BY DEF Cache!Damage, CP!Damage
<1> QED
  BY <1>1, <1>2, <1>3, <1>4, <1>5, SameKeys DEF Cache!Environment, CP!Environment

LEMMA SameBegin ==
    ASSUME NEW c, NEW a, NEW op, NEW v, NEW kind, Cache!Begin(c, op, a, v, kind)
    PROVE  CP!Begin(c, op, a, v, kind)
BY DEF Cache!Begin, CP!Begin, Cache!Quiet, CP!Quiet, Cache!GetClient, CP!GetClient,
       Cache!Ready, CP!Ready, Cache!Finish, CP!Finish, Cache!Opening, CP!Opening

LEMMA SameInit == Cache!Init => CP!Init
<1>1. [k \in Cache!Key |-> None] = [k \in CP!Key |-> None]
  BY SameKeys
<1>2. [r \in Request |-> Cache!Rest] = [r \in Request |-> CP!Rest]
  BY SameRest
<1> QED
  BY <1>1, <1>2 DEF Cache!Init, CP!Init
----------------------------------------------------------------------------
(* The constants. *)

\* Every handler caches an answer under all that its provider is asked.
LEMMA PayloadIsAsked ==
    ASSUME NEW s \in Signal, NEW b PROVE CachePayload(s, b) = Asked(s, b)
<1>1. \A h \in Handlers : h.asks = h.keyed
  BY DEF Handlers, Funding, People, Scraping, Search, Tech, Traffic
<1>2. HandlerOf(s) \in Handlers
  BY KitchenAssumption DEF Signals, HandlerOf
<1> QED
  BY <1>1, <1>2 DEF CachePayload, Asked

LEMMA TtlsAreKinds == \A s \in Signal : HandlerOf(s).ttl \in {"fact", "static"}
<1>1. \A h \in Handlers : h.ttl \in {"fact", "static"}
  BY DEF Handlers, Funding, People, Scraping, Search, Tech, Traffic
<1>2. \A s \in Signal : HandlerOf(s) \in Handlers
  BY KitchenAssumption DEF Signals, HandlerOf
<1> QED
  BY <1>1, <1>2

\* No handler of a daily signal asks for the longer time to live.
LEMMA DailyIsFact == \A s \in Signal : s \in DailySignals => HandlerOf(s).ttl = "fact"
<1>1. \A h \in Handlers : h.signal \in DailySignals => h.ttl = "fact"
  BY DEF Handlers, Funding, People, Scraping, Search, Tech, Traffic, DailySignals
<1>2. \A s \in Signal : HandlerOf(s) \in Handlers /\ HandlerOf(s).signal = s
  BY KitchenAssumption DEF Signals, HandlerOf
<1> QED
  BY <1>1, <1>2

WellAsked(q) == q.signal \in Signal /\ q.body \in Body[q.signal]

LEMMA QuestionsAreAsks == Questions \subseteq CacheAsk
BY DEF Questions, CacheAsk

LEMMA QuestionIn ==
    ASSUME NEW s \in Signal, NEW b \in Body[s], NEW p \in Provider
    PROVE  Question(s, p, Asked(s, b)) \in Questions
<1>1. Question(s, p, Asked(s, b)) \in QuestionsOf(s)
  BY DEF QuestionsOf
<1> QED
  BY <1>1 DEF Questions

LEMMA QuestionAsked ==
    ASSUME NEW q, WellAsked(q), q.provider \in Provider
    PROVE  /\ CacheQuestion(q) \in CacheAsk /\ CacheQuestion(q) \in Questions
           /\ CacheQuestion(q) = Question(q.signal, q.provider, Asked(q.signal, q.body))
<1>1. CacheQuestion(q) = Question(q.signal, q.provider, Asked(q.signal, q.body))
  BY PayloadIsAsked DEF CacheQuestion, WellAsked
<1>2. Question(q.signal, q.provider, Asked(q.signal, q.body)) \in Questions
  BY QuestionIn DEF WellAsked
<1> QED
  BY <1>1, <1>2, QuestionsAreAsks

LEMMA AsksAreTriples == CacheAsk \subseteq CP!Triples /\ CacheAsk # {}
<1>1. ASSUME NEW a \in CacheAsk PROVE a \in CP!Triples
  <2>1. a.payload \in Payload
    BY DEF Payload
  <2>2. PICK s \in Signal : a \in KeyedOf(s) \cup QuestionsOf(s)
    BY DEF CacheAsk
  <2>4. \E p \in Provider : \E x : a = Question(s, p, x)
    BY <2>2 DEF KeyedOf, QuestionsOf
  <2> QED
    BY <2>1, <2>4 DEF Question, CP!Triples
<1>2. PICK s \in Signal : TRUE
  BY KitchenAssumption
<1>3. PICK p \in Provider : TRUE
  BY KitchenAssumption
<1>4. PICK b \in Body[s] : TRUE
  BY KitchenAssumption
<1> QED
  BY <1>1, QuestionIn, QuestionsAreAsks

LEMMA CacheAssumed == CP!CacheAssumption
<1>1. \A v \in Result : v.question \in CacheAsk
  BY QuestionsAreAsks DEF Result
<1>2. [v \in Result |-> v.question] \in [Result -> CacheAsk]
  BY <1>1
<1>3. \A p, q \in Payload : [x \in Payload |-> x][p] = [x \in Payload |-> x][q] => p = q
  OBVIOUS
<1> QED
  BY <1>2, <1>3, AsksAreTriples, EntriesAssumption
     DEF CP!CacheAssumption, CP!Ttl, CP!NoExpiry

\* What CacheProofs shows, with what it assumes discharged.
LEMMA CacheStays ==
    ASSUME CP!Typed, CP!Genuine, [CP!Next]_(CP!vars)
    PROVE  CP!Typed' /\ CP!Genuine'
BY CacheAssumed, CP!TypedStep, CP!GenuineStep DEF CP!CacheAssumption
----------------------------------------------------------------------------
(* Requests. *)

\* What a request has come to know by the time it stands at a given await.
Answered(q) ==
    q.status = 200 =>
        q.result.question = Question(q.signal, q.provider, Asked(q.signal, q.body))

FlowOf(q, c) ==
    /\ q.at = "cap" => q.status = None /\ (q.form = "valid" => WellAsked(q))
    /\ q.at \in {"cached", "lookup", "saving"} =>
          q.status = None /\ WellAsked(q) /\ q.provider \in Provider
    /\ q.at = "cached" => c.op = "get" /\ c.ask = CacheQuestion(q)
    /\ q.at = "saving" => q.result \in Result /\ q.result.question = CacheQuestion(q)
    /\ Answered(q)

\* A call stores nothing that changes daily for longer than a fact.
KindRight(c) == c.op = "set" /\ c.ask.signal \in DailySignals => c.kind = "fact"

Flow ==
    /\ req \in [Request -> Req]
    /\ \A r \in Request : FlowOf(req[r], call[r]) /\ KindRight(call[r])

IInv == CP!Typed /\ CP!Genuine /\ Flow

\* What stays of a call under the steps of other requests.
Keeps(r) ==
    call'[r].op = call[r].op /\ call'[r].ask = call[r].ask /\ call'[r].kind = call[r].kind

LEMMA FlowKept ==
    ASSUME Flow, NEW r \in Request, NEW q \in Req, Becomes(r, q), FlowOf(q, call'[r]),
           KindRight(call'[r]), \A d \in Request : d # r => Keeps(d)
    PROVE  Flow'
<1>1. req' \in [Request -> Req] /\ req'[r] = q /\ \A d \in Request : d # r => req'[d] = req[d]
  BY DEF Flow, Becomes
<1>2. ASSUME NEW d \in Request, d # r PROVE FlowOf(req'[d], call'[d]) /\ KindRight(call'[d])
  BY <1>1, <1>2 DEF Flow, FlowOf, KindRight, Keeps
<1> QED
  BY <1>1, <1>2 DEF Flow

LEMMA FlowUntouched ==
    ASSUME Flow, UNCHANGED req, \A d \in Request : Keeps(d)
    PROVE  Flow'
BY DEF Flow, FlowOf, KindRight, Keeps

LEMMA NoneIsNo200 == None # 200
BY StatusAssumption DEF Status

\* A request on its way out needs its answer and nothing else.
LEMMA FlowOut ==
    ASSUME NEW q, NEW c, q.at \notin {"cap", "cached", "lookup", "saving"}, Answered(q)
    PROVE  FlowOf(q, c)
BY DEF FlowOf

LEMMA UnbornTyped == Unborn \in Req /\ Unborn.status = None /\ Unborn.at = "new"
<1> DEFINE s == CHOOSE x \in Signal : TRUE
           b == CHOOSE x \in Body[s] : TRUE
<1>1. s \in Signal
  BY KitchenAssumption
<1>2. b \in Body[s]
  BY <1>1, KitchenAssumption
<1>3. b \in UNION {Body[x] : x \in Signal}
  BY <1>1, <1>2
<1>4. Unborn = [at |-> "new", signal |-> s, body |-> b, form |-> "valid", skill |-> NoSkill,
                provider |-> None, result |-> None, status |-> None]
  BY DEF Unborn
<1> HIDE DEF s, b
<1> QED
  BY <1>1, <1>3, <1>4 DEF Req, Stages, Forms

LEMMA RefuseTyped ==
    ASSUME NEW q \in Req, NEW s \in Status \ {200}
    PROVE  Refuse(q, s) \in Req /\ \A c : FlowOf(Refuse(q, s), c)
<1>1. Refuse(q, s) \in Req /\ Refuse(q, s).at = "answered" /\ Refuse(q, s).status = s
  BY DEF Refuse, Answer, Req, Stages
<1> QED
  BY <1>1, FlowOut DEF Answered

LEMMA CrashTyped ==
    ASSUME NEW q \in Req
    PROVE  Crash(q) \in Req /\ \A c : FlowOf(Crash(q), c)
<1>1. Unhandled \in Status /\ Unhandled # 200
  BY DEF Status, Unhandled
<1>2. Crash(q) \in Req /\ Crash(q).at = "sent" /\ Crash(q).status = Unhandled
  BY <1>1 DEF Crash, Req, Stages
<1> QED
  BY <1>1, <1>2, FlowOut DEF Answered

LEMMA AnswerIn ==
    ASSUME NEW q \in Req, NEW s \in Status, NEW v \in Result \cup {None}
    PROVE  /\ Answer(q, s, v) \in Req
           /\ Answer(q, s, v).at = "answered" /\ Answer(q, s, v).result = v
           /\ Answer(q, s, v).signal = q.signal /\ Answer(q, s, v).body = q.body
           /\ Answer(q, s, v).provider = q.provider
BY DEF Answer, Req, Stages

LEMMA AnswerTyped ==
    ASSUME NEW q \in Req, NEW v \in Result,
           v.question = Question(q.signal, q.provider, Asked(q.signal, q.body))
    PROVE  Answer(q, 200, v) \in Req /\ \A c : FlowOf(Answer(q, 200, v), c)
<1> DEFINE a == Answer(q, 200, v)
<1>0. 200 \in Status
  BY DEF Status
<1>1. /\ a \in Req /\ a.at = "answered" /\ a.result = v
      /\ a.signal = q.signal /\ a.provider = q.provider /\ a.body = q.body
  BY <1>0, AnswerIn
<1> HIDE DEF a
<1>2. Answered(a)
  BY <1>1 DEF Answered
<1>3. \A c : FlowOf(a, c)
  BY <1>1, <1>2, FlowOut
<1> QED
  BY <1>1, <1>3 DEF a

LEMMA AuthenticTyped ==
    ASSUME NEW q \in Authentic
    PROVE  q \in Req /\ q.status = None /\ q.at = "new" /\ (q.form = "valid" => WellAsked(q))
<1>1. ASSUME q \in Misshapen
      PROVE  q \in Req /\ q.status = None /\ q.at = "new" /\ q.form = "invalid"
  <2> DEFINE Of(k) == [Unborn EXCEPT !.skill = k, !.form = "invalid"]
  <2>1. PICK k \in Skill : q = Of(k)
    BY <1>1 DEF Misshapen
  <2> QED
    BY <2>1, UnbornTyped DEF Req, Forms
<1>2. ASSUME NEW s \in Signal, q \in Asking(s)
      PROVE  q \in Req /\ q.status = None /\ q.at = "new" /\ WellAsked(q)
  <2> DEFINE Of(k, b) == [Unborn EXCEPT !.skill = k, !.signal = s, !.body = b]
  <2>0. Asking(s) = {Of(k, b) : k \in Skill, b \in Body[s]}
    BY DEF Asking
  <2> HIDE DEF Of
  <2>1. PICK k \in Skill, b \in Body[s] : q = Of(k, b)
    BY <1>2, <2>0
  <2>2. b \in UNION {Body[x] : x \in Signal}
    OBVIOUS
  <2> QED
    BY <2>1, <2>2, UnbornTyped DEF Of, Req, WellAsked
<1> QED
  BY <1>1, <1>2 DEF Authentic

----------------------------------------------------------------------------
(* What the steps of Kitchen do to the cache. *)

\* A call that begins is the caller's own, and asks what it is told to.
LEMMA CallBegins ==
    ASSUME CP!TypeOK, NEW r \in Request, NEW op \in {"get", "set"}, NEW a \in CacheAsk,
           NEW v \in Result \cup {None}, NEW kind \in {"fact", "static"},
           CP!Begin(r, op, a, v, kind)
    PROVE  /\ call'[r].op = op /\ call'[r].ask = a /\ call'[r].kind = kind
           /\ \A d \in Request : d # r => Keeps(d)
<1> DEFINE rec == [at |-> "idle", op |-> op, ask |-> a, text |-> v, kind |-> kind, got |-> None]
<1>2. CP!GetClient(r, rec)
  BY DEF CP!Begin
<1>3. ASSUME NEW s, call' = [call EXCEPT ![r] = s], s.op = op, s.ask = a, s.kind = kind
      PROVE  /\ call'[r].op = op /\ call'[r].ask = a /\ call'[r].kind = kind
             /\ \A d \in Request : d # r => Keeps(d)
  BY <1>3 DEF CP!TypeOK, Keeps
<1>4. \/ call' = [call EXCEPT ![r] = CP!Ready(rec)]
      \/ call' = [call EXCEPT ![r] = CP!Finish(rec, None)]
      \/ call' = [call EXCEPT ![r] = CP!Opening(rec)]
  BY <1>2 DEF CP!GetClient
<1>5. CP!Ready(rec).op = op /\ CP!Ready(rec).ask = a /\ CP!Ready(rec).kind = kind
  BY DEF CP!Ready
<1>6. /\ CP!Finish(rec, None).op = op /\ CP!Finish(rec, None).ask = a
      /\ CP!Finish(rec, None).kind = kind
  BY DEF CP!Finish
<1>7. CP!Opening(rec).op = op /\ CP!Opening(rec).ask = a /\ CP!Opening(rec).kind = kind
  BY <1>6 DEF CP!Opening
<1> HIDE DEF rec
<1> QED
  BY <1>3, <1>4, <1>5, <1>6, <1>7

\* A call goes on with the question it began with.
LEMMA CallGoesOn ==
    ASSUME CP!TypeOK, NEW c \in Request, CP!CallerStep(c)
    PROVE  \A d \in Request : Keeps(d)
<1>1. ASSUME NEW s, call' = [call EXCEPT ![c] = s], s.op = call[c].op, s.ask = call[c].ask,
             s.kind = call[c].kind
      PROVE  \A d \in Request : Keeps(d)
  BY <1>1 DEF CP!TypeOK, Keeps
<1>2. call[c] \in CP!Call
  BY DEF CP!TypeOK
<1>3. LET s == CP!Ready(call[c])
      IN  s.op = call[c].op /\ s.ask = call[c].ask /\ s.kind = call[c].kind
  BY <1>2 DEF CP!Ready, CP!Call
<1>4. \A v : LET s == CP!Finish(call[c], v)
      IN  s.op = call[c].op /\ s.ask = call[c].ask /\ s.kind = call[c].kind
  BY <1>2 DEF CP!Finish, CP!Call
<1>5. LET s == [call[c] EXCEPT !.at = "drop"]
      IN  s.op = call[c].op /\ s.ask = call[c].ask /\ s.kind = call[c].kind
  BY <1>2 DEF CP!Call
<1>6. CASE CP!PingAnswered(c)
  BY <1>1, <1>3, <1>6 DEF CP!PingAnswered
<1>7. CASE CP!PingFails(c) \/ CP!WriteAnswered(c) \/ CP!CommandFails(c)
  BY <1>1, <1>4, <1>7 DEF CP!PingFails, CP!WriteAnswered, CP!CommandFails
<1>8. CASE CP!GetAnswered(c)
  <2>1. \/ call' = [call EXCEPT ![c] = [call[c] EXCEPT !.at = "drop"]]
        \/ \E v : call' = [call EXCEPT ![c] = CP!Finish(call[c], v)]
    BY <1>8 DEF CP!GetAnswered
  <2> QED
    BY <1>1, <1>4, <1>5, <2>1
<1> QED
  BY <1>6, <1>7, <1>8 DEF CP!CallerStep

\* The handler up to its first await.
LEMMA HandleStep ==
    ASSUME IInv, NEW r \in Request, NEW q \in Req, Handle(r, q),
           q.status = None, q.form = "valid" => WellAsked(q)
    PROVE  [CP!Next]_(CP!vars) /\ Flow'
<1>1. ASSUME NEW n \in Req, \A c : FlowOf(n, c), Becomes(r, n), UNCHANGED <<life, cacheVars>>
      PROVE  [CP!Next]_(CP!vars) /\ Flow'
  <2>1. UNCHANGED CP!vars /\ \A d \in Request : Keeps(d)
    BY <1>1 DEF CP!vars, cacheVars, Keeps
  <2>2. KindRight(call'[r])
    BY <1>1 DEF cacheVars, IInv, Flow
  <2> QED
    BY <1>1, <2>1, <2>2, FlowKept DEF IInv
<1>2. {422, 500, 503} \subseteq Status \ {200}
  BY DEF Status
<1>3. CASE q.form = "invalid"
  <2>1. Becomes(r, Refuse(q, 422)) /\ UNCHANGED <<life, cacheVars>>
    BY <1>3 DEF Handle
  <2> QED
    BY <1>1, <1>2, <2>1, RefuseTyped
<1> DEFINE p == Active(Registered, Equipped, q.signal, config[q.signal])
           n == [q EXCEPT !.at = "cached", !.provider = p]
<1>4. CASE Becomes(r, Crash(q)) /\ UNCHANGED <<life, cacheVars>>
  BY <1>1, <1>4, CrashTyped
<1>5. ASSUME NEW s \in {500, 503}, Becomes(r, Refuse(q, s)), UNCHANGED <<life, cacheVars>>
      PROVE  [CP!Next]_(CP!vars) /\ Flow'
  BY <1>1, <1>2, <1>5, RefuseTyped
<1>6. CASE /\ q.form = "valid" /\ p \in Provider
           /\ Becomes(r, n)
           /\ Cache!BeginGet(r, CacheQuestion(n))
  <2>1. /\ n \in Req /\ n.at = "cached" /\ n.status = None /\ n.provider = p
        /\ WellAsked(n)
    BY <1>6 DEF Req, Stages, WellAsked
  <2> HIDE DEF n, p
  <2>2. CacheQuestion(n) \in CacheAsk
    BY <1>6, <2>1, QuestionAsked
  <2>3. CP!Begin(r, "get", CacheQuestion(n), None, "fact")
    BY <1>6, SameBegin DEF Cache!BeginGet
  <2>4. CP!Calls(r)
    BY <2>2, <2>3 DEF CP!Calls, CP!BeginGet
  <2>5. /\ call'[r].op = "get" /\ call'[r].ask = CacheQuestion(n)
        /\ \A d \in Request : d # r => Keeps(d)
    BY <2>2, <2>3, CallBegins DEF IInv, CP!Typed
  <2>6. FlowOf(n, call'[r])
    <3>1. Answered(n)
      BY <2>1, NoneIsNo200 DEF Answered
    <3> QED
      BY <1>6, <2>1, <2>5, <3>1 DEF FlowOf
  <2>7. KindRight(call'[r])
    BY <2>5 DEF KindRight
  <2> QED
    BY <1>6, <2>1, <2>4, <2>5, <2>6, <2>7, FlowKept DEF IInv, CP!Next
<1> QED
  BY <1>3, <1>4, <1>5, <1>6 DEF Handle

\* A step of a request that leaves the cache alone.
LEMMA StepsAside ==
    ASSUME IInv, NEW r \in Request, NEW q \in Req, Becomes(r, q),
           FlowOf(q, call[r]), UNCHANGED <<life, cacheVars>>
    PROVE  [CP!Next]_(CP!vars) /\ Flow'
<1>1. UNCHANGED CP!vars /\ call' = call /\ \A d \in Request : Keeps(d)
  BY DEF CP!vars, cacheVars, Keeps
<1>2. KindRight(call'[r])
  BY <1>1 DEF IInv, Flow
<1> QED
  BY <1>1, <1>2, FlowKept DEF IInv

\* The ways a request comes in.
AsksTotal(r, q) ==
    /\ Cap > 0
    /\ Becomes(r, [q EXCEPT !.at = "cap"])
    /\ Cost!BeginTotal(r, q.skill)
    /\ UNCHANGED cacheVars

LEMMA ArriveCases ==
    ASSUME NEW r \in Request, Arrive(r)
    PROVE  \/ Becomes(r, Refuse(Unborn, 422)) /\ UNCHANGED <<life, cacheVars, costVars>>
           \/ Becomes(r, Refuse(Unborn, 401)) /\ UNCHANGED <<life, cacheVars, costVars>>
           \/ \E q \in Authentic : AsksTotal(r, q) \/ (Handle(r, q) /\ UNCHANGED costVars)
<1>1. ASSUME NEW q \in Authentic, Cap > 0, Becomes(r, [q EXCEPT !.at = "cap"]),
             Cost!BeginTotal(r, q.skill), UNCHANGED cacheVars
      PROVE  AsksTotal(r, q)
  BY <1>1 DEF AsksTotal
<1> QED
  BY <1>1 DEF Arrive

\* The ways a lookup ends.
Delivers(r, e) ==
    LET v == Provided(req[r], e)
    IN  /\ Becomes(r, [req[r] EXCEPT !.at = "saving", !.result = v])
        /\ Cache!BeginSet(r, CacheQuestion(req[r]), v, HandlerOf(req[r].signal).ttl)

Fails(r) == \E s \in {422, 502} : Becomes(r, Refuse(req[r], s))

LEMMA LookupCases ==
    ASSUME NEW r \in Request, LookupEnds(r)
    PROVE  \/ \E e \in Edition : Delivers(r, e)
           \/ Fails(r) /\ UNCHANGED <<life, cacheVars>>
<1>1. ASSUME NEW e \in Edition,
             LET v == Provided(req[r], e)
             IN  /\ Becomes(r, [req[r] EXCEPT !.at = "saving", !.result = v])
                 /\ Cache!BeginSet(r, CacheQuestion(req[r]), v, HandlerOf(req[r].signal).ttl)
      PROVE  Delivers(r, e)
  BY <1>1 DEF Delivers
<1> QED
  BY <1>1 DEF LookupEnds, Fails

\* What either of them makes of the request.
Holds(r) == \E v : Becomes(r, [req[r] EXCEPT !.at = "saving", !.result = v])

LEMMA LookupMoves ==
    ASSUME NEW r \in Request, LookupEnds(r)
    PROVE  Holds(r) \/ Fails(r)
<1>1. ASSUME NEW e \in Edition, Delivers(r, e) PROVE Holds(r)
  BY <1>1, Zenon DEF Delivers, Holds
<1> QED
  BY <1>1, LookupCases

LEMMA ArriveStep ==
    ASSUME IInv, NEW r \in Request, Arrive(r)
    PROVE  [CP!Next]_(CP!vars) /\ Flow'
<1>0. {401, 422} \subseteq Status \ {200}
  BY DEF Status
<1>1. ASSUME NEW s \in {401, 422}, Becomes(r, Refuse(Unborn, s)), UNCHANGED <<life, cacheVars>>
      PROVE  [CP!Next]_(CP!vars) /\ Flow'
  BY <1>0, <1>1, UnbornTyped, RefuseTyped, StepsAside
<1>2. ASSUME NEW q \in Authentic, Becomes(r, [q EXCEPT !.at = "cap"]),
             Cost!BeginTotal(r, q.skill), UNCHANGED cacheVars
      PROVE  [CP!Next]_(CP!vars) /\ Flow'
  <2> DEFINE n == [q EXCEPT !.at = "cap"]
  <2>1. /\ n \in Req /\ n.at = "cap" /\ n.status = None /\ n.form = q.form
        /\ q.form = "valid" => WellAsked(n)
    BY AuthenticTyped DEF Req, Stages, WellAsked
  <2>2. UNCHANGED life
    BY <1>2 DEF Cost!BeginTotal, Cost!Begin
  <2> HIDE DEF n
  <2>3. FlowOf(n, call[r])
    BY <2>1, NoneIsNo200 DEF FlowOf, Answered
  <2> QED
    BY <1>2, <2>1, <2>2, <2>3, StepsAside DEF n
<1>3. ASSUME NEW q \in Authentic, Handle(r, q) PROVE [CP!Next]_(CP!vars) /\ Flow'
  BY <1>3, AuthenticTyped, HandleStep
<1>4. ASSUME NEW q \in Authentic, AsksTotal(r, q) PROVE [CP!Next]_(CP!vars) /\ Flow'
  BY <1>2, <1>4 DEF AsksTotal
<1> QED
  BY <1>1, <1>3, <1>4, ArriveCases

LEMMA CapCheckedStep ==
    ASSUME IInv, NEW r \in Request, CapChecked(r)
    PROVE  [CP!Next]_(CP!vars) /\ Flow'
<1>1. /\ req[r] \in Req /\ req[r].status = None
      /\ req[r].form = "valid" => WellAsked(req[r])
  BY DEF CapChecked, IInv, Flow, FlowOf
<1>2. 429 \in Status \ {200}
  BY DEF Status
<1>3. CASE Becomes(r, Crash(req[r])) /\ UNCHANGED <<life, cacheVars>>
  BY <1>1, <1>3, CrashTyped, StepsAside
<1>4. CASE Becomes(r, Refuse(req[r], 429)) /\ UNCHANGED <<life, cacheVars>>
  BY <1>1, <1>2, <1>4, RefuseTyped, StepsAside
<1>5. CASE Handle(r, req[r])
  BY <1>1, <1>5, HandleStep
<1> QED
  BY <1>3, <1>4, <1>5 DEF CapChecked

\* A hit that is taken for a result is one, to the question asked.
LEMMA CacheAnsweredStep ==
    ASSUME IInv, NEW r \in Request, CacheAnswered(r)
    PROVE  [CP!Next]_(CP!vars) /\ Flow'
<1>1. /\ req[r] \in Req /\ req[r].status = None /\ WellAsked(req[r])
      /\ req[r].provider \in Provider
      /\ call[r].op = "get" /\ call[r].ask = CacheQuestion(req[r])
  BY DEF CacheAnswered, IInv, Flow, FlowOf
<1>2. UNCHANGED <<life, cacheVars>>
  BY DEF CacheAnswered
<1>3. CASE Becomes(r, Crash(req[r]))
  BY <1>1, <1>2, <1>3, CrashTyped, StepsAside
<1>4. CASE /\ call[r].at = "done" /\ call[r].got \in Result
           /\ Becomes(r, Answer(req[r], 200, call[r].got))
  <2>1. [v \in Result |-> v.question][call[r].got] = call[r].ask
    BY <1>1, <1>4, EntriesAssumption DEF IInv, CP!Genuine, CP!HitsAnswerTheirAsk
  <2>2. call[r].got.question = CacheQuestion(req[r])
    BY <1>1, <1>4, <2>1
  <2> QED
    BY <1>1, <1>2, <1>4, <2>2, QuestionAsked, AnswerTyped, StepsAside
<1>5. CASE Becomes(r, [req[r] EXCEPT !.at = "lookup"])
  <2> DEFINE n == [req[r] EXCEPT !.at = "lookup"]
  <2>1. /\ n \in Req /\ n.at = "lookup" /\ n.status = None
        /\ WellAsked(n) /\ n.provider \in Provider
    BY <1>1 DEF Req, Stages, WellAsked
  <2> HIDE DEF n
  <2>2. FlowOf(n, call[r])
    BY <2>1, NoneIsNo200 DEF FlowOf, Answered
  <2> QED
    BY <1>2, <1>5, <2>1, <2>2, StepsAside DEF n
<1> QED
  BY <1>3, <1>4, <1>5 DEF CacheAnswered

\* The provider's answer is stored under the question it answers.
LEMMA LookupStep ==
    ASSUME IInv, NEW r \in Request, LookupEnds(r)
    PROVE  [CP!Next]_(CP!vars) /\ Flow'
<1> DEFINE q == req[r]
           Delivered(v) ==
              /\ Becomes(r, [q EXCEPT !.at = "saving", !.result = v])
              /\ Cache!BeginSet(r, CacheQuestion(q), v, HandlerOf(q.signal).ttl)
<1>1. q \in Req /\ q.status = None /\ WellAsked(q) /\ q.provider \in Provider
  <2>1. q.at = "lookup"
    BY DEF LookupEnds
  <2>2. q \in Req /\ FlowOf(q, call[r])
    BY DEF IInv, Flow
  <2> HIDE DEF q
  <2> QED
    BY <2>1, <2>2 DEF FlowOf
<1>2. ASSUME NEW s \in {422, 502}, Becomes(r, Refuse(q, s)), UNCHANGED <<life, cacheVars>>
      PROVE  [CP!Next]_(CP!vars) /\ Flow'
  <2>1. {422, 502} \subseteq Status \ {200}
    BY DEF Status
  <2> QED
    BY <1>1, <1>2, <2>1, RefuseTyped, StepsAside
<1>3. ASSUME NEW e \in Edition, NEW v, v = Provided(q, e), Delivered(v)
      PROVE  [CP!Next]_(CP!vars) /\ Flow'
  <2> DEFINE a == CacheQuestion(q)
             n == [q EXCEPT !.at = "saving", !.result = v]
             kind == HandlerOf(q.signal).ttl
  <2>1. a \in CacheAsk /\ v \in Result /\ v.question = a
    BY <1>1, <1>3, QuestionAsked DEF Provided, Result
  <2>2. kind \in {"fact", "static"}
    BY <1>1, TtlsAreKinds DEF WellAsked
  <2>3. /\ n \in Req /\ n.at = "saving" /\ n.status = None /\ n.result = v
        /\ WellAsked(n) /\ n.provider \in Provider /\ CacheQuestion(n) = a
    BY <1>1, <2>1 DEF Req, Stages, WellAsked, CacheQuestion
  <2>4. Becomes(r, n) /\ CP!Begin(r, "set", a, v, kind)
    BY <1>3, SameBegin DEF Cache!BeginSet
  <2>5. [w \in Result |-> w.question][v] = a
    BY <2>1
  <2> HIDE DEF a, n, kind
  <2>6. CP!Calls(r)
    BY <2>1, <2>2, <2>4, <2>5 DEF CP!Calls, CP!BeginSet, CP!TtlKind
  <2>7. /\ call'[r].ask = a /\ call'[r].kind = kind
        /\ \A d \in Request : d # r => Keeps(d)
    BY <2>1, <2>2, <2>4, CallBegins DEF IInv, CP!Typed
  <2>8. FlowOf(n, call'[r])
    BY <2>1, <2>3, NoneIsNo200 DEF FlowOf, Answered
  <2>9. KindRight(call'[r])
    BY <1>1, <2>7, DailyIsFact DEF KindRight, WellAsked, CacheQuestion, Question, a, kind
  <2> QED
    BY <2>3, <2>4, <2>6, <2>7, <2>8, <2>9, FlowKept DEF IInv, CP!Next
<1>4. ASSUME NEW e \in Edition, Delivers(r, e) PROVE [CP!Next]_(CP!vars) /\ Flow'
  <2>1. Delivered(Provided(q, e))
    BY <1>4 DEF Delivers
  <2> HIDE DEF Delivered
  <2> QED
    BY <1>3, <2>1
<1>5. ASSUME Fails(r), UNCHANGED <<life, cacheVars>> PROVE [CP!Next]_(CP!vars) /\ Flow'
  <2>1. PICK s \in {422, 502} : Becomes(r, Refuse(q, s))
    BY <1>5 DEF Fails
  <2> QED
    BY <1>2, <1>5, <2>1
<1> QED
  BY <1>4, <1>5, LookupCases

LEMMA WayOutStep ==
    ASSUME IInv, NEW r \in Request, Saved(r) \/ Telemetry(r) \/ Recorded(r)
    PROVE  [CP!Next]_(CP!vars) /\ Flow'
<1>1. CASE Saved(r)
  <2>1. /\ req[r] \in Req /\ WellAsked(req[r]) /\ req[r].provider \in Provider
        /\ req[r].result \in Result /\ req[r].result.question = CacheQuestion(req[r])
    BY <1>1 DEF Saved, IInv, Flow, FlowOf
  <2>2. UNCHANGED <<life, cacheVars>>
    BY <1>1 DEF Saved
  <2>3. CASE Becomes(r, Crash(req[r]))
    BY <2>1, <2>2, <2>3, CrashTyped, StepsAside
  <2>4. CASE Becomes(r, Answer(req[r], 200, req[r].result))
    BY <2>1, <2>2, <2>4, QuestionAsked, AnswerTyped, StepsAside
  <2> QED
    BY <1>1, <2>3, <2>4 DEF Saved
<1>2. CASE Telemetry(r) \/ Recorded(r)
  <2>1. req[r] \in Req /\ Answered(req[r])
    BY DEF IInv, Flow, FlowOf
  <2>2. PICK s \in {"recording", "sent"} : Becomes(r, [req[r] EXCEPT !.at = s])
    BY <1>2 DEF Telemetry, Recorded
  <2>3. UNCHANGED <<life, cacheVars>>
    BY <1>2 DEF Telemetry, Recorded, Cost!BeginRecord, Cost!Begin
  <2> DEFINE n == [req[r] EXCEPT !.at = s]
  <2>4. n \in Req /\ n.at = s /\ Answered(n)
    BY <2>1 DEF Req, Stages, Answered
  <2> HIDE DEF n
  <2>5. FlowOf(n, call[r])
    BY <2>4, FlowOut
  <2> QED
    BY <2>2, <2>3, <2>4, <2>5, StepsAside DEF n
<1> QED
  BY <1>1, <1>2

LEMMA FlowStep == IInv /\ [Next]_vars => [CP!Next]_(CP!vars) /\ Flow'
<1> SUFFICES ASSUME IInv, [Next]_vars PROVE [CP!Next]_(CP!vars) /\ Flow'
  OBVIOUS
<1>1. ASSUME NEW r \in Request, Proceed(r) PROVE [CP!Next]_(CP!vars) /\ Flow'
  BY <1>1, ArriveStep, CapCheckedStep, CacheAnsweredStep, LookupStep, WayOutStep DEF Proceed
<1>2. ASSUME NEW r \in Request, CacheStep(r) PROVE [CP!Next]_(CP!vars) /\ Flow'
  <2>1. CP!CallerStep(r) /\ UNCHANGED req
    BY <1>2, SameCaller DEF CacheStep
  <2> QED
    BY <2>1, CallGoesOn, FlowUntouched DEF IInv, CP!Typed, CP!Next
<1>3. ASSUME UNCHANGED <<req, life, cacheVars>> PROVE [CP!Next]_(CP!vars) /\ Flow'
  BY <1>3, FlowUntouched DEF IInv, CP!vars, cacheVars, Keeps
<1>4. ASSUME NEW r \in Request, CostStep(r) PROVE UNCHANGED <<req, life, cacheVars>>
  BY <1>4 DEF CostStep, Cost!CallerStep, Cost!PoolCreated, Cost!Migrated, Cost!OpeningFails,
     Cost!Acquired, Cost!AcquireFails, Cost!InsertAnswered, Cost!TotalAnswered,
     Cost!StatementFails, Cost!Released
<1>5. ASSUME CP!Environment, UNCHANGED <<req, call>> PROVE [CP!Next]_(CP!vars) /\ Flow'
  BY <1>5, FlowUntouched DEF IInv, Keeps, CP!Next
<1>6. CASE RedisMoves
  <2>1. CASE Cache!LateApplied
    BY <1>5, <1>6, <2>1, SameEnv DEF RedisMoves, Cache!Environment, Cache!LateApplied
  <2>2. ASSUME NEW a \in Shaken, LET k == Cache!HashKey(a) IN Cache!Evict(k) \/ Cache!Damage(k)
        PROVE  CP!Environment /\ UNCHANGED call
    <3>1. Cache!HashKey(a) \in Cache!Key
      BY KitchenAssumption, QuestionsAreAsks DEF Cache!Key
    <3>2. Cache!Environment
      BY <2>2, <3>1 DEF Cache!Environment
    <3> QED
      BY <2>2, <3>2, SameEnv DEF Cache!Evict, Cache!Damage
  <2> QED
    BY <1>5, <1>6, <2>1, <2>2 DEF RedisMoves
<1>7. CASE Tick
  BY <1>5, <1>7, SameEnv DEF Tick, Cache!Environment, Cache!Tick
<1>8. CASE Restart
  <2>1. CP!Environment
    BY <1>8, SameEnv DEF Restart, Cache!Environment
  <2>2. \A r \in Request : req'[r] = IF req[r].at \in {"new", "sent", "lost"} THEN req[r]
                                     ELSE [req[r] EXCEPT !.at = "lost"]
    BY <1>8 DEF Restart
  <2>3. ASSUME NEW r \in Request PROVE req'[r] \in Req /\ FlowOf(req'[r], call'[r])
    <3> DEFINE n == [req[r] EXCEPT !.at = "lost"]
    <3>1. req[r] \in Req /\ Answered(req[r])
      BY DEF IInv, Flow, FlowOf
    <3>2. n \in Req /\ n.at = "lost" /\ Answered(n)
      BY <3>1 DEF Req, Stages, Answered
    <3>3. req'[r] = n \/ (req'[r] = req[r] /\ req[r].at \in {"new", "sent", "lost"})
      BY <2>2
    <3> HIDE DEF n
    <3> QED
      BY <3>1, <3>2, <3>3, FlowOut
  <2>5. \A r \in Request : KindRight(call'[r])
    BY <1>8 DEF Restart, Cache!Restart, Cache!Rest, KindRight
  <2>4. req' \in [Request -> Req]
    BY <1>8, <2>3 DEF Restart
  <2> QED
    BY <2>1, <2>3, <2>4, <2>5 DEF Flow, CP!Next
<1>9. CASE UNCHANGED vars \/ \E s \in Signal : Reconfigure(s)
  BY <1>3, <1>9 DEF Reconfigure, vars, cacheVars
<1>10. CASE PostgresMoves
  BY <1>3, <1>10 DEF PostgresMoves, Cost!LateInsert
<1> QED
  BY <1>1, <1>2, <1>3, <1>4, <1>6, <1>7, <1>8, <1>9, <1>10 DEF Next

LEMMA InvInit == Init => IInv
<1> SUFFICES ASSUME Init PROVE IInv
  OBVIOUS
<1>1. CP!Init
  BY SameInit DEF Init
<1>2. CP!Typed /\ CP!Genuine
  BY <1>1, CacheAssumed, CP!TypedInit, CP!GenuineInit DEF CP!CacheAssumption
<1>3. \A r \in Request : FlowOf(Unborn, call[r])
  BY UnbornTyped, FlowOut, NoneIsNo200 DEF Answered
<1>4. \A r \in Request : KindRight(call[r])
  BY DEF Init, Cache!Init, Cache!Rest, KindRight
<1>5. Flow
  BY <1>3, <1>4, UnbornTyped DEF Init, Flow
<1> QED
  BY <1>2, <1>5 DEF IInv

LEMMA InvStep == IInv /\ [Next]_vars => IInv'
BY FlowStep, CacheStays DEF IInv

LEMMA Invariant == Spec => []IInv
BY InvInit, InvStep, PTL DEF Spec

\* The pipeline uses the cache as Cache says it is used: it stores nothing but
\* answers, each under its own question (routes/*.py).
THEOREM UsesCache == Spec => CP!Spec
<1>1. Init => CP!Init
  BY SameInit DEF Init
<1>2. IInv /\ [Next]_vars => [CP!Next]_(CP!vars)
  BY FlowStep
<1> QED
  BY <1>1, <1>2, Invariant, PTL DEF Spec, CP!Spec

\* A client is never told anything but an answer to its own question.
THEOREM AnswersAreGenuine == Spec => []AnswersGenuine
<1>1. IInv => AnswersGenuine
  BY DEF IInv, Flow, FlowOf, Answered, AnswersGenuine
<1> QED
  BY <1>1, Invariant, PTL
----------------------------------------------------------------------------
(* How long entries live. *)

EntryFresh(k, e) ==
    e # None /\ e.text \in Result /\ k[1] \in DailySignals => e.left \in 1..FactTtl

Fresh ==
    /\ \A k \in CP!Key : EntryFresh(k, store[k])
    /\ \A m \in late : EntryFresh(m.key, m.entry)

\* A command in progress would write nothing that outlives its day.
LEMMA EffectFresh ==
    ASSUME IInv, NEW c \in Request
    PROVE  /\ CP!Effect(call[c]) \in CP!Command
           /\ LET m == CP!Effect(call[c]) IN EntryFresh(m.key, m.entry)
<1>1. call[c] \in CP!Call /\ (call[c].op = "set" => call[c].text \in Result)
  BY DEF IInv, CP!Typed, CP!TypeOK, CP!SetGenuine
<1>2. CP!Effect(call[c]) \in CP!Command
  BY <1>1, CacheAssumed, CP!EffectTyped DEF CP!CacheAssumption
<1>3. KindRight(call[c])
  BY DEF IInv, Flow
<1>4. ASSUME call[c].op = "set", call[c].ask.signal \in DailySignals
      PROVE  CP!TtlOf(call[c].kind) \in 1..FactTtl
  BY <1>3, <1>4, EntriesAssumption DEF KindRight, CP!TtlOf
<1> QED
  BY <1>2, <1>4 DEF CP!Effect, CP!HashKey, EntryFresh

LEMMA FreshStep ==
    ASSUME IInv, Fresh, [CP!Next]_(CP!vars)
    PROVE  Fresh'
<1>0. store \in [CP!Key -> CP!Entry] /\ late \subseteq CP!Command
  BY DEF IInv, CP!Typed, CP!TypeOK
<1>1. ASSUME late' \subseteq late \cup {CP!Effect(call[c]) : c \in Request}
      PROVE  \A m \in late' : EntryFresh(m.key, m.entry)
  BY <1>1, EffectFresh DEF Fresh
<1>2. ASSUME NEW m \in CP!Command, EntryFresh(m.key, m.entry), CP!Apply(m)
      PROVE  \A k \in CP!Key : EntryFresh(k, store'[k])
  BY <1>0, <1>2 DEF Fresh, CP!Apply, CP!Command
<1>3. ASSUME NEW c \in Request, CP!Calls(c) \/ CP!CallerStep(c)
      PROVE  Fresh'
  <2>1. late' \subseteq late \cup {CP!Effect(call[d]) : d \in Request}
    BY <1>3 DEF CP!Calls, CP!BeginGet, CP!BeginSet, CP!BeginDelete, CP!Begin, CP!CallerStep,
       CP!PingAnswered, CP!PingFails, CP!GetAnswered, CP!WriteAnswered, CP!CommandFails
  <2>2. UNCHANGED store \/ CP!Apply(CP!Effect(call[c]))
    BY <1>3 DEF CP!Calls, CP!BeginGet, CP!BeginSet, CP!BeginDelete, CP!Begin, CP!CallerStep,
       CP!PingAnswered, CP!PingFails, CP!GetAnswered, CP!WriteAnswered, CP!CommandFails
  <2>3. \A k \in CP!Key : EntryFresh(k, store'[k])
    BY <1>2, <2>2, EffectFresh DEF Fresh
  <2> QED
    BY <1>1, <2>1, <2>3 DEF Fresh, EntryFresh
<1>4. CASE CP!LateApplied
  <2>1. PICK m \in late : CP!Apply(m) /\ late' = late \ {m}
    BY <1>4 DEF CP!LateApplied
  <2>2. \A k \in CP!Key : EntryFresh(k, store'[k])
    BY <1>0, <1>2, <2>1 DEF Fresh
  <2> QED
    BY <2>1, <2>2 DEF Fresh, EntryFresh
<1>5. CASE CP!Tick
  <2>1. ASSUME NEW k \in CP!Key PROVE EntryFresh(k, CP!Aged(store[k]))
    <3> DEFINE e == store[k]
    <3>1. CASE e = None \/ e.left = 1
      BY <3>1 DEF CP!Aged, CP!NoExpiry, EntryFresh
    <3>2. CASE e # None /\ e.left = CP!NoExpiry
      <4>1. CP!Aged(e) = e
        BY <3>2 DEF CP!Aged, CP!NoExpiry
      <4> QED
        BY <4>1 DEF Fresh
    <3>3. CASE e # None /\ e.left # 1 /\ e.left # CP!NoExpiry
      <4>1. e \in [text : CP!Text, left : CP!Ttl]
        BY <1>0, <3>3 DEF CP!Entry
      <4>2. CP!Aged(e) = [e EXCEPT !.left = e.left - 1]
        BY <3>3 DEF CP!Aged
      <4>3. CP!Aged(e).left = e.left - 1 /\ CP!Aged(e).text = e.text
        BY <4>1, <4>2
      <4>4. e.text \in Result /\ k[1] \in DailySignals => e.left \in 1..FactTtl
        BY <3>3 DEF Fresh, EntryFresh
      <4> HIDE DEF e
      <4>5. e.text \in Result /\ k[1] \in DailySignals => e.left - 1 \in 1..FactTtl
        BY <3>3, <4>4, EntriesAssumption
      <4> QED
        BY <4>3, <4>5 DEF EntryFresh, e
    <3> QED
      BY <3>1, <3>2, <3>3
  <2> QED
    BY <1>5, <2>1 DEF CP!Tick, Fresh, EntryFresh
<1>6. ASSUME NEW k \in CP!Key, CP!Evict(k) \/ CP!Damage(k) PROVE Fresh'
  <2>1. PICK e : store' = [store EXCEPT ![k] = e] /\ EntryFresh(k, e)
    BY <1>6, EntriesAssumption DEF CP!Evict, CP!Damage, EntryFresh
  <2>2. \A j \in CP!Key : EntryFresh(j, store'[j])
    BY <1>0, <2>1 DEF Fresh
  <2> QED
    BY <1>6, <2>2 DEF CP!Evict, CP!Damage, Fresh, EntryFresh
<1>7. CASE CP!Restart
  <2>1. late' \subseteq late \cup {CP!Effect(call[c]) : c \in Request} /\ UNCHANGED store
    BY <1>7 DEF CP!Restart
  <2> QED
    BY <1>1, <2>1 DEF Fresh, EntryFresh
<1>8. CASE UNCHANGED CP!vars
  BY <1>8 DEF CP!vars, Fresh, EntryFresh
<1> QED
  BY <1>3, <1>4, <1>5, <1>6, <1>7, <1>8 DEF CP!Next, CP!Environment

\* No answer to a daily signal stays in Redis past the time to live of a fact:
\* foreign text may stay for ever under its key, the service's own may not.
THEOREM FactsDoExpire == Spec => []FactsExpire
<1>1. Init => Fresh
  BY SameInit DEF Init, CP!Init, Fresh, EntryFresh
<1>2. IInv /\ Fresh /\ [Next]_vars => Fresh'
  BY FlowStep, FreshStep
<1>3. Fresh => FactsExpire
  BY SameKeys DEF Fresh, EntryFresh, FactsExpire
<1> QED
  BY <1>1, <1>2, <1>3, Invariant, PTL DEF Spec
=============================================================================
