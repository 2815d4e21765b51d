---------------------------- MODULE CacheProofs ----------------------------
(***************************************************************************)
(* Theorems of Cache, for every set of callers, triples and values, every   *)
(* time to live and every bound on late commands.                           *)
(***************************************************************************)
EXTENDS Cache, TLAPS

\* Every value the program has stored, is about to store, or has left behind
\* in a late command sits under the key of the triple it answers.
GenuineUnder(k, t) == t \in Value => HashKey(Owner[t]) = k

StoreGenuine ==
    \A k \in Key : store[k] # None => GenuineUnder(k, store[k].text)

LateGenuine ==
    \A m \in late : m.entry # None => GenuineUnder(m.key, m.entry.text)

SetGenuine ==
    \A c \in Caller :
        call[c].op = "set" => call[c].text \in Value /\ Owner[call[c].text] = call[c].ask

\* The ping belongs to one caller, which has set the flag and no client yet.
OnePing ==
    \A c \in Caller : call[c].at = "ping" =>
        /\ client = "none" /\ attempted
        /\ call[c].got = None
        /\ \A d \in Caller : call[d].at = "ping" => d = c

Genuine == StoreGenuine /\ LateGenuine /\ SetGenuine /\ HitsAnswerTheirAsk

Connected == OnePing /\ DisabledIsNoOp
----------------------------------------------------------------------------
\* Two triples in use with the same key are the same triple.
LEMMA HashKeySeparates ==
    ASSUME NEW a \in Ask, NEW b \in Ask, HashKey(a) = HashKey(b)
    PROVE  a = b
<1>1. a \in Triples /\ b \in Triples
  BY CacheAssumption
<1>2. a.signal = b.signal /\ a.provider = b.provider /\ a.payload = b.payload
  BY <1>1, CacheAssumption DEF HashKey, Triples
<1> QED
  BY <1>1, <1>2 DEF Triples

LEMMA KeyOfAsk == \A a \in Ask : HashKey(a) \in Key
BY DEF Key

LEMMA RestTyped == Rest \in Call
<1>1. (CHOOSE a \in Ask : TRUE) \in Ask
  BY CacheAssumption
<1> QED
  BY <1>1 DEF Rest, Call, Stages, TtlKind

LEMMA TtlTyped == \A k \in TtlKind : TtlOf(k) \in Ttl
BY CacheAssumption DEF TtlKind, TtlOf, Ttl

\* What a call asks Redis to do is a command.
LEMMA EffectTyped ==
    ASSUME NEW r \in Call, r.op = "set" => r.text \in Value
    PROVE  Effect(r) \in Command
<1>1. HashKey(r.ask) \in Key
  BY KeyOfAsk DEF Call
<1>2. r.op = "set" => [text |-> r.text, left |-> TtlOf(r.kind)] \in Entry
  BY TtlTyped DEF Call, Entry, Text
<1>3. None \in Entry
  BY DEF Entry
<1> QED
  BY <1>1, <1>2, <1>3 DEF Effect, Command

\* No entry is the None of Python.
LEMMA EntryShape == \A e \in Entry : e # None => e \in [text : Text, left : Ttl]
BY DEF Entry

LEMMA AgedTyped ==
    \A e \in Entry :
        Aged(e) \in Entry /\ (Aged(e) # None => e # None /\ Aged(e).text = e.text)
<1> SUFFICES ASSUME NEW e \in Entry
             PROVE  Aged(e) \in Entry /\ (Aged(e) # None => e # None /\ Aged(e).text = e.text)
  OBVIOUS
<1>1. CASE e = None \/ e.left = 1
  <2>1. Aged(e) = None
    BY <1>1 DEF Aged, NoExpiry
  <2> QED
    BY <2>1 DEF Entry
<1>2. CASE e # None /\ e.left = NoExpiry
  <2>1. Aged(e) = e
    BY <1>2 DEF Aged, NoExpiry
  <2> QED
    BY <1>2, <2>1
<1>3. CASE e # None /\ e.left # 1 /\ e.left # NoExpiry
  <2>1. e \in [text : Text, left : Ttl] /\ e.left - 1 \in Ttl
    BY <1>3, EntryShape DEF Ttl
  <2>2. Aged(e) = [e EXCEPT !.left = e.left - 1]
    BY <1>3 DEF Aged
  <2>3. Aged(e) \in [text : Text, left : Ttl] /\ Aged(e).text = e.text
    BY <2>1, <2>2
  <2> QED
    BY <1>3, <2>3 DEF Entry
<1> QED
  BY <1>1, <1>2, <1>3
----------------------------------------------------------------------------
(* One lemma per action, for types and for who asked what; they share what  *)
(* GetClient, Ready and Finish do to the calling coroutine's record.        *)

Typed == TypeOK /\ SetGenuine

LEMMA ReadyTyped ==
    ASSUME NEW r \in Call
    PROVE  /\ Ready(r) \in Call
           /\ Ready(r).at \in {"command", "done"}
           /\ Ready(r).op = r.op /\ Ready(r).ask = r.ask
           /\ Ready(r).text = r.text /\ Ready(r).got = r.got
BY DEF Ready, Call, Stages

LEMMA FinishTyped ==
    ASSUME NEW r \in Call, NEW v \in Value \cup {Alien, None}
    PROVE  /\ Finish(r, v) \in Call
           /\ Finish(r, v).at = "done" /\ Finish(r, v).got = v
           /\ Finish(r, v).op = r.op /\ Finish(r, v).ask = r.ask
           /\ Finish(r, v).text = r.text
BY DEF Finish, Call, Stages

LEMMA OpeningTyped ==
    ASSUME NEW r \in Call
    PROVE  /\ Opening(r) \in Call
           /\ Opening(r).at \in {"done", "raised", "ping"}
           /\ Opening(r).op = r.op /\ Opening(r).ask = r.ask
           /\ Opening(r).text = r.text /\ Opening(r).got \in {None, r.got}
<1>1. CASE RedisUrl = "unset"
  BY <1>1, FinishTyped DEF Opening
<1>2. CASE RedisUrl # "unset"
  <2>1. \A s \in {"raised", "ping"} :
          LET q == [r EXCEPT !.at = s]
          IN  /\ q \in Call /\ q.at = s /\ q.op = r.op /\ q.ask = r.ask
              /\ q.text = r.text /\ q.got = r.got
    BY DEF Call, Stages
  <2> QED
    BY <1>2, <2>1 DEF Opening
<1> QED
  BY <1>1, <1>2

\* What the opening of an operation can leave behind.
LEMMA GetClientOutcome ==
    ASSUME NEW c \in Caller, NEW r \in Call, TypeOK, GetClient(c, r)
    PROVE  \E s \in Call :
              /\ call' = [call EXCEPT ![c] = s]
              /\ s.op = r.op /\ s.ask = r.ask /\ s.text = r.text
              /\ s.got \in {None, r.got}
              /\ \/ /\ s.at \in {"command", "done"}
                    /\ client = "connected" /\ attempted' = attempted
                 \/ /\ s.at = "done"
                    /\ client = "none" /\ attempted' = TRUE
                 \/ /\ s.at \in {"raised", "ping"}
                    /\ client = "none" /\ ~attempted /\ attempted' = TRUE
<1>1. CASE client = "connected"
  <2>1. call' = [call EXCEPT ![c] = Ready(r)] /\ attempted' = attempted
    BY <1>1 DEF GetClient
  <2> QED
    BY <1>1, <2>1, ReadyTyped
<1>2. CASE client = "none" /\ attempted
  <2>1. call' = [call EXCEPT ![c] = Finish(r, None)] /\ attempted' = attempted
    BY <1>2 DEF GetClient
  <2>2. attempted' = TRUE
    BY <1>2, <2>1 DEF TypeOK
  <2> QED
    BY <1>2, <2>1, <2>2, FinishTyped
<1>3. CASE client = "none" /\ ~attempted
  <2>1. attempted' = TRUE
    BY <1>3 DEF GetClient
  <2>2. call' = [call EXCEPT ![c] = Opening(r)]
    BY <1>3 DEF GetClient
  <2> QED
    BY <1>3, <2>1, <2>2, OpeningTyped
<1> QED
  BY <1>1, <1>2, <1>3 DEF TypeOK
\* The calls the routes make.
LEMMA CallsShape ==
    ASSUME NEW c \in Caller, TypeOK, Calls(c)
    PROVE  \E r \in Call :
              /\ Quiet(c) /\ GetClient(c, r)
              /\ r.at = "idle" /\ r.got = None
              /\ r.op = "set" => r.text \in Value /\ Owner[r.text] = r.ask
              /\ UNCHANGED <<life, client, store, late>>
<1>1. PICK a \in Ask :
        \/ BeginGet(c, a) \/ BeginDelete(c, a)
        \/ \E v \in Value, kind \in TtlKind : Owner[v] = a /\ BeginSet(c, a, v, kind)
  BY DEF Calls
<1>2. \E op \in {"get", "set", "delete"}, v \in Value \cup {None}, kind \in TtlKind :
        Begin(c, op, a, v, kind) /\ (op = "set" => v \in Value /\ Owner[v] = a)
  BY <1>1 DEF BeginGet, BeginDelete, BeginSet, TtlKind
<1>3. PICK op \in {"get", "set", "delete"}, v \in Value \cup {None}, kind \in TtlKind :
        Begin(c, op, a, v, kind) /\ (op = "set" => v \in Value /\ Owner[v] = a)
  BY <1>2
<1> DEFINE r == [at |-> "idle", op |-> op, ask |-> a, text |-> v,
                 kind |-> kind, got |-> None]
<1>4. r \in Call
  BY DEF Call, Stages
<1>5. Quiet(c) /\ GetClient(c, r) /\ UNCHANGED <<life, client, store, late>>
  BY <1>3 DEF Begin
<1> QED
  BY <1>3, <1>4, <1>5

LEMMA TypedInit == Init => Typed
<1> SUFFICES ASSUME Init PROVE Typed
  OBVIOUS
<1>1. TypeOK
  BY RestTyped DEF Init, TypeOK, Entry
<1>2. SetGenuine
  BY DEF Init, SetGenuine, Rest
<1> QED
  BY <1>1, <1>2 DEF Typed

LEMMA TypedStep == Typed /\ [Next]_vars => Typed'
<1> SUFFICES ASSUME Typed, [Next]_vars PROVE Typed'
  OBVIOUS
<1> USE DEF Typed
<1>1. ASSUME NEW c \in Caller, Calls(c) PROVE Typed'
  <2>1. PICK r \in Call :
          /\ GetClient(c, r)
          /\ r.op = "set" => r.text \in Value /\ Owner[r.text] = r.ask
          /\ UNCHANGED <<life, client, store, late>>
    BY <1>1, CallsShape
  <2>2. PICK s \in Call :
          /\ call' = [call EXCEPT ![c] = s]
          /\ s.op = r.op /\ s.ask = r.ask /\ s.text = r.text
          /\ s.got \in {None, r.got}
          /\ \/ /\ s.at \in {"command", "done"}
                /\ client = "connected" /\ attempted' = attempted
             \/ /\ s.at = "done"
                /\ client = "none" /\ attempted' = TRUE
             \/ /\ s.at \in {"raised", "ping"}
                /\ client = "none" /\ ~attempted /\ attempted' = TRUE
    BY <2>1, GetClientOutcome
  <2>3. TypeOK'
    BY <2>1, <2>2 DEF TypeOK
  <2>4. SetGenuine'
    BY <2>1, <2>2 DEF SetGenuine, TypeOK
  <2> QED
    BY <2>3, <2>4
<1>2. ASSUME NEW c \in Caller, CallerStep(c) PROVE Typed'
  <2>0. call[c] \in Call /\ (call[c].op = "set" => call[c].text \in Value)
    BY DEF TypeOK, SetGenuine
  <2>1. ASSUME NEW s \in Call, call' = [call EXCEPT ![c] = s],
               s.op = call[c].op, s.ask = call[c].ask, s.text = call[c].text,
               store' \in [Key -> Entry], late' \subseteq Command,
               client' \in {"none", "connected"}, UNCHANGED <<life, attempted>>
        PROVE  Typed'
    <3>1. TypeOK'
      BY <2>1 DEF TypeOK
    <3>2. SetGenuine'
      BY <2>1 DEF SetGenuine, TypeOK
    <3> QED
      BY <3>1, <3>2
  <2>2. ASSUME call' = [call EXCEPT ![c] = Finish(call[c], None)],
               store' \in [Key -> Entry], late' \subseteq Command,
               UNCHANGED <<life, client, attempted>>
        PROVE  Typed'
    <3> DEFINE s == Finish(call[c], None)
    <3>1. /\ s \in Call /\ s.op = call[c].op /\ s.ask = call[c].ask
          /\ s.text = call[c].text
      BY <2>0, FinishTyped
    <3> HIDE DEF s
    <3>2. call' = [call EXCEPT ![c] = s]
      BY <2>2 DEF s
    <3> QED
      BY <2>1, <2>2, <3>1, <3>2 DEF TypeOK
  <2>3. CASE PingAnswered(c)
    BY <2>0, <2>1, <2>3, ReadyTyped DEF PingAnswered, TypeOK
  <2>4. CASE PingFails(c)
    BY <2>2, <2>4 DEF PingFails, TypeOK
  <2>5. CASE GetAnswered(c)
    <3> DEFINE e == store[HashKey(call[c].ask)]
    <3>1. e \in Entry
      BY <2>0, KeyOfAsk DEF TypeOK, Call
    <3>2. CASE e = None
      <4>1. /\ call' = [call EXCEPT ![c] = Finish(call[c], None)]
            /\ UNCHANGED <<life, client, attempted, store, late>>
        BY <2>5, <3>2 DEF GetAnswered
      <4>2. /\ Finish(call[c], None) \in Call
            /\ Finish(call[c], None).op = call[c].op
            /\ Finish(call[c], None).ask = call[c].ask
            /\ Finish(call[c], None).text = call[c].text
        BY <2>0, FinishTyped
      <4> HIDE DEF e
      <4> QED
        BY <2>1, <4>1, <4>2 DEF TypeOK
    <3>3. CASE e # None /\ e.text = Garbage
      <4>1. [call[c] EXCEPT !.at = "drop"] \in Call
        BY <2>0 DEF Call, Stages
      <4> QED
        BY <2>0, <2>1, <2>5, <3>3, <4>1 DEF GetAnswered, TypeOK, Call
    <3>4. CASE e # None /\ e.text # Garbage
      <4>1. e.text \in Value \cup {Alien, None}
        BY <3>1, <3>4, EntryShape DEF Text
      <4>2. /\ call' = [call EXCEPT ![c] = Finish(call[c], e.text)]
            /\ UNCHANGED <<life, client, attempted, store, late>>
        BY <2>5, <3>4 DEF GetAnswered
      <4>3. /\ Finish(call[c], e.text) \in Call
            /\ Finish(call[c], e.text).op = call[c].op
            /\ Finish(call[c], e.text).ask = call[c].ask
            /\ Finish(call[c], e.text).text = call[c].text
        BY <2>0, <4>1, FinishTyped
      <4> HIDE DEF e
      <4> QED
        BY <2>1, <4>2, <4>3 DEF TypeOK
    <3> QED
      BY <3>2, <3>3, <3>4
  <2>6. CASE WriteAnswered(c)
    <3>1. Effect(call[c]) \in Command
      BY <2>0, EffectTyped
    <3>2. store' \in [Key -> Entry]
      BY <2>6, <3>1 DEF WriteAnswered, Apply, TypeOK, Command
    <3> QED
      BY <2>2, <2>6, <3>2 DEF WriteAnswered, TypeOK
  <2>7. CASE CommandFails(c)
    <3>1. late' \subseteq Command
      BY <2>0, <2>7, EffectTyped DEF CommandFails, TypeOK
    <3> QED
      BY <2>2, <2>7, <3>1 DEF CommandFails, TypeOK
  <2> QED
    BY <1>2, <2>3, <2>4, <2>5, <2>6, <2>7 DEF CallerStep
<1>3. CASE LateApplied
  BY <1>3 DEF LateApplied, Apply, TypeOK, SetGenuine, Command
<1>4. CASE Tick
  <2>1. \A k \in Key : Aged(store[k]) \in Entry
    BY AgedTyped DEF TypeOK
  <2>2. store' \in [Key -> Entry]
    BY <1>4, <2>1 DEF Tick
  <2> QED
    BY <1>4, <2>2 DEF Tick, TypeOK, SetGenuine
<1>5. ASSUME NEW k \in Key, Evict(k) PROVE Typed'
  BY <1>5 DEF Evict, TypeOK, SetGenuine, Entry
<1>6. ASSUME NEW k \in Key, Damage(k) PROVE Typed'
  <2>1. \A t \in {Garbage, Alien}, n \in ForeignTtl :
          [text |-> t, left |-> n] \in Entry
    BY CacheAssumption DEF Entry, Text
  <2> QED
    BY <1>6, <2>1 DEF Damage, TypeOK, SetGenuine
<1>7. CASE Restart
  <2>1. \A c \in Caller : Effect(call[c]) \in Command
    BY EffectTyped DEF TypeOK, SetGenuine
  <2>2. late' \subseteq Command
    BY <1>7, <2>1 DEF Restart, TypeOK
  <2>3. TypeOK'
    <3>1. life' \in {0, 1} /\ client' \in {"none", "connected"}
      BY <1>7 DEF Restart, TypeOK
    <3>3. attempted' \in BOOLEAN
      BY <1>7, Zenon DEF Restart
    <3>2. store' \in [Key -> Entry] /\ call' \in [Caller -> Call]
      BY <1>7, RestTyped DEF Restart, TypeOK
    <3> QED
      BY <2>2, <3>1, <3>2, <3>3 DEF TypeOK
  <2>4. SetGenuine'
    BY <1>7 DEF Restart, SetGenuine, Rest
  <2> QED
    BY <2>3, <2>4
<1>8. CASE UNCHANGED vars
  BY <1>8 DEF vars, TypeOK, SetGenuine
<1> QED
  BY <1>1, <1>2, <1>3, <1>4, <1>5, <1>6, <1>7, <1>8 DEF Next, Environment

\* Every reachable state is well typed, and a set always carries a value that
\* answers the triple it is stored under (cache.py:117-139).
THEOREM TypeCorrect == Spec => []TypeOK
<1>1. Spec => []Typed
  BY TypedInit, TypedStep, PTL DEF Spec
<1> QED
  BY <1>1, PTL DEF Typed
----------------------------------------------------------------------------
(* No cross-talk. *)

LEMMA GenuineInit == Init => Genuine
BY DEF Init, Genuine, StoreGenuine, LateGenuine, SetGenuine, HitsAnswerTheirAsk, Rest

\* A write puts a genuine entry under its key.
LEMMA EffectGenuine ==
    ASSUME NEW c \in Caller, Typed
    PROVE  LET m == Effect(call[c])
           IN  m.entry # None => GenuineUnder(m.key, m.entry.text)
BY DEF Typed, Effect, GenuineUnder, SetGenuine

\* Carrying out a genuine command keeps the store genuine.
LEMMA ApplyGenuine ==
    ASSUME NEW m \in Command, Typed, StoreGenuine, Apply(m),
           m.entry # None => GenuineUnder(m.key, m.entry.text)
    PROVE  StoreGenuine'
BY DEF Typed, TypeOK, StoreGenuine, Apply, GenuineUnder, Command

LEMMA GenuineStep == Typed /\ Genuine /\ [Next]_vars => Genuine'
<1> SUFFICES ASSUME Typed, Genuine, [Next]_vars PROVE Genuine'
  OBVIOUS
<1>0. SetGenuine'
  BY TypedStep DEF Typed
<1>1. StoreGenuine'
  <2>1. ASSUME NEW c \in Caller, WriteAnswered(c) PROVE StoreGenuine'
    <3>1. Effect(call[c]) \in Command
      BY EffectTyped DEF Typed, TypeOK, SetGenuine
    <3> QED
      BY <2>1, <3>1, EffectGenuine, ApplyGenuine DEF WriteAnswered, Genuine
  <2>2. CASE LateApplied
    <3>1. PICK m \in late : Apply(m)
      BY <2>2 DEF LateApplied
    <3>2. m \in Command /\ (m.entry # None => GenuineUnder(m.key, m.entry.text))
      BY DEF Typed, TypeOK, Genuine, LateGenuine
    <3> QED
      BY <3>1, <3>2, ApplyGenuine DEF Genuine
  <2>3. CASE Tick
    <3>1. \A k \in Key : Aged(store[k]) # None
             => store[k] # None /\ Aged(store[k]).text = store[k].text
      BY AgedTyped DEF Typed, TypeOK
    <3> QED
      BY <2>3, <3>1 DEF Tick, Genuine, StoreGenuine, GenuineUnder
  <2>4. ASSUME NEW k \in Key, Evict(k) PROVE StoreGenuine'
    BY <2>4 DEF Evict, Genuine, StoreGenuine, GenuineUnder, Typed, TypeOK
  <2>5. ASSUME NEW k \in Key, Damage(k) PROVE StoreGenuine'
    BY <2>5, CacheAssumption DEF Damage, Genuine, StoreGenuine, GenuineUnder, Typed, TypeOK
  <2>6. ASSUME UNCHANGED store PROVE StoreGenuine'
    BY <2>6 DEF Genuine, StoreGenuine, GenuineUnder
  <2>7. ASSUME NEW c \in Caller, Calls(c) PROVE UNCHANGED store
    BY <2>7 DEF Calls, BeginGet, BeginSet, BeginDelete, Begin
  <2> QED
    BY <2>1, <2>2, <2>3, <2>4, <2>5, <2>6, <2>7
       DEF Next, Environment, CallerStep, PingAnswered, PingFails, GetAnswered,
           CommandFails, Restart, vars
<1>2. LateGenuine'
  <2>1. \A c \in Caller : LET m == Effect(call[c])
           IN  m.entry # None => GenuineUnder(m.key, m.entry.text)
    BY EffectGenuine
  <2>2. ASSUME late' \subseteq late \cup {Effect(call[c]) : c \in Caller}
        PROVE  LateGenuine'
    BY <2>1, <2>2 DEF Genuine, LateGenuine, GenuineUnder
  <2>3. ASSUME NEW c \in Caller, Calls(c) \/ CallerStep(c)
        PROVE  late' \subseteq late \cup {Effect(call[d]) : d \in Caller}
    BY <2>3 DEF Calls, BeginGet, BeginSet, BeginDelete, Begin, CallerStep,
                PingAnswered, PingFails, GetAnswered, WriteAnswered, CommandFails
  <2>4. ASSUME Environment \/ UNCHANGED vars
        PROVE  late' \subseteq late \cup {Effect(call[d]) : d \in Caller}
    BY <2>4 DEF Environment, LateApplied, Tick, Restart, Evict, Damage, vars
  <2> QED
    BY <2>2, <2>3, <2>4 DEF Next
<1>3. HitsAnswerTheirAsk'
  <2>1. ASSUME NEW c \in Caller, NEW s \in Call, call' = [call EXCEPT ![c] = s],
               (s.at = "done" /\ s.op = "get")
                  => s.got \in {None, Alien} \/ Owner[s.got] = s.ask
        PROVE  HitsAnswerTheirAsk'
    BY <2>1 DEF Genuine, HitsAnswerTheirAsk, Typed, TypeOK
  <2>2. ASSUME NEW c \in Caller, Calls(c) PROVE HitsAnswerTheirAsk'
    <3>1. PICK r \in Call : GetClient(c, r) /\ r.got = None
      BY <2>2, CallsShape DEF Typed
    <3>2. PICK s \in Call : call' = [call EXCEPT ![c] = s] /\ s.got \in {None, r.got}
      BY <3>1, GetClientOutcome DEF Typed
    <3> QED
      BY <2>1, <3>1, <3>2
  <2>3. ASSUME NEW c \in Caller, PingAnswered(c) PROVE HitsAnswerTheirAsk'
    <3>1. Ready(call[c]) \in Call /\ (Ready(call[c]).at = "done" => Ready(call[c]).op # "get")
      BY ReadyTyped DEF Typed, TypeOK, Ready, Call, Stages
    <3> QED
      BY <2>1, <2>3, <3>1 DEF PingAnswered
  <2>4. ASSUME NEW c \in Caller, PingFails(c) \/ WriteAnswered(c) \/ CommandFails(c)
        PROVE  HitsAnswerTheirAsk'
    BY <2>1, <2>4, FinishTyped
       DEF PingFails, WriteAnswered, CommandFails, Typed, TypeOK
  <2>5. ASSUME NEW c \in Caller, GetAnswered(c) PROVE HitsAnswerTheirAsk'
    <3> DEFINE k == HashKey(call[c].ask)
               e == store[k]
    <3>0. call[c] \in Call /\ call[c].ask \in Ask /\ k \in Key
      BY KeyOfAsk DEF Typed, TypeOK, Call
    <3>1. CASE e = None
      <4>1. call' = [call EXCEPT ![c] = Finish(call[c], None)]
        BY <2>5, <3>1 DEF GetAnswered
      <4>2. Finish(call[c], None) \in Call /\ Finish(call[c], None).got = None
        BY <3>0, FinishTyped
      <4> QED
        BY <2>1, <4>1, <4>2
    <3>2. CASE e # None /\ e.text = Garbage
      <4>1. [call[c] EXCEPT !.at = "drop"] \in Call
        BY <3>0 DEF Call, Stages
      <4> QED
        BY <2>1, <2>5, <3>0, <3>2, <4>1 DEF GetAnswered, Call
    <3>3. CASE e # None /\ e.text # Garbage
      <4>1. e.text \in Value \cup {Alien}
        BY <3>0, <3>3, EntryShape DEF Typed, TypeOK, Text
      <4>2. e.text \in Value => Owner[e.text] = call[c].ask
        <5>1. e.text \in Value => HashKey(Owner[e.text]) = k /\ Owner[e.text] \in Ask
          BY <3>0, <3>3, CacheAssumption DEF Genuine, StoreGenuine, GenuineUnder
        <5> QED
          BY <3>0, <5>1, HashKeySeparates
      <4>3. call' = [call EXCEPT ![c] = Finish(call[c], e.text)]
        BY <2>5, <3>3 DEF GetAnswered
      <4>4. LET s == Finish(call[c], e.text)
            IN  s \in Call /\ s.got = e.text /\ s.ask = call[c].ask
        BY <3>0, <4>1, FinishTyped
      <4> HIDE DEF e, k
      <4> QED
        BY <2>1, <4>1, <4>2, <4>3, <4>4
    <3> QED
      BY <3>1, <3>2, <3>3
  <2>6. CASE Restart
    BY <2>6 DEF Restart, HitsAnswerTheirAsk, Rest
  <2>7. ASSUME UNCHANGED call PROVE HitsAnswerTheirAsk'
    BY <2>7 DEF Genuine, HitsAnswerTheirAsk
  <2> QED
    BY <2>2, <2>3, <2>4, <2>5, <2>6, <2>7
       DEF Next, Environment, CallerStep, LateApplied, Tick, Evict, Damage, vars
<1> QED
  BY <1>0, <1>1, <1>2, <1>3 DEF Genuine

\* A get never returns a result that answers another question
\* (cache.py:93-114).
THEOREM NoCrossTalk == Spec => []HitsAnswerTheirAsk
<1>1. Spec => [](Typed /\ Genuine)
  BY TypedInit, TypedStep, GenuineInit, GenuineStep, PTL DEF Spec
<1> QED
  BY <1>1, PTL DEF Genuine
----------------------------------------------------------------------------
(* The connection. *)

LEMMA ConnectedInit == Init => Connected
BY DEF Init, Connected, OnePing, DisabledIsNoOp, Rest

\* What a coroutine's step may do to a connection that is not yet there, to
\* keep Connected: either it touches neither the client nor a ping, or it is
\* the step that starts or ends the one ping.
LEMMA ConnectedKept ==
    ASSUME Typed, Connected, NEW c \in Caller, NEW s \in Call,
           call' = [call EXCEPT ![c] = s], client' = client,
           attempted' \in {attempted, TRUE},
           \/ s.at # "ping"
           \/ client = "none" /\ ~attempted /\ attempted' = TRUE /\ s.got = None,
           client = "none" => s.at \notin {"command", "drop"} /\ s.got = None
    PROVE  Connected'
<1>1. OnePing'
  BY DEF Connected, OnePing, Typed, TypeOK
<1>2. DisabledIsNoOp'
  BY DEF Connected, DisabledIsNoOp, Typed, TypeOK
<1> QED
  BY <1>1, <1>2 DEF Connected

LEMMA FinishKeepsConnected ==
    ASSUME Typed, Connected, NEW c \in Caller, NEW v \in Value \cup {Alien, None},
           call' = [call EXCEPT ![c] = Finish(call[c], v)],
           UNCHANGED <<client, attempted>>, client = "connected" \/ v = None
    PROVE  Connected'
<1> DEFINE s == Finish(call[c], v)
<1>1. s \in Call /\ s.at = "done" /\ s.got = v
  BY FinishTyped DEF Typed, TypeOK
<1>2. client = "none" => s.at \notin {"command", "drop"} /\ s.got = None
  BY <1>1
<1> HIDE DEF s
<1>3. call' = [call EXCEPT ![c] = s]
  BY DEF s
<1> QED
  BY <1>1, <1>2, <1>3, ConnectedKept

LEMMA ConnectedStep == Typed /\ Connected /\ [Next]_vars => Connected'
<1> SUFFICES ASSUME Typed, Connected, [Next]_vars PROVE Connected'
  OBVIOUS
<1>0. \A c \in Caller : call[c] \in Call
  BY DEF Typed, TypeOK
<1>1. ASSUME NEW c \in Caller, Calls(c) PROVE Connected'
  <2>1. PICK r \in Call : /\ GetClient(c, r) /\ r.got = None
                          /\ UNCHANGED <<life, client, store, late>>
    BY <1>1, CallsShape DEF Typed
  <2>2. PICK s \in Call :
          /\ call' = [call EXCEPT ![c] = s]
          /\ s.op = r.op /\ s.ask = r.ask /\ s.text = r.text
          /\ s.got \in {None, r.got}
          /\ \/ /\ s.at \in {"command", "done"}
                /\ client = "connected" /\ attempted' = attempted
             \/ /\ s.at = "done"
                /\ client = "none" /\ attempted' = TRUE
             \/ /\ s.at \in {"raised", "ping"}
                /\ client = "none" /\ ~attempted /\ attempted' = TRUE
    BY <2>1, GetClientOutcome DEF Typed
  <2>3. attempted' \in {attempted, TRUE} /\ client' = client
    BY <2>1, <2>2
  <2>4. /\ s.at # "ping" \/ (client = "none" /\ ~attempted /\ attempted' = TRUE /\ s.got = None)
        /\ client = "none" => s.at \notin {"command", "drop"} /\ s.got = None
    BY <2>1, <2>2
  <2>5. call' = [call EXCEPT ![c] = s]
    BY <2>2
  <2> QED
    BY <2>3, <2>4, <2>5, ConnectedKept
<1>2. ASSUME NEW c \in Caller, PingAnswered(c) PROVE Connected'
  <2>1. client' = "connected" /\ call' = [call EXCEPT ![c] = Ready(call[c])]
    BY <1>2 DEF PingAnswered
  <2>2. Ready(call[c]).at # "ping"
    BY <1>0, ReadyTyped
  <2>3. \A d \in Caller : call'[d].at # "ping"
    BY <1>2, <2>1, <2>2 DEF PingAnswered, Connected, OnePing, Typed, TypeOK
  <2> QED
    BY <2>1, <2>3 DEF Connected, OnePing, DisabledIsNoOp
<1>3. ASSUME NEW c \in Caller, PingFails(c) PROVE Connected'
  BY <1>3, FinishKeepsConnected DEF PingFails
<1>4. ASSUME NEW c \in Caller, GetAnswered(c) PROVE Connected'
  <2>1. client = "connected"
    BY <1>4 DEF GetAnswered, Connected, DisabledIsNoOp, Typed, TypeOK
  <2> DEFINE e == store[HashKey(call[c].ask)]
  <2>2. CASE e = None
    <3>1. call' = [call EXCEPT ![c] = Finish(call[c], None)]
      BY <1>4, <2>2 DEF GetAnswered
    <3>2. UNCHANGED <<client, attempted>>
      BY <1>4 DEF GetAnswered
    <3> QED
      BY <3>1, <3>2, FinishKeepsConnected
  <2>3. CASE e # None /\ e.text = Garbage
    <3>1. call' = [call EXCEPT ![c] = [call[c] EXCEPT !.at = "drop"]]
      BY <1>4, <2>3 DEF GetAnswered
    <3>2. [call[c] EXCEPT !.at = "drop"] \in Call
          /\ [call[c] EXCEPT !.at = "drop"].at # "ping"
      BY <1>0 DEF Call, Stages
    <3> QED
      BY <1>4, <2>1, <3>1, <3>2, ConnectedKept DEF GetAnswered
  <2>4. CASE e # None /\ e.text # Garbage
    <3>1. call' = [call EXCEPT ![c] = Finish(call[c], e.text)]
      BY <1>4, <2>4 DEF GetAnswered
    <3>2. e.text \in Value \cup {Alien, None}
      BY <1>0, <2>4, EntryShape, KeyOfAsk DEF Typed, TypeOK, Call, Text
    <3> HIDE DEF e
    <3> QED
      BY <1>4, <2>1, <3>1, <3>2, FinishKeepsConnected DEF GetAnswered
  <2> QED
    BY <2>2, <2>3, <2>4
<1>5. ASSUME NEW c \in Caller, WriteAnswered(c) PROVE Connected'
  BY <1>5, FinishKeepsConnected DEF WriteAnswered
<1>6. ASSUME NEW c \in Caller, CommandFails(c) PROVE Connected'
  BY <1>6, FinishKeepsConnected DEF CommandFails
<1>7. CASE Restart
  BY <1>7 DEF Restart, Connected, OnePing, DisabledIsNoOp, Rest
<1>8. ASSUME UNCHANGED <<client, attempted, call>> PROVE Connected'
  BY <1>8 DEF Connected, OnePing, DisabledIsNoOp
<1> QED
  BY <1>1, <1>2, <1>3, <1>4, <1>5, <1>6, <1>7, <1>8
     DEF Next, Environment, CallerStep, LateApplied, Tick, Evict, Damage, vars

\* With no client the cache is a no-op: nothing is sent, nothing is returned
\* (cache.py:12-15).
THEOREM DisabledMeansNoOp == Spec => []DisabledIsNoOp
<1>1. Spec => [](Typed /\ Connected)
  BY TypedInit, TypedStep, ConnectedInit, ConnectedStep, PTL DEF Spec
<1> QED
  BY <1>1, PTL DEF Connected

LEMMA ConnectionInit == Init => Connection!Init
BY DEF Init, Connection!Init, Phase

LEMMA ConnectionStep ==
    Typed /\ Connected /\ [Next]_vars => [Connection!Next]_(Connection!vars)
<1> SUFFICES ASSUME Typed, Connected, [Next]_vars
             PROVE  [Connection!Next]_(Connection!vars)
  OBVIOUS
<1> USE DEF Connection!vars
<1>0. \A c \in Caller : call[c] \in Call
  BY DEF Typed, TypeOK
\* A step of one coroutine that neither starts nor ends a ping stutters.
<1>1. ASSUME NEW c \in Caller, NEW s \in Call, call' = [call EXCEPT ![c] = s],
             s.at # "ping", call[c].at # "ping", UNCHANGED <<life, client, attempted>>
      PROVE  UNCHANGED Connection!vars
  <2>1. (\E d \in Caller : call'[d].at = "ping") <=> (\E d \in Caller : call[d].at = "ping")
    BY <1>1 DEF Typed, TypeOK
  <2> QED
    BY <1>1, <2>1 DEF Phase
<1>2. ASSUME NEW c \in Caller, Calls(c) PROVE [Connection!Next]_(Connection!vars)
  <2>1. PICK r \in Call : /\ Quiet(c) /\ GetClient(c, r)
                          /\ UNCHANGED <<life, client, store, late>>
    BY <1>2, CallsShape DEF Typed
  <2>2. PICK s \in Call :
          /\ call' = [call EXCEPT ![c] = s]
          /\ s.op = r.op /\ s.ask = r.ask /\ s.text = r.text
          /\ s.got \in {None, r.got}
          /\ \/ /\ s.at \in {"command", "done"}
                /\ client = "connected" /\ attempted' = attempted
             \/ /\ s.at = "done"
                /\ client = "none" /\ attempted' = TRUE
             \/ /\ s.at \in {"raised", "ping"}
                /\ client = "none" /\ ~attempted /\ attempted' = TRUE
    BY <2>1, GetClientOutcome DEF Typed
  <2>3. CASE client = "connected"
    BY <2>1, <2>2, <2>3 DEF Phase
  <2>4. CASE client = "none" /\ attempted
    <3>1. attempted' = attempted /\ s.at # "ping"
      BY <2>2, <2>4 DEF Typed, TypeOK
    <3> QED
      BY <1>1, <2>1, <2>2, <3>1 DEF Quiet
  <2>5. CASE client = "none" /\ ~attempted
    <3>1. Phase = "untried" /\ attempted' = TRUE
      BY <2>2, <2>5 DEF Phase
    <3>2. CASE s.at = "ping"
      <4>1. call'[c].at = "ping"
        BY <2>2, <3>2 DEF Typed, TypeOK
      <4>2. Phase' = "trying"
        BY <2>1, <2>5, <3>1, <4>1 DEF Phase
      <4> QED
        BY <2>1, <3>1, <4>2 DEF Connection!Next, Connection!Attempt
    <3>3. CASE s.at # "ping"
      <4>1. \A d \in Caller : call'[d].at # "ping"
        BY <2>2, <2>5, <3>3 DEF Typed, TypeOK, Connected, OnePing
      <4>2. Phase' = "down"
        BY <2>1, <2>5, <3>1, <4>1 DEF Phase
      <4> QED
        BY <2>1, <3>1, <4>2 DEF Connection!Next, Connection!Skip
    <3> QED
      BY <3>2, <3>3
  <2> QED
    BY <2>3, <2>4, <2>5 DEF Typed, TypeOK
<1>3. ASSUME NEW c \in Caller, call[c].at = "ping" PROVE Phase = "trying"
  BY <1>3 DEF Connected, OnePing, Phase
<1>4. ASSUME NEW c \in Caller, PingAnswered(c) PROVE [Connection!Next]_(Connection!vars)
  <2>1. Phase' = "up" /\ UNCHANGED life
    BY <1>4 DEF PingAnswered, Phase
  <2> QED
    BY <1>3, <1>4, <2>1 DEF PingAnswered, Connection!Next, Connection!Succeed
<1>5. ASSUME NEW c \in Caller, PingFails(c) PROVE [Connection!Next]_(Connection!vars)
  <2>1. client = "none" /\ attempted
    BY <1>5 DEF PingFails, Connected, OnePing
  <2>2. call' = [call EXCEPT ![c] = Finish(call[c], None)] /\ Finish(call[c], None).at = "done"
    BY <1>0, <1>5, FinishTyped DEF PingFails
  <2>3. \A d \in Caller : call'[d].at # "ping"
    BY <1>5, <2>2 DEF PingFails, Connected, OnePing, Typed, TypeOK
  <2>4. Phase' = "down" /\ UNCHANGED life
    BY <1>5, <2>1, <2>3 DEF PingFails, Phase
  <2> QED
    BY <1>3, <1>5, <2>4 DEF PingFails, Connection!Next, Connection!Fail
<1>6. ASSUME NEW c \in Caller, GetAnswered(c) \/ WriteAnswered(c) \/ CommandFails(c)
      PROVE  UNCHANGED Connection!vars
  <2>1. client = "connected" /\ UNCHANGED <<life, client>>
    BY <1>6 DEF GetAnswered, WriteAnswered, CommandFails, Connected, DisabledIsNoOp, Typed, TypeOK
  <2> QED
    BY <2>1 DEF Phase
<1>7. CASE Restart
  <2>1. Phase' = "untried"
    BY <1>7 DEF Restart, Phase
  <2> QED
    BY <1>7, <2>1 DEF Restart, Connection!Next, Connection!Restart
<1>8. ASSUME UNCHANGED <<life, client, attempted, call>> PROVE UNCHANGED Connection!vars
  BY <1>8 DEF Phase
<1> QED
  BY <1>2, <1>4, <1>5, <1>6, <1>7, <1>8
     DEF Next, Environment, CallerStep, LateApplied, Tick, Evict, Damage, vars

\* The Redis connection is attempted at most once in a process life, and its
\* outcome is final: Cache implements OneShot (cache.py:53-77).
THEOREM ImplementsOneShot == Spec => ConnectsOnce
<1>1. Spec => [](Typed /\ Connected)
  BY TypedInit, TypedStep, ConnectedInit, ConnectedStep, PTL DEF Spec
<1> QED
  BY <1>1, ConnectionInit, ConnectionStep, PTL DEF Spec, ConnectsOnce, Connection!Spec
----------------------------------------------------------------------------
\* A URL that redis-py refuses is met by one call of a process life, and by no
\* later one.
RaisesOnce ==
    \A c \in Caller : call[c].at = "raised" =>
        attempted /\ \A d \in Caller : call[d].at = "raised" => d = c

LEMMA RaisesInit == Init => RaisesOnce
BY DEF Init, RaisesOnce, Rest

LEMMA RaisesStep == Typed /\ RaisesOnce /\ [Next]_vars => RaisesOnce'
<1> SUFFICES ASSUME Typed, RaisesOnce, [Next]_vars PROVE RaisesOnce'
  OBVIOUS
<1>0. \A c \in Caller : call[c] \in Call
  BY DEF Typed, TypeOK
<1>1. ASSUME NEW c \in Caller, Calls(c) PROVE RaisesOnce'
  <2>1. PICK r \in Call : GetClient(c, r)
    BY <1>1, CallsShape DEF Typed
  <2>2. PICK s \in Call :
          /\ call' = [call EXCEPT ![c] = s]
          /\ attempted => attempted'
          /\ s.at = "raised" => ~attempted /\ attempted'
    BY <2>1, GetClientOutcome DEF Typed, TypeOK
  <2> QED
    BY <2>2 DEF RaisesOnce, Typed, TypeOK
<1>2. ASSUME NEW c \in Caller, CallerStep(c) PROVE RaisesOnce'
  <2>1. \E s : call' = [call EXCEPT ![c] = s] /\ s.at # "raised"
    <3>1. CASE PingAnswered(c)
      BY <1>0, <3>1, ReadyTyped DEF PingAnswered
    <3>2. CASE PingFails(c) \/ WriteAnswered(c) \/ CommandFails(c)
      <4>1. Finish(call[c], None).at = "done"
        BY <1>0, FinishTyped
      <4> QED
        BY <3>2, <4>1 DEF PingFails, WriteAnswered, CommandFails
    <3>3. CASE GetAnswered(c)
      <4>1. \A v : Finish(call[c], v).at = "done"
        BY <1>0 DEF Finish, Call
      <4>2. [call[c] EXCEPT !.at = "drop"].at = "drop"
        BY <1>0 DEF Call
      <4>3. \E s : /\ call' = [call EXCEPT ![c] = s]
                   /\ (\E v : s = Finish(call[c], v)) \/ s = [call[c] EXCEPT !.at = "drop"]
        BY <3>3 DEF GetAnswered
      <4> QED
        BY <4>1, <4>2, <4>3
    <3> QED
      BY <1>2, <3>1, <3>2, <3>3 DEF CallerStep
  <2>2. PICK s : call' = [call EXCEPT ![c] = s] /\ s.at # "raised"
    BY <2>1
  <2>3. UNCHANGED attempted
    BY <1>2 DEF CallerStep, PingAnswered, PingFails, GetAnswered, WriteAnswered, CommandFails
  <2> QED
    BY <2>2, <2>3 DEF RaisesOnce, Typed, TypeOK
<1>3. CASE Restart
  BY <1>3 DEF Restart, RaisesOnce, Rest
<1>4. ASSUME UNCHANGED <<attempted, call>> PROVE RaisesOnce'
  BY <1>4 DEF RaisesOnce
<1> QED
  BY <1>1, <1>2, <1>3, <1>4 DEF Next, Environment, LateApplied, Tick, Evict, Damage, vars
=============================================================================
