# A TLA+ model of ai-native-kitchen

ai-native-kitchen is a FastAPI service that puts six company-research signals
(funding, people, scraping, search, tech, traffic) and a verification endpoint
behind bearer tokens, a Redis cache and a Postgres cost log. This directory
holds TLA+ modules translated from `src/src/`, TLC configurations that check
them on small instances, and proofs that TLAPS checks for every instance.

Paths such as `cache.py:60` are relative to `src/src/`.

## The system

One process runs one asyncio event loop. A request is a task; tasks interleave
only where they await. Redis and Postgres are shared, outlive the process and
may fail or fall silent at any moment.

| part | state | operations | hard behaviour |
|---|---|---|---|
| cache (`cache.py`) | `_client`, `_client_attempted`; the entries in Redis | `get`, `set`, `delete`, lazy connect | first requests racing in the lazy connect; commands that time out and are carried out later; corrupt or foreign entries; expiry and eviction |
| cost log (`cost.py`) | `_pool`, `_pool_attempted`; table `cost_log` | `record`, `daily_total`, lazy connect with migrations | the same race; a bounded pool in which neither `acquire` nor giving back has a timeout; inserts that Postgres carries out after their caller gave up; a cutoff fixed before a wait |
| auth (`auth.py`) | none (environment) | `require_skill` | the cap is checked before the work and charged after it |
| telemetry (`middleware/cost_telemetry.py`) | none | wraps every request | what it records depends on how far the request got |
| assembly (`main.py`) | none | middleware order, routers, `/health` | which layer sees which failure |
| routes (`routes/*.py`) | none | six handlers with one pipeline, `/verify`, `/providers` | the provider is chosen, then used after two awaits |
| registry (`upstreams/__init__.py`) | `_REGISTRY`; `providers.yaml` read per request | `register`, `get_active_provider`, `list_registered` | the file may change or break between requests; providers that nothing imports |
| providers (`upstreams/*/`) | none; two of them use worker threads of the loop's default executor, all share them for host names | `lookup`, `search`, `scrape` | timeouts racing late answers; threads nobody waits for; upstream garbage turned into exceptions or results |
| verification (`verification/`) | none | five checks over insights | parsing and counting at boundaries; many concurrent URL checks |

They interact by plain calls along a request: telemetry calls the request-id
layer, that calls `require_skill` (which calls `daily_total`), then the handler
(which calls the registry, `cache.get`, the provider, `cache.set`), and on the
way out telemetry calls `record`.

What makes each part correct: the cache never answers one question with
another's result and never fails a request; the log says of a request at most
one thing and says it truthfully, and a total charges a skill for its own rows
since its cutoff only; a lazy connection is attempted once per life; a response carries the
chosen provider's answer to that request's body; a provider's refusal or failure
never becomes a result; every lookup ends; every request is answered, once, and
the log says no more and nothing else of it.

## Modules

| module | what it is |
|---|---|
| `OneShot` | what a lazily opened connection promises: untried, trying, then up or down for the rest of the process life. An abstract specification |
| `Sums` | the sum of a sequence, as `cost.py`'s `SUM` and `google_trends.py`'s `sum` compute it |
| `Cache` | `cache.py` and Redis: one action per stretch of a coroutine between two awaits |
| `Cost` | `cost.py` and Postgres, in the same way |
| `Routes` | the six handlers' differences: body fields, what the provider is asked, what keys the cache, which time to live |
| `Registry` | which provider `get_active_provider` comes to, given what was registered and what `providers.yaml` says |
| `Kitchen` | requests from the middleware to the answer, over instances of `Cache` and `Cost` |
| `Service` | what the service promises of each request: decided once, sent as decided, its entry handed over once and written at most once, sooner or later. An abstract specification |
| `Replies` | what each of the six providers makes of a reply: operators from a reply to a result or an exception |
| `Providers` | lookups at the providers as tasks, over HTTP and over the worker threads of the default executor |
| `Upstream` | what the routes are promised of a lookup: a blank argument is refused, any other has one answer at most. An abstract specification |
| `UrlCheck` | `head_check_many`: tasks, semaphore, fallback, `gather` and the tasks that outlive it |
| `Verification` | `/verify`: the checks over insights as operators, the handler around them |
| `Verify` | `/verify` as a whole: the handler over the tasks that check its URLs |
| `SumsProofs` | induction over the natural numbers, and facts about `Sum` |
| `CacheProofs`, `CostProofs`, `ProvidersProofs`, `UrlCheckProofs`, `VerificationProofs` | theorems about one component each; `UrlCheckProofs` also about `Verify` |
| `KitchenProofs`, `LedgerProofs` | theorems about the composition, the second module on top of the first: the cache's part; the log's part, that `Kitchen` implements `Service`, and the cap |
| `MCCache`, `MCCost`, `MCKitchen`, `MCProviders`, `MCUrlCheck`, `MCVerification`, `MCVerify` | constants for TLC |

### Cache

`client` and `attempted` are the two globals; `store` is what Redis holds, an
entry being its text and the ticks it has left; `call[c]` is the local state of
the coroutine `c` in its present or last call; `late` holds the writes Redis
received from callers that gave up on them. `Begin...` runs `_get_client` up to
the ping, or past it when there is nothing to await; `PingAnswered`,
`PingFails`, `GetAnswered`, `WriteAnswered` and `CommandFails` are what follows
each await. The key is `<<signal, provider, digest>>`; that SHA-256 cut to 128
bits separates the payloads in use is the assumption `CacheAssumption`, on
which the no-cross-talk theorem rests. `LateApplied`, `Tick`, `Evict`, `Damage`
and `Restart` are Redis and the container. Foreign text comes with any time to
live of `ForeignTtl`, or none (`NoExpiry`, the -1 of Redis's `TTL`). What `delete` returns and what is
logged are left out.

### Cost

`pool`, `attempted`, the table `costLog` in id order, and `query[c]`, the local
state of a coroutine. The pool becomes visible only after the migrations
(`Migrated`). `Acquired` has no timeout, as `pool.acquire` has none. Neither has
`Released`, the await at the end of `async with pool.acquire()`: before asyncpg
takes a connection back whose statement it gave up on, it waits for Postgres to
confirm the cancellation. An insert that fails, whether by its second, an error
or a lost connection, leaves its row in `lateRows`; so does each insert under way
when the process dies, one for each connection. `LateInsert` is Postgres carrying
one of them out, at any later time or never, with a time stamp from then on.
`daily_total` fixes its cutoff in `Ready`, before it waits.
A row's fields other than skill, cost and time are one opaque `note`.

### Routes, Registry and Kitchen

`Routes` has one record per handler. `Kitchen` composes: `Arrive` is everything
up to the first await of a request (JSON, token, then the cap's query or the
handler's `cache.get`), `CapChecked`, `CacheAnswered`, `LookupEnds` and `Saved`
are the handler's stretches, `Telemetry` and `Recorded` the way out. The
response leaves only after `record` has returned, as it does under
`BaseHTTPMiddleware`. `config[s]` is what `providers.yaml` holds for a signal: a
name, "absent" or "unreadable"; `Reconfigure` changes it between any two steps
because the file is read anew for each request. `Registry!Active` makes of it a
provider, "unconfigured" (503: no entry, no such class, or a class without its
key or library), or "broken" (an exception no handler catches); a class of the
wrong type (`Mistyped`) is answered 500. What is registered is the constant
`Registered`. In the shipped program that is one class, `funding/sec_edgar`
(`Imported`); the other runs register one or two classes for a signal by hand,
because what the pipeline does with a provider does not depend on how
it came to be registered. The middleware records a cost
of 0.0 (`cost_telemetry.py:53`), so `RecordedUsd = 0`; rows with a cost are
there only if another writer left them (`OldUsd`), and the cap can refuse only
through those.

`DailySignals`, the signals `FactsExpire` is about, are scraping, search and
traffic, whose routes say so. people is not one of them: its route stores
headcount for seven days on purpose (`people.py:69-70`). Foreign text under a key
may have any time to live; the property is about answers the service stored.

### Service

`Kitchen` implements `Service` under a refinement mapping: `StageOf` folds the
stages of the handler into "open" and those of the telemetry layer into
"decided"; `AnswerOf` is the skill, status and result of a request that has a
status; `Posted` are the requests whose insert has been sent and is not yet
carried out; `LedgerOf` picks the rows about a request out of `cost_log`, each at
its place there. All the steps of the cache, of the pool, of Redis and of the
configuration are stutters. `Service` says what is left: an answer changes no
more once it is decided; its entry is handed over (`Post`) once, while it is
decided and not yet sent, and never for a stranger; the entry is written (`Log`)
at most once, with the skill and status decided, but possibly long after the
answer went out or was lost, or never. An exception no layer catches is answered
outside the telemetry layer, so it is decided and sent in one step and has no row
(`Bare`). A row that is missing does not break the promise.

### Replies and Providers

`Replies` has no state. A text (a company's name, a needle) is the set of its
words: enough for blank, equal, part of and shorter, which is all the matching
of `sec_edgar` asks. A body of JSON is a record of what the code reads of it, or
`NotJson`, or `NotObject` where the type is wrong; `Absent` stands for keys that
are missing or falsy. Where a provider does not catch an exception its class
decides the status (`RouteStatus`): `ValueError` comes first in every handler,
and `JSONDecodeError` and pydantic's `ValidationError` are `ValueError`s.
`ClassifyTrend` compares sums in integers where the code divides means; the two
agree on the values in use.

In `Providers` a lookup is `look[l]`: the provider and argument, what it has
`heard` so far, and where it stands: "waiting" for a thread or for what runs in
one, "asking" over HTTP, in an "endless" body, or "ended" with an `outcome`. The
default executor is `queue`, `running` and `cancelled`, with `Workers` threads
(the code sets none: `min(32, cpus + 4)`). `google_trends` and `wappalyzer_oss` put
their library call there and wait under `wait_for`; httpx puts the look-up of a
host name there, before each connection, under its connect timeout. `TimesOut`
cancels a job that no thread has taken; one that runs keeps its thread, and
nothing makes it end. `Replied` hears one of the `World`'s replies, or none
(`Lost`, `Odd`), and for `sec_edgar` goes on from the dump of tickers to the
company's submissions.

### Upstream

`Upstream` is what the routes see of all that, and what `Kitchen`'s `LookupEnds`
takes for granted. `Providers` implements it under the mapping at its end:
`StageOf` folds waiting, asking and the endless body into "asked", `AskedBy` is the
provider and the argument, `ToldTo` turns the outcome into what the route goes on
with: status 200 and a result, or the status `RouteStatus` gives the exception, and
no result. The results a provider can come to for an argument are those some whole
conversation with its services leads to (`Conversations`); so a result is of the
argument of its own lookup and out of replies that belong together, although
lookups share threads and end in any order, and nobody is told twice, not even
by a thread that answers late. What httpx, pytrends and Wappalyzer do is a stutter.

### UrlCheck

`check[u]` is where the task of a URL stands; `site[u]`, chosen once, is how its
server takes a HEAD and a GET. A request ends in a good status ("fine"), another
one ("refused"), or an `httpx.HTTPError` or `OSError`, timeouts included
("lost"). A URL httpx cannot use raises something else. A GET may also be
"endless": the timeout of 5 s is one for each read, so a body that keeps coming
runs into none. `GatherRaises` closes the client under the tasks that are left
(`Closed`): what is under way fails, and what starts afterwards raises.

### Verification

What the regular expressions find in an insight's texts is given as facts (a
metric and a number). A netloc is a record of the name that logs in, with or
without a password, the host as a sequence of labels (the last one empty behind a
trailing dot) and the port; a name with a dot in it and addresses in brackets are
left out. `Registrable` makes of it what the code's cuts leave: everything from
the first colon goes, so of `user:secret@stripe.com` only `user` is left; of
`a@stripe.com` the name stays, of `stripe.com.` the labels `com` and "", of
`www.com` only `com`. Each check is an operator
with the name of its subject; `Start`, `UrlsChecked` and `UrlsRaise` are the
handler, which awaits once. `file` distinguishes the ways `sanity-bounds.yaml`
can be wrong: a missing one turns the sanity check off; one that holds no
mapping ends the first check that finds a number; and of a mapping `file.faulty`
are the entries that are wrong, a metric whose `min` is no number or a threshold
that is none, which end the first check that compares with one (`Derailed`; a
wrong `max` does the same only to numbers above the floor, and is left out). Ratios and
percentages are compared by cross-multiplication, as integers; the code's
floating-point quotients agree with that at the thresholds used. That a request
to `/verify` passes authentication and telemetry like any other is `Kitchen`'s
subject and not repeated. `PublicSuffix` serves only `HighIsEarned`, which
compares the code's two-label domains with really registered ones. It says that
"high" is suggested only with sources under two really registered domains, or
with a source that is not `Plain`, `Plain` being a netloc of which the cut leaves
labels of the host and nothing else, and loses none of the last two. The other
netlocs are in the run too, and for them the code breaks its own rule 1
(`_diversity.py:4-5`): `https://a@stripe.com` beside `https://stripe.com` counts
as two domains and earns "high". `HostsAssumption` only types the netlocs.
`OrderIrrelevant` says that shuffling the insights changes nothing.

Here the verdicts on the URLs are any. In `Verify` they are those of `UrlCheck`:
`Received` is `Start`, `Gathered` and `GatherFailed` are the handler resumed by a
`gather` that returned or raised, in one step with it, and `Works` is a step of a
task, which needs a handler that has called `head_check_many` (`Called`) but none
that still waits: a task may outlive its answer. `Verify` has one request, because
requests to `/verify` share nothing; the semaphore and the client are made for each
call.

## Runs

| run | checks | bounds |
|---|---|---|
| `cache` | no cross-talk, no Redis without a client, one connection attempt | 2 coroutines, 2 questions that differ in the provider, one unencodable value, 1 late command, times to live of 1 and 2 ticks, foreign text with 1 tick or no end |
| `cost` | a total charges own rows of its window, no-op without a pool, one attempt | 2 coroutines, 2 skills, pool of 1, window of 1 tick, 2 ticks, 2 rows, late ones included, beside an older one |
| `kitchen_cache` | answers are genuine, daily answers live a day, a refused address costs one request per life, the promise of `Service` but for its ledger | 2 requests, 1 query with 2 limits, 2 providers, Redis disturbs 1 key and holds foreign text there without end, a DSN asyncpg refuses, so no row is written |
| `kitchen_ledger` | the log is truthful, a 429 is justified, a refused address costs one request per life, the promise of `Service`, its ledger included | 2 requests, 2 skills, cap of 1, an older row of cost 1, 1 tick, pool of 1, a Redis URL redis-py refuses, a file that may break; inserts carried out late or never |
| `kitchen_live` | every request is answered, unless a connection to Postgres is withheld | 2 requests, pool of 1, both back ends, which may never answer |
| `cost_startup` | violated: rows are dropped only when Postgres is down | as `cost` |
| `kitchen_shipped` | violated: a provider that is there and named in the file serves | 1 request, 2 signals, the shipped import list, any shipped name in the file |
| `providers` | refusals never answer, matches, filings and trends are right, gaps are noted, an abandoned lookup is over, every lookup ends, the promise of `Upstream` | 3 lookups (one of four HTTP providers, both libraries), 1 thread, dumps of 2 of 6 kinds of entry, filings cut at 2 instead of 20, series of 7 and of 8 values |
| `providers_input` | violated: a 422 means the input was at fault | as `providers` |
| `url_head` | violated: a rejected HEAD is retried as GET | the 3 URLs and 2 permits of `verify`, without the handler |
| `verification` | high is earned, downgrades are measured, order is irrelevant | one insight with up to 2 sources over 13 netlocs (names, passwords, a trailing dot, `www.` and one label among them), any confidence, 3 targets; two insights with up to 1 and 2 numbers at the thresholds; every kind of bounds file |
| `verify` | verdicts right and at each citation, the network never fatal and a 500 explained, permits, silence after the end and for a client that is gone or asked for no check, every request is answered | 3 URLs with any servers, 2 permits, 2 insights that share one URL, which the first cites twice, any bounds file |

Two actors are enough for every race between requests: each hazard is one
coroutine acting between two steps of another, over one client, one pool, one
entry or one row. A pool of one makes the limit bite with two requests; its size
appears nowhere but in one comparison. For `Providers` three lookups over one
thread are the least with a job that runs, one that waits behind it and one that
is cancelled in between. The kinds of reply cover each branch of each parser; a
dump of two entries has every pair of an exact, a partial, a shorter partial, a
useless and no match in both orders. Restarts are unbounded; a request that was
under way is lost. Clock and times to live are in ticks, only their order
matters. Symmetry over coroutines (or requests) is used in the safety runs only;
nothing distinguishes them. For `UrlCheck` and `Verify` three URLs and two
permits are the least with a task that waits while others hold permits, fail and
finish. For `Verification` each rule looks at the set of an insight's domains
(sizes zero, one, two) or at a pair of numbers, so two sources and two insights
exhaust the cases.

**Fairness** (`Kitchen!FairSpec`). Nothing guarantees that Redis, Postgres or a
client acts. Guaranteed are the timeouts: `socket_connect_timeout` and
`socket_timeout` end a ping or command, `timeout` the connect and `command_timeout`
a statement (`Cost!TimesOut`); a lookup ends (see below for the one that need not);
the event loop resumes a task whose wait is over; and a free connection goes to a
waiting task. Weak fairness suffices for the last one because a request waits for
a connection at most twice. Nothing is assumed of giving a connection back, at the
end of a call or of a migration, which asyncpg does without a timeout.
`EveryRequestAnswered` therefore excepts requests that are `Held` for ever: by
their own connection, by those of all the others, or by the migrations'. That is a
limit of the code and not of the model: `cost.py:17-19` will not have an outage of
Postgres take the service down, but a Postgres that accepts and never answers can
keep requests. `Verify!FairVerifySpec`: the loop starts the handler
and resumes it after `gather`, every request but an endless GET is answered or
times out, and `asyncio.Semaphore` serves its waiters in turn; `VerifyAnswered`
therefore excludes endless GETs, which the code has no defence against.
`Providers!FairSpec`: the loop runs its timers (`TimesOut`) and httpx ends a read
that stalls (`Replied`); no thread is fair, so `EveryLookupEnds` holds with every
thread stuck for ever. The timeouts of httpx are one for each read, so there too
a body that keeps coming keeps its lookup; `EveryLookupEnds` names that stage
instead of assuming it away.

### What the violated runs show

* `cost_startup`: `_pool_attempted` is set before the attempt is made, so while
  the first request opens the pool, which takes as long as connecting and the
  migrations take, all others behave as if Postgres were down: their rows are
  dropped. `cost.py:12-14` promises that only for an unset or unreachable
  database.
* `providers_input`: `routes/funding.py:59` and its like say of `except
  ValueError` "Provider rejected the input". An upstream that answers 200 with
  something that is no JSON raises `JSONDecodeError`, a `ValueError`, so a client
  whose input was fine is told 422 instead of 502.
* `kitchen_shipped`: `_import_all_providers` imports `funding/sec_edgar` only
  (`upstreams/__init__.py:104`), though its docstring says every provider and
  five more exist. Nothing else in the service imports them, so `/search`,
  `/scrape`, `/traffic`, `/people` and `/tech` answer 503 whatever
  `providers.yaml` says and whichever keys are set.
* `url_head`: `_url.py:29` says servers that reject HEAD get a GET. They reject
  it with a status, which is no exception, so the fallback does not run and a
  live page is reported dead.

## Proofs

`CacheProofs` proves, for any set of coroutines, questions and values and any
times to live:

* `TypeCorrect`. `TypeOK` is inductive only together with `SetGenuine`: a set
  carries a value that answers its own question.
* `NoCrossTalk` (`HitsAnswerTheirAsk`). Inductive with `StoreGenuine` and
  `LateGenuine`: whatever lies in Redis, or is still on its way there from a
  caller that left, sits under the key of the question it answers; injectivity
  of the key (`HashKeySeparates`) turns that into the property of a hit.
* `DisabledMeansNoOp` and `ImplementsOneShot`, from `OnePing`: the ping in
  progress belongs to one coroutine, which has set the flag. Every step of
  `Cache` then is a step of `OneShot` or a stutter.

`SumsProofs` makes totals something to reason about. The library's induction
theorems take a predicate, which the provers cannot instantiate; `Induct` says
the same of a *set* of numbers, and follows from `Least` (a set of naturals has a
least element), which the well-foundedness of finite sets under inclusion
gives. With it `Sum`, a recursive function, is shown to have the value its equation
says (`TotalsExist`, `TotalsAgree`, `SumIs`); `SumAppend` and `SumBackwards` are
what the other modules use.

`CostProofs` proves, for any coroutines, costs, size of the pool and window:

* `TypeCorrect` and `TotalsCharge` (`ChargesOwnRows`). The invariant `IInv` is
  `TypeOK`, `ChargesOwnRows`, `AllNoted` (what a `record` is to write is there
  from its start) and `Connected` (`OneOpener`: an opening belongs to one caller,
  which has set the flag and no pool yet; and `DisabledIsNoOp`). A total is the sum
  at the moment it is answered; what makes it stay below is that rows are only
  appended and that an appended row adds what is not negative (`SumAppend`). No step
  needs the bound `MaxRows`: the lemmas are about `AnyStep`, which is `Next` without
  it, so an instance may leave it out.
* `DisabledMeansNoOp` and `ImplementsOneShot`, along the lines of the cache's.

`ProvidersProofs` proves, for any lookups, any number of threads and whatever
the upstreams reply, all eight safety properties of the run `providers`:

* `ExecutorSound`. `ExecInv` says that a lookup has one job at a time, in the
  queue once or in a thread, and that whoever is queued is waiting or cancelled.
  The lemmas `Joins`, `MovesOn`, `Frees`, `Abandons` and `Takes` are the five
  things an action can do to the executor; each action is shown to be one.
* `AbandonedForGood` (`AbandonedIsOver`), from `ExecInv`: only because an ended
  lookup that is still queued is cancelled does no thread begin its job.
* `AnswersAreHeard`. `LookupInv` adds to `ExecInv` what each lookup has heard
  (`HeardOK`): nothing until it ends, except that one which went on to a company's
  submissions has heard a dump of tickers that names the company; and that an
  answer is `Outcome` of that and of the last reply. Without the first half an
  answer could mix one company with another's filings. It also says that what was
  asked is one of the questions there are and that what a lookup ended in is one of
  the ways to end (`Ends`), which the refinement needs. `QueuedInv` is the converse
  of `ExecInv`: whoever waits does have a job.
* `RefusedNeverAnswers`, `BestMatch`, `FailuresAreNoted`, `FilingsAreRows`,
  `Directed` and `TypeCorrect` follow from that invariant with facts about
  `Replies`, for dumps, arrays and series of any length. `KeepsInOrder` is the
  induction over the loop of `_fetch_filings`: `Places` names, for what was kept so
  far, the rows it came from. `Matches` rests on finite sets of places having a least one,
  `Directions` on `SumBackwards`: read backwards, the quarters swap their sums.
* `ImplementsUpstream` (`AnswersAsPromised`): every step of `Providers` is one of
  `Upstream` or a stutter. `ResultIsTellable` is the heart of it: by `HeardOK` the
  replies a result was made of form a conversation, so the result is one
  `Upstream` allows for the argument; a failure is told as 422 or 502, whatever its
  class (`StatusIs`).

`UrlCheckProofs` proves, for any finite set of URLs and any number of permits,
the properties of `UrlCheck` that the run `verify` checks. The inductive
invariant is `ReportInv`: `TypeOK`; what each stage of a task says about its
server and its verdict (`TaskOK`: a task that is done has the verdict its server
deserves, one in its GET has lost its HEAD, one that failed met an unusable URL
or a closed client); and `OutcomeOK`: a returned report has every task done, a
raised one has an unusable URL. Without `TaskOK` the verdict of a finished task
could be anything by the time `gather` returns. `PermitsStep` counts: a step adds
a task to those holding a permit only when `Begin` saw one free.
`OrphansAreSilent` is an action property from the same invariant.

It goes on to `Verify`, for any requests, servers and number of permits, where `VP`
is the instance of `VerificationProofs` (its assumptions follow from `Verify`'s,
`HandlerAssumed`). `RunsUrlCheck` and `ImplementsVerification` say that the
composition is faithful to both parts: its steps are steps of `UrlCheck` and steps
of `Verification`, so that all theorems about either hold of it. `VerifyInv` is
`ReportInv`, `HandlerOK` (a handler that waits has called and `gather` is not over;
one that has answered after a call has seen its end; an answer without a report has
a cause) and `DeadReported` (the places in the report are those of the verdicts,
and these are final). From it follow `CitationsAreJudged`, `FailuresAreExplained`
and `NobodyActsUnasked`: `ReportInv` knows that a verdict is deserved, `HandlerOK`
that the client of the tasks is closed once the answer is there, and neither
could say so alone. `DeadIssues` (no other check speaks of a dead URL) and
`ReportMade` (a report is never `None`) are what it takes from `VerificationProofs`.

`VerificationProofs` proves, for any insights, thresholds and list of public
suffixes, all four properties of the run `verification`. `ReportFrom` is the
inductive invariant: a report goes back to the request that is still there when
it is made, one verdict for each insight, out of the issues found in it, though
the checks of URLs come between. What is left are facts about operators:
`RegisteredDecides` (hosts under one registered domain have one domain in the
eyes of the code) with `TwoDiffer` (a set of two or more has two that differ)
give `HighIsDeserved`, for netlocs that are `Plain`; `Disagree` being symmetric gives `OrderIsIrrelevant`.
`ReportType` types every part of a report, so a report is never mistaken for `None`.

`KitchenProofs` carries the cache's theorems over to the pipeline. `CP` is the
instance of `CacheProofs` with `Kitchen`'s constants, whose assumption is shown
to follow from `Kitchen`'s (`CacheAssumed`). `FlowStep` shows that each step of
`Kitchen` is a step of `Cache`, or leaves it alone, and keeps `Flow`: what a
request knows at each await, such as that the call it waits for asks the
question its own body asks. Neither half goes without the other: the routes
store only answers because of `Flow`, and a hit is an answer because of
`NoCrossTalk`'s invariant. `AnswersAreGenuine` follows; `FactsDoExpire` adds
`Fresh`, which reaches into calls in progress and late commands, for those write
entries too.

`LedgerProofs` proves `LedgerTellsTruth` and `RefusalIsMetOnce`. `EntryOf` ties a
request to its row: while it is answered and not sent there is at most the one
call made for it, which carries its skill and final status, and no row before
its statement is answered; when the call has ended, or the process has died, there
is at most one row about it, in the log or late, which says what was told.
`RowEntered` is the step that matters, taken by an insert that is answered
(`CostStepKeepsLog`) or by one that nobody waits for any more (`LateEnters`).
`RestartKeepsLog` is the step at which all inserts under way become late.
`QueryRaised`, and `RaisesOnce` of `CacheProofs`, say that an address
refused by the library is met by the call that made the attempt.

It goes on to `ImplementsService`: Kitchen's refinement of `Service`.
`GoesOn` lists the four ways a request moves on as `Service` sees it;
`RequestGoesOn` shows that each action of `Kitchen` is one of them, `StepOfOne`
that each of them is a step of `Service` or a stutter. An insert that is sent is a
`Post` (a call that gets its connection, `CostStepIsPromised`), a row that gets in
is a `Log` (`LineMade`, `PostgresIsPromised`), a restart is a `Die` that loses
nothing posted (`RestartIsPromised`). `PInv` adds that whoever has a late row has
had its answer decided.

The theorems of `CostProofs` are carried over like the cache's: `LP` is the
instance of `CostProofs` with `Kitchen`'s constants, `UsesLog` says that every
step of `Kitchen` is an `AnyStep` of it or leaves the log alone, rows having a
skill and a status because only answered requests are recorded. `TypesAreKept` adds
the types of requests and of the configuration. `RefusalsAreJustified` adds
`AskedTotal`: who stands at the cap has asked for the total of its own skill, and
there is a cap. A 429 needs a total of at least that (`OverCap`), so by
`DisabledIsNoOp` the pool is open, and by `ChargesOwnRows` the skill's own rows
come to as much.

Assumptions, each evaluated by TLC in the runs of its module: `CacheAssumption`;
`CostAssumption`; `RepliesAssumption`, `ProvidersAssumption` and
`WorldAssumption`; `UrlCheckAssumption`; `VerificationAssumption` with
`HostsAssumption` and `NoneAssumption` (`None` is no report); `VerifyAssumption`
(the requests considered together cite the URLs that are checked, or ask for no
check); `KitchenAssumption` with `EntriesAssumption`, `StatusAssumption` and
`LogAssumption`. `WorldAssumption` is what replies are, not what they say: HTTP
gives each a status; an object of EDGAR holds lists; and Google measures interest
from 0 to 100, so that no number of a series is negative (with negative ones
`_classify_trend` would call a series growing both ways).

Only model-checked: liveness (`EveryRequestAnswered`, `EveryLookupEnds`,
`VerifyAnswered`), which needs fairness and `ENABLED`. Every invariant and every
action property that a passing run checks is a theorem.

## Not modelled

`/health`, request ids, logging, settings without influence on control,
`/providers`, which only reads, the container files, the wording of URLs, notes
and keywords the providers build, the Pydantic result types (a result is a value
that names the question it answers), and `reset_for_tests`, which only tests
call. Task cancellation is left out: no handler is cancelled by the code itself.

## Plan

1. *Done:* all modules above; `Cache` and `Cost` proved to implement `OneShot`,
   `Kitchen` to implement `Service`, `Providers` to implement `Upstream`, `Verify`
   to implement `Verification` and to run `UrlCheck`.
2. *Done:* every safety property of the runs is a theorem.
3. Left: one module with `Providers` inside `Kitchen`. What `LookupEnds` assumes of a
   lookup is what `Upstream` promises, but the two are not joined in one state
   space, where a stuck executor would meet the pool and the cache.

Further divergences between words and code, each a candidate for a run of its
own: `config.py:61-62` says a capped skill waits "until midnight rolls" where
`cost.py:141` slides; `_diversity.py:82-83` says `.co.uk` is over-counted where
it is under-counted, and for plain hosts never over-counted (`HighIsEarned`);
`_diversity.py:4-5` asks for distinct registrable domains where a name, a trailing
dot or `www.` before one label makes two of one; `cache.py:8-10` counts headcount
among the facts of a day where `people.py:69-70` stores it for seven;
`cost.py:7-8` and `cost_telemetry.py:57-58` speak of a row after the response where
the insert is sent before it; `cost.py:17-19` will not have an outage take the
service down where giving a connection back waits without a timeout;
`google_trends.py:15-16` says a company is never asked for twice within 24 hours
where two concurrent misses ask twice; `google_trends.py:11-13` says failures of
Google surface as 502 where two of its three calls end in a note and the result
is cached for a day; `sec_edgar.py:83-86` ranks a ticker above a name where the
order of the dump decides (108-111); `sec_edgar.py:93-95` calls a company
"likely private", for seven days, when the dump is JSON of the wrong type;
`main.py:83-86` says the telemetry layer records 401s, which have no skill yet;
`Dockerfile:41-42` copies neither `config/` nor `references/`, which the code
looks for beside `src/`, where `README.md:51` promises a default configuration;
`cost.py:3` says every authenticated request inserts a row where one that meets a
malformed `providers.yaml` ends in an exception that passes the telemetry layer.
