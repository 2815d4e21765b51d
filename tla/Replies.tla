------------------------------- MODULE Replies -------------------------------
(***************************************************************************)
(* What the providers of src/upstreams/ make of what they are told, by an   *)
(* HTTP API or by a library in a worker thread: a result, or an exception.  *)
(*                                                                          *)
(* A text is the set of its words, in lower case: enough to say that one is *)
(* blank, equal to another, part of it, or shorter.  A JSON body is what    *)
(* the code looks at of it.                                                 *)
(***************************************************************************)
EXTENDS Integers, Sequences, SequencesExt, FiniteSetsExt, Sums

CONSTANTS
    Lost,       \* no reply: httpx.TimeoutException or NetworkError
    Odd,        \* no reply: any other exception of httpx
    NotJson,    \* a body that is no JSON
    NotObject,  \* a JSON value of another type than the code looks for
    Absent,     \* a key that is missing, or holds null or another falsy value
    Junk,       \* an entry of a list that the code skips
    Fails,      \* a library call that raises
    Infinite,   \* a number int() cannot take
    None,
    MaxFilings  \* how many filings a result may hold

ASSUME RepliesAssumption == MaxFilings \in Nat \ {0}

Yields(v) == [result |-> v, raised |-> "nothing"]

Raises(e) == [result |-> None, raised |-> e]

\* The clauses without the last one, "except Exception".
RouteStatusNarrow(outcome) ==
    CASE outcome.raised = "nothing" -> 200
      [] outcome.raised = "ValueError" -> 422
      [] outcome.raised = "RuntimeError" -> 502
      [] outcome.raised = "other" -> 500

\* The except clauses around the lookup in every handler of src/routes/: they
\* catch ValueError first.
RouteStatus(outcome) ==
    CASE outcome.raised = "nothing" -> 200
      [] outcome.raised = "ValueError" -> 422
      [] outcome.raised \in {"RuntimeError", "other"} -> 502
----------------------------------------------------------------------------
(* exa, apollo, firecrawl: one request each. *)

\* Exa's checks without the last of the four status tests.
CheckedByName(reply) ==
    IF reply = Lost THEN Raises("RuntimeError")
    ELSE IF reply = Odd THEN Raises("other")
    ELSE IF reply.status \in {401, 402, 429} THEN Raises("RuntimeError")
    ELSE IF reply.body = NotJson THEN Raises("ValueError")
    ELSE IF reply.body = NotObject THEN Raises("RuntimeError")
    ELSE Yields(reply.body)

\* What the three do with a reply before they read its object.  resp.json()
\* raises a JSONDecodeError, which is a ValueError, and nothing stops a status
\* below 400 that is no success.
Checked(reply) ==
    IF reply = Lost THEN Raises("RuntimeError")
    ELSE IF reply = Odd THEN Raises("other")
    ELSE IF reply.status >= 400 THEN Raises("RuntimeError")
    ELSE IF reply.body = NotJson THEN Raises("ValueError")
    ELSE IF reply.body = NotObject THEN Raises("RuntimeError")
    ELSE Yields(reply.body)

\* A hit needs a URL that pydantic takes; Junk stands for all that has none.
ParseHit(raw) ==
    IF raw = Junk THEN None
    ELSE [url |-> raw.url, title |-> IF raw.title = Absent THEN raw.url ELSE raw.title]

Exa(reply) ==
    LET body == Checked(reply).result
        raws == IF body.results = Absent THEN << >> ELSE body.results
        parsed == [i \in DOMAIN raws |-> ParseHit(raws[i])]
    IN  IF Checked(reply).raised # "nothing" THEN Checked(reply)
        ELSE IF body.results = NotObject THEN Raises("RuntimeError")
        ELSE Yields(SelectSeq(parsed, LAMBDA h : h # None))

\* A count that is passed on as it is.
SafeIntSigned(value) == IF value \in Int THEN value ELSE None

\* int() of a word is caught, int() of an infinite number is not: the
\* OverflowError leaves the provider.
SafeInt(value) == IF value \in Int /\ value > 0 THEN value ELSE None

Apollo(reply) ==
    LET organization == Checked(reply).result.organization
    IN  IF Checked(reply).raised # "nothing" THEN Checked(reply)
        ELSE IF organization \in {NotObject, Absent} THEN Yields([headcount |-> None])
        ELSE IF organization.employees = Infinite THEN Raises("other")
        ELSE Yields([headcount |-> SafeInt(organization.employees)])

\* A body whose "success" does not hold is refused like one that is no
\* object.  The model of the result refuses a text that is no string, with a
\* ValidationError, which is a ValueError.
Firecrawl(reply) ==
    LET body == Checked(reply).result
    IN  IF Checked(reply).raised # "nothing" THEN Checked(reply)
        ELSE IF ~body.success THEN Raises("RuntimeError")
        ELSE IF body.data = Absent THEN Yields([text |-> Absent])
        ELSE IF body.data = NotObject THEN Raises("other")
        ELSE IF body.data.markdown = NotObject THEN Raises("ValueError")
        ELSE Yields([text |-> body.data.markdown])
----------------------------------------------------------------------------
(* sec_edgar: a dump of all companies, then the filings of one. *)

Named(entry, needle) == entry.ticker = needle \/ entry.title = needle

\* The candidates sorted the wrong way round.
MatchLongest(needle, dump) ==
    LET usable == {i \in DOMAIN dump : dump[i] # Junk}
        exact == {i \in usable : Named(dump[i], needle)}
        partial == {i \in usable : needle \subseteq dump[i].title}
        Size(i) == Cardinality(dump[i].title)
        best == {i \in partial : \A j \in partial : Size(j) =< Size(i)}
    IN  IF exact # {} THEN dump[Min(exact)]
        ELSE IF partial # {} THEN dump[Min(best)]
        ELSE None

\* The first entry whose ticker or name is the needle; otherwise the first of
\* the shortest names the needle is part of.
Match(needle, dump) ==
    LET usable == {i \in DOMAIN dump : dump[i] # Junk}
        exact == {i \in usable : Named(dump[i], needle)}
        partial == {i \in usable : needle \subseteq dump[i].title}
        Size(i) == Cardinality(dump[i].title)
        best == {i \in partial : \A j \in partial : Size(i) =< Size(j)}
    IN  IF exact # {} THEN dump[Min(exact)]
        ELSE IF partial # {} THEN dump[Min(best)]
        ELSE None

\* raise_for_status takes a redirection that was not followed for an error
\* too.  A dump that is no object counts as one that lists no such company.
FindCik(needle, reply) ==
    IF reply \in {Lost, Odd} \/ reply.status # 200 THEN Raises("other")
    ELSE IF reply.body = NotJson THEN Raises("ValueError")
    ELSE IF reply.body = NotObject THEN Yields(None)
    ELSE Yields(Match(needle, reply.body.dump))

\* Each array thinned out on its own, then put side by side.
RowsThinned(recent) ==
    LET dated == [recent EXCEPT !.filingDate = SelectSeq(@, LAMBDA d : d # Junk)]
        reach == Min({Len(dated[f]) : f \in DOMAIN dated})
    IN  [i \in 1..reach |-> [f \in DOMAIN dated |-> dated[f][i]]]

\* The company's parallel arrays, row by row as far as all of them reach.
RowsOf(recent) ==
    LET reach == Min({Len(recent[f]) : f \in DOMAIN recent})
    IN  [i \in 1..reach |-> [f \in DOMAIN recent |-> recent[f][i]]]

\* A form of interest, filed on a day that can be parsed.
Surfaced(row) == row.form = "10-K" /\ row.filingDate # Junk

\* The loop over the rows: those of interest, up to the maximum.
Kept(rows) ==
    LET upTo[i \in 0..Len(rows)] ==
            IF i = 0 THEN << >>
            ELSE IF Surfaced(rows[i]) /\ Len(upTo[i - 1]) < MaxFilings
            THEN Append(upTo[i - 1], rows[i])
            ELSE upTo[i - 1]
    IN  upTo[Len(rows)]

\* The first rows of interest, unless the URL of one cannot be built from what
\* stands for its accession number, or is one pydantic refuses.
FetchFilings(reply) ==
    IF reply \in {Lost, Odd} \/ reply.status \notin {200, 404} THEN Raises("other")
    ELSE IF reply.status = 404 THEN Yields(<< >>)
    ELSE IF reply.body = NotJson THEN Raises("ValueError")
    ELSE IF reply.body = NotObject THEN Raises("other")
    ELSE IF reply.body.recent = NotObject THEN Yields(<< >>)
    ELSE LET taken == Kept(RowsOf(reply.body.recent))
             faulty == {i \in DOMAIN taken :
                          taken[i].accessionNumber = NotObject \/ taken[i].primaryDocument = Junk}
         IN  IF faulty = {} THEN Yields(taken)
             ELSE IF taken[Min(faulty)].accessionNumber = NotObject THEN Raises("other")
             ELSE Raises("ValueError")

\* The FundingResult of a company, or of one that no dump lists.
Funding(company, filings) == [company |-> company, filings |-> filings]
----------------------------------------------------------------------------
(* google_trends, wappalyzer_oss: calls of a library. *)

\* tail = values[n // 4 :], for want of a minus sign.
ClassifyWholeRest(values) ==
    LET quarter == Len(values) \div 4
        Total(i, j) == Sum(SubSeq(values, i, j))
        head == Total(1, quarter) * (Len(values) - quarter)
        tail == Total(quarter + 1, Len(values)) * quarter
    IN  IF Len(values) < 8 THEN "unknown"
        ELSE IF head = 0 THEN IF tail > 0 THEN "growing" ELSE "unknown"
        ELSE IF 5 * (tail - head) > head THEN "growing"
        ELSE IF 5 * (tail - head) < -head THEN "declining"
        ELSE "flat"

\* The last quarter of a series against its first, with 20% to either side for
\* "flat".  Both quarters have the same length, so their sums tell.
ClassifyTrend(values) ==
    LET quarter == Len(values) \div 4
        Total(i, j) == Sum(SubSeq(values, i, j))
        head == Total(1, quarter)
        tail == Total(Len(values) - quarter + 1, Len(values))
    IN  IF Len(values) < 8 THEN "unknown"
        ELSE IF head = 0 THEN IF tail > 0 THEN "growing" ELSE "unknown"
        ELSE IF 5 * (tail - head) > head THEN "growing"
        ELSE IF 5 * (tail - head) < -head THEN "declining"
        ELSE "flat"

\* A failure of the related queries that leaves no note.
TrendsSilently(told) ==
    IF ~told.ready THEN Raises("RuntimeError")
    ELSE Yields([growth |-> IF told.interest \in {Fails, Absent} THEN "unknown"
                            ELSE ClassifyTrend(told.interest),
                 keywords |-> IF told.related \in {Fails, Absent} THEN << >> ELSE told.related,
                 notes |-> IF told.interest \in {Fails, Absent} THEN {"interest"} ELSE {}])

\* Setting the library up may fail the lookup; its two queries may not.
Trends(told) ==
    IF ~told.ready THEN Raises("RuntimeError")
    ELSE Yields([growth |-> IF told.interest \in {Fails, Absent} THEN "unknown"
                            ELSE ClassifyTrend(told.interest),
                 keywords |-> IF told.related \in {Fails, Absent} THEN << >> ELSE told.related,
                 notes |-> (IF told.interest \in {Fails, Absent} THEN {"interest"} ELSE {})
                             \cup (IF told.related = Fails THEN {"related"} ELSE {})])

FirstOf(s) == IF s \in {<< >>, NotObject} THEN None ELSE Head(s)

\* One entry of the library's answer: of the categories and versions that are
\* strings (or numbers), if they come in a list, the first.
Technology(found) ==
    [name |-> found.name, category |-> FirstOf(found.categories), version |-> FirstOf(found.versions)]

Wappalyzer(told) ==
    IF told = Fails THEN Raises("RuntimeError")
    ELSE Yields([i \in DOMAIN told |-> Technology(told[i])])
=============================================================================
