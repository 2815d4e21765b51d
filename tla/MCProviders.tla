---------------------------- MODULE MCProviders ----------------------------
(***************************************************************************)
(* A small world for Providers.                                             *)
(***************************************************************************)
EXTENDS Providers

CONSTANTS one, two, three, page

Makes(provider, arg) == [provider |-> provider, arg |-> arg]

\* One lookup speaks HTTP, the others call a library.
SmallMenu ==
    [l \in Lookup |->
        CASE l = one -> {Makes("sec_edgar", {}), Makes("sec_edgar", {"acme"}), Makes("exa", {"acme"}),
                         Makes("apollo", {"acme"}), Makes("firecrawl", {"acme.com"})}
          [] l = two -> {Makes("google_trends", {"acme.com"})}
          [] l = three -> {Makes("wappalyzer_oss", {"acme.com"})}]

Ok(body) == [status |-> 200, body |-> body]

\* A body at its best, and all that may come in its place.
OrWorse(body) ==
    {Ok(body), Ok(NotJson), Ok(NotObject), [status |-> 304, body |-> NotJson]}
      \cup {[status |-> s, body |-> body] : s \in {401, 500}}

Results(r) == [results |-> r]

Hit(title) == [url |-> page, title |-> title]

ExaSays ==
    OrWorse(Results(<<Hit("Acme"), Junk, Hit(Absent)>>))
      \cup {Ok(Results(NotObject)), Ok(Results(Absent))}

Organization(o) == [organization |-> o]

ApolloSays ==
    OrWorse(Organization(Absent))
      \cup {Ok(Organization([employees |-> n])) : n \in {0, 3, NotObject, Infinite}}

Scraped(success, data) == [success |-> success, data |-> data]

FirecrawlSays ==
    {Ok(Scraped(FALSE, Absent)), Ok(Scraped(TRUE, Absent)), Ok(Scraped(TRUE, NotObject))}
      \cup {Ok(Scraped(TRUE, [markdown |-> m])) : m \in {page, NotObject}}

Listed(ticker, title) == [ticker |-> {ticker}, title |-> title]

\* Named by its ticker, by its name, by part of a long or of a shorter name,
\* and not at all.
Companies ==
    {Listed("acme", {"ac", "me"}), Listed("am", {"acme"}), Listed("ahld", {"acme", "old", "holding"}),
     Listed("ainc", {"acme", "inc"}), Listed("zed", {"zed"}), Junk}

Dump(d) == [dump |-> d]

TickersSay ==
    OrWorse(Dump(<< >>))
      \cup {Ok(Dump(<<a, b>>)) : a, b \in Companies}

Recent(forms, days, numbers, documents) ==
    [recent |-> [form |-> forms, filingDate |-> days, accessionNumber |-> numbers,
                 primaryDocument |-> documents]]

SubmissionsSay ==
    {Ok(NotJson), Ok(NotObject), Ok([recent |-> NotObject]), [status |-> 404, body |-> NotJson],
     [status |-> 500, body |-> NotJson],
     Ok(Recent(<<"10-K", "10-K", "4", "10-K">>, <<1, Junk, 3, 4>>, <<1, 2, 3, 4>>, <<1, 2, 3, 4>>)),
     Ok(Recent(<<"10-K", "10-K">>, <<1, 2>>, <<1>>, <<1, 2>>)),
     Ok(Recent(<<"10-K", "10-K", "10-K">>, <<1, 2, 3>>, <<1, 2, NotObject>>, <<1, 2, Junk>>)),
     Ok(Recent(<<"10-K">>, <<1>>, <<NotObject>>, <<Junk>>)),
     Ok(Recent(<<"10-K">>, <<1>>, <<1>>, <<Junk>>))}

\* Eight weeks, and seven.
Series ==
    {<<7, 7, 7, 7, 7, 7, 7>>} \cup
    {<<a, a, 9, 9, 9, 9, c, c>> : a, c \in {0, 4, 5, 6}}

Told(ready, interest, related) ==
    [ready |-> ready, interest |-> interest, related |-> related]

TrendsFind ==
    {Told(TRUE, s, Absent) : s \in Series}
      \cup {Told(TRUE, i, k) : i \in {Fails, Absent}, k \in {Fails, Absent, <<"acme">>}}
      \cup {Told(FALSE, Fails, Fails)}

Found(name, categories, versions) ==
    [name |-> name, categories |-> categories, versions |-> versions]

WappalyzerFinds ==
    {Fails, << >>, <<Found("React", <<"JavaScript", "UI">>, << >>), Found("nginx", NotObject, <<2, 1>>)>>}

SmallWorld ==
    [exa |-> ExaSays, apollo |-> ApolloSays, firecrawl |-> FirecrawlSays, tickers |-> TickersSay,
     submissions |-> SubmissionsSay, google_trends |-> TrendsFind,
     wappalyzer_oss |-> WappalyzerFinds]
=============================================================================
