------------------------------- MODULE Routes -------------------------------
(***************************************************************************)
(* The six signal endpoints of src/routes/.  Their handlers run the same    *)
(* pipeline, which module Kitchen models; they differ in what is collected  *)
(* here, one record per handler:                                            *)
(*   fields   what the request body may hold                                *)
(*   asks     the fields handed to the provider, which determine its answer *)
(*   keyed    the fields of cache_payload, under which the answer is cached *)
(*   ttl      the ttl_kind of the cache entry                               *)
(***************************************************************************)
Funding ==
    [signal |-> "funding", fields |-> {"company"},
     asks |-> {"company"}, keyed |-> {"company"}, ttl |-> "static"]

People ==
    [signal |-> "people", fields |-> {"company"},
     asks |-> {"company"}, keyed |-> {"company"}, ttl |-> "static"]

Scraping ==
    [signal |-> "scraping", fields |-> {"url"},
     asks |-> {"url"}, keyed |-> {"url"}, ttl |-> "fact"]

\* /search caching without the limit.
SearchUnlimited ==
    [signal |-> "search", fields |-> {"query", "limit"},
     asks |-> {"query", "limit"}, keyed |-> {"query"}, ttl |-> "fact"]

\* /search cached like a fact that never moves.
SearchStatic ==
    [signal |-> "search", fields |-> {"query", "limit"},
     asks |-> {"query", "limit"}, keyed |-> {"query", "limit"}, ttl |-> "static"]

Search ==
    [signal |-> "search", fields |-> {"query", "limit"},
     asks |-> {"query", "limit"}, keyed |-> {"query", "limit"}, ttl |-> "fact"]

Tech ==
    [signal |-> "tech", fields |-> {"primary_url", "company"},
     asks |-> {"primary_url"}, keyed |-> {"primary_url"}, ttl |-> "static"]

Traffic ==
    [signal |-> "traffic", fields |-> {"domain"},
     asks |-> {"domain"}, keyed |-> {"domain"}, ttl |-> "fact"]

Handlers == {Funding, People, Scraping, Search, Tech, Traffic}

Signals == {h.signal : h \in Handlers}

HandlerOf(s) == CHOOSE h \in Handlers : h.signal = s

\* The part of a request body that a set of fields picks out.
Picked(body, fields) == [f \in fields |-> body[f]]

Asked(s, body) == Picked(body, HandlerOf(s).asks)

CachePayload(s, body) == Picked(body, HandlerOf(s).keyed)
=============================================================================
