------------------------------ MODULE Registry ------------------------------
(***************************************************************************)
(* src/upstreams/__init__.py: which provider get_active_provider comes to.  *)
(* A registry is a set of pairs of a signal and the name of a class that    *)
(* was registered for it.  What config/providers.yaml holds for a signal is *)
(* a name, "absent" (no file, an empty one, no such key, an empty value),   *)
(* or "unreadable" (no YAML, no mapping, or a value that cannot be a key).  *)
(***************************************************************************)

\* The classes of src/upstreams/ that carry a @register decorator.
Defined ==
    {<<"funding", "sec_edgar">>, <<"people", "apollo">>, <<"scraping", "firecrawl">>,
     <<"search", "exa">>, <<"tech", "wappalyzer_oss">>, <<"traffic", "google_trends">>}

\* Those whose module the start of the service imports, which is what runs
\* the decorator.
Imported == {<<"funding", "sec_edgar">>}

NotAName == {"absent", "unreadable"}

\* get_active_provider: a name; or "unconfigured", which stands for the three
\* exceptions every route catches: no entry, no such class, or a class whose
\* constructor misses its key or its library; or "broken", an exception that
\* no route catches.
Active(registry, equipped, signal, entry) ==
    IF entry = "unreadable" THEN "broken"
    ELSE IF <<signal, entry>> \in registry /\ entry \in equipped THEN entry
    ELSE "unconfigured"
=============================================================================
