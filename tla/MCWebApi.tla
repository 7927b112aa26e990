------------------------------ MODULE MCWebApi ------------------------------
EXTENDS WebApi

CONSTANTS main, lax, unknown, c1, c2

\* Two clusters, one of them without validation, and a name that is none's.
SomeClusters == <<
    [name |-> main, default |-> FALSE, disableValidation |-> FALSE],
    [name |-> lax, default |-> FALSE, disableValidation |-> TRUE]>>

\* The first client calls everything; the second one calls as well, with all
\* the headers, and meets it in the cache.
WithHeaders(fns, names) == fns \X names \X BOOLEAN
Calls(c) ==
    WithHeaders({Info}, ClusterNames \cup {NoAddress}) \cup
    (IF c = c1
     THEN (Functions \cup GeneratedFunctions \cup PlatformCalls) \X {main} \X {FALSE}
     ELSE {})
=============================================================================
