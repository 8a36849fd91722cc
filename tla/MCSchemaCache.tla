----------------------------- MODULE MCSchemaCache -----------------------------
\* The instance of SchemaCache that TLC checks.  Caches, callers and tools are
\* interchangeable, and no property is about liveness.
EXTENDS SchemaCache

Symmetric == Permutations(Caches) \cup Permutations(Callers) \cup Permutations(Tools)

\* Either one cache at a time, which has to choose between tools and serves callers that
\* overlap, until its entries are too old for the LRU cache as well; or caches that
\* overlap, with one tool and one caller at a time, until their first entries expire.
Live == {c \in Caches : life[c] \notin {"new", "gone"}}

OneThingAtATime ==
    Cardinality(Live) > 1 =>
        /\ Cardinality(listed) = 1
        /\ Cardinality({k \in Callers : waits[k] # NoWait}) <= 1
        /\ now <= Ttl
================================================================================
