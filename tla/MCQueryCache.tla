----------------------------- MODULE MCQueryCache -----------------------------
(* Instances of QueryCache.  Type 0 is Entity. *)
EXTENDS QueryCache

Ask(all, any, none) == [all |-> all, any |-> any, none |-> none]

\* Two archetypes over two components, and a query of each kind: the first
\* matches both, the second only {0, 1}, the third only {0, 1, 2}.
MCArchetype == {{0, 1}, {0, 1, 2}}
MCQueries == {Ask({0}, {1, 2}, {}), Ask({1}, {}, {2}), Ask({1, 2}, {}, {})}

\* Three components, and a query that requires two of them.
ThreeTypes == {{0, 1, 2}, {0, 1, 2, 3}}
RequireTwo == {Ask({1, 2}, {}, {})}
================================================================================
