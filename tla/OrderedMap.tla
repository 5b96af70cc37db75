------------------------------ MODULE OrderedMap ------------------------------
(***************************************************************************)
(* What the map interface of CPAM (map.h) promises, with no trees: a map   *)
(* is a function from some of the keys to values, and each operation makes *)
(* another one of it.  PacMap checks the trees against these definitions.  *)
(***************************************************************************)

EmptyMap == [k \in {} |-> {}]

\* insert, multi_insert and map_union: where both have a key, n's value is taken.
Overridden(m, n) ==
  [k \in DOMAIN m \union DOMAIN n |-> IF k \in DOMAIN n THEN n[k] ELSE m[k]]

\* remove, multi_delete, map_difference, filter and range.
Only(m, K) == [k \in DOMAIN m \intersect K |-> m[k]]

\* map_intersect: n's values again.
Common(m, n) == Only(n, DOMAIN m)

\* A batch that combines only: n's values where m has the key.
Replaced(m, n) == [k \in DOMAIN m |-> IF k \in DOMAIN n THEN n[k] ELSE m[k]]

\* update: g maps the old value to the new one.
Updated(m, k, g) == [j \in DOMAIN m |-> IF j = k THEN g[m[j]] ELSE m[j]]
=============================================================================
