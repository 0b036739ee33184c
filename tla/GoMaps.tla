------------------------------- MODULE GoMaps -------------------------------
(***************************************************************************)
(* Go maps as functions on the keys they hold.                             *)
(***************************************************************************)

\* f is a map[S]T.
IsMap(f, S, T) == DOMAIN f \subseteq S /\ f \in [DOMAIN f -> T]

\* The map made without entries.
EmptyMap == [k \in {} |-> k]

\* m[k] = v.
Put(f, k, v) == [x \in DOMAIN f \union {k} |-> IF x = k THEN v ELSE f[x]]

\* delete(m, k) for each k of S.
Without(f, S) == [x \in DOMAIN f \ S |-> f[x]]
=============================================================================
