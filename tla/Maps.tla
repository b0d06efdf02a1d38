-------------------------------- MODULE Maps --------------------------------
(* A std::map or std::unordered_map, as a function on the keys it holds. *)

\* insert_or_assign.
With(f, k, v) == [x \in DOMAIN f \cup {k} |-> IF x = k THEN v ELSE f[x]]

\* erase.
Without(f, k) == [x \in DOMAIN f \ {k} |-> f[x]]
=============================================================================
