-------------------------------- MODULE Maps --------------------------------
(***************************************************************************)
(* The canonical maps of server/src/broker/concurrent.rs, which hold the   *)
(* broker's tables: partial functions, changed one key at a time.          *)
(***************************************************************************)

Nothing == [x \in {} |-> x]

\* CanonicalMap::insert
Put(f, k, v) == [x \in DOMAIN f \cup {k} |-> IF x = k THEN v ELSE f[x]]

\* CanonicalMap::remove, CanonicalMap::retain
Drop(f, K) == [x \in DOMAIN f \ K |-> f[x]]

=============================================================================
