----------------------------- MODULE HashTable -----------------------------
(***************************************************************************)
(* Click's HashTable<K, V>, as the VEIL elements use it: a finite map,     *)
(* here a function whose domain is the set of keys present (get_pointer    *)
(* is not NULL exactly for the keys of the domain).                        *)
(***************************************************************************)

\* t is a table with keys in K and values in V.
IsTable(t, K, V) == DOMAIN t \subseteq K /\ t \in [DOMAIN t -> V]

EmptyTable == [k \in {} |-> k]

\* set(k, v), and t[k] = v
Put(t, k, v) == [x \in DOMAIN t \cup {k} |-> IF x = k THEN v ELSE t[x]]

\* erase(k)
Erase(t, k) == [x \in DOMAIN t \ {k} |-> t[x]]

\* Reading t[k] with operator[]: an absent key is inserted with the default
\* value d of the value type.
Touch(t, k, d) == IF k \in DOMAIN t THEN t ELSE Put(t, k, d)

=============================================================================
