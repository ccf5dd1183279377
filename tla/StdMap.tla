------------------------------- MODULE StdMap -------------------------------
(***************************************************************************)
(* The operations of std::map that the server uses, on partial functions:  *)
(* a map is a function whose domain is the set of keys present.            *)
(***************************************************************************)

\* m is a std::map<K, V>.
IsMap(m, K, V) == DOMAIN m \subseteq K /\ m \in [DOMAIN m -> V]

\* A default-constructed map.
EmptyMap == [k \in {} |-> k]

\* m[k] = v, which inserts the key or overwrites its value.
Assign(m, k, v) == [x \in DOMAIN m \cup {k} |-> IF x = k THEN v ELSE m[x]]

\* m.emplace(k, v), which leaves a key that is already present alone.
Emplace(m, k, v) == IF k \in DOMAIN m THEN m ELSE Assign(m, k, v)

\* m.erase(k), which does nothing for an absent key.
Erase(m, k) == [x \in DOMAIN m \ {k} |-> m[x]]
=============================================================================
