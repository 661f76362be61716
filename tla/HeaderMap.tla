----------------------------- MODULE HeaderMap -----------------------------
(***************************************************************************)
(* What the docstring of CaseInsensitiveDict promises: a map whose keys    *)
(* may be spelled in any case.  All spellings of a name are set together,  *)
(* and removed together when they are there.                               *)
(***************************************************************************)
CONSTANTS Keys, Values, Missing

VARIABLE map   \* what a lookup gives, for every spelling

Init == map \in [Keys -> Values \cup {Missing}]

Set(key, value) ==
    map' = [k \in Keys |-> IF k.name = key.name THEN value ELSE map[k]]

Remove(key) ==
    /\ map[key] # Missing
    /\ map' = [k \in Keys |-> IF k.name = key.name THEN Missing ELSE map[k]]

Next == \E key \in Keys :
            \/ \E value \in Values : Set(key, value)
            \/ Remove(key)

Spec == Init /\ [][Next]_map
=============================================================================
