------------------------------ MODULE OrderedMap ------------------------------
(* What the interface Tree of pkg/util/tree/avl promises: a map.  The value    *)
(* that Pop returns is no part of it.                                          *)
CONSTANTS Key, Value, NoValue

VARIABLES
    map,   \* the value of each key, NoValue if it has none
    out    \* what the last operation returned

Empty == [k \in Key |-> NoValue]

Init == map = Empty /\ out = NoValue

Insert(k, v) == map' = [map EXCEPT ![k] = v] /\ out' = map[k]

\* Delete, or Pop but for the value: whether the key was there.
Remove(k) == map' = [map EXCEPT ![k] = NoValue] /\ out' = (map[k] # NoValue)
Clear == map' = Empty /\ out' = NoValue
Clone == UNCHANGED map /\ out' = NoValue

Next ==
    \/ \E k \in Key : Remove(k) \/ \E v \in Value : Insert(k, v)
    \/ Clear \/ Clone

Spec == Init /\ [][Next]_<<map, out>>
=============================================================================
