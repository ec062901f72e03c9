------------------------------ MODULE MapSpec ------------------------------
(***************************************************************************)
(* What a map object promises a script: a dictionary.                      *)
(***************************************************************************)
EXTENDS Integers

CONSTANTS
    Key,            \* the non-null keys
    Value,
    Missing         \* not a value: the key is not in the map

VARIABLES
    map,            \* map[k]: the value stored for k, or Missing
    count           \* what len() answers

vars == <<map, count>>

Init ==
    /\ map = [k \in Key |-> Missing]
    /\ count = 0

(***************************************************************************)
(* map[k] = v                                                              *)
(***************************************************************************)
Put(k, v) ==
    /\ map' = [map EXCEPT ![k] = v]
    /\ count' = IF map[k] = Missing THEN count + 1 ELSE count

(***************************************************************************)
(* delete(map, k)                                                          *)
(***************************************************************************)
Remove(k) ==
    /\ map[k] # Missing
    /\ map' = [map EXCEPT ![k] = Missing]
    /\ count' = count - 1

Next ==
    \E k \in Key : Remove(k) \/ \E v \in Value : Put(k, v)

Spec == Init /\ [][Next]_vars
=============================================================================
