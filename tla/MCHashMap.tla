----------------------------- MODULE MCHashMap -----------------------------
(***************************************************************************)
(* HashMap for TLC: keys whose probe sequences collide and wrap around, in *)
(* tables of 8 and of 16 slots.  Keys are told apart by their hashes only, *)
(* so one way of giving the hashes to the keys stands for all.             *)
(***************************************************************************)
EXTENDS HashMap

Giving(hashes) ==
    {h \in [Key -> hashes] :
        /\ \A x \in hashes : \E k \in Key : h[k] = x
        /\ \A k1, k2 \in Key : k1 < k2 => h[k1] <= h[k2]}

MCHashFunctions == Giving({6, 7, 8, 15}) \cup Giving({7, 15})
=============================================================================
