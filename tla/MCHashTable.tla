----------------------------- MODULE MCHashTable -----------------------------
(* Four keys in three places, so that the table fills up; three keys hash to *)
(* the last place and to the one before, so that searches wrap around.       *)
EXTENDS HashTable, TLC

CONSTANTS k1, k2, k3, k4

MCKeys == {k1, k2, k3, k4}
MCHash == k1 :> 2 @@ k2 :> 2 @@ k3 :> 1 @@ k4 :> 0
=============================================================================
