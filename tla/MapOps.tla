------------------------------- MODULE MapOps -------------------------------
(***************************************************************************)
(* What a caller of hashtable.c may rely on, as operators on a finite map: *)
(* the map a put leaves behind and the replies a put may give.  WuManber   *)
(* and BoyerMoore keep their shift tables in such a map; HashTable shows    *)
(* that the open-addressing table of the code behaves like one.            *)
(***************************************************************************)
EXTENDS Naturals, FiniteSets

EmptyMap == [k \in {} |-> k]

(* The map m after the value v was stored under the key k. *)
Assoc(m, k, v) == [x \in DOMAIN m \cup {k} |-> IF x = k THEN v ELSE m[x]]

(* The replies of hashtable_put for key k on a table of cap slots that      *)
(* holds m: a present key is updated in place, a new one needs a free slot  *)
(* and memory.                                                             *)
PutReplies(m, cap, k) ==
  IF k \in DOMAIN m THEN {"HASH_UPDATED"}
  ELSE IF Cardinality(DOMAIN m) < cap THEN {"HASH_OK", "HASH_FAIL"}
  ELSE {"HASH_FULL"}

(* The replies after which the value is in the table. *)
Accepted == {"HASH_OK", "HASH_UPDATED"}
=============================================================================
