----------------------------- MODULE BoundedMap ------------------------------
(***************************************************************************)
(* What the callers of hashtable.c rely on: a map of at most Cap keys, in   *)
(* which a get finds the value that was put last.  The map accepts calls    *)
(* until one fails for want of memory; its owner then gives it up.          *)
(***************************************************************************)
EXTENDS MapOps

CONSTANTS Keys, Values, Cap, NoValue

VARIABLES map,      \* what the map holds
          reply,    \* the reply of the last call
          value,    \* the value the last get retrieved
          usable    \* no call has failed yet

vars == <<map, reply, value, usable>>

Init ==
  /\ map = EmptyMap
  /\ reply = "none"
  /\ value = NoValue
  /\ usable = TRUE

Put(k, v) ==
  /\ usable
  /\ reply' \in PutReplies(map, Cap, k)
  /\ map' = IF reply' \in Accepted THEN Assoc(map, k, v) ELSE map
  /\ usable' = (reply' # "HASH_FAIL")
  /\ UNCHANGED value

Get(k) ==
  /\ usable
  /\ IF k \in DOMAIN map
     THEN reply' = "HASH_OK" /\ value' = map[k]
     ELSE reply' = "HASH_NOTFOUND" /\ UNCHANGED value
  /\ UNCHANGED <<map, usable>>

Next == \E k \in Keys : Get(k) \/ \E v \in Values : Put(k, v)

Spec == Init /\ [][Next]_vars
=============================================================================
