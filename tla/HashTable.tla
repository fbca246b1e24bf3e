------------------------------ MODULE HashTable ------------------------------
(***************************************************************************)
(* The hash table of hashtable.c: open addressing in an array of tbl_size   *)
(* pointers to entries, a colliding key goes to the next free place.  Each  *)
(* call is one step.  The hash of a key is any function of it, of which the *)
(* caller of the table knows nothing.                                      *)
(***************************************************************************)
EXTENDS Integers, FiniteSets

CONSTANTS Keys, Values,
          tbl_size,        \* the number of places
          Hash,            \* hash32_buf of a key, modulo tbl_size
          NULL,            \* the pointer of a free place
          NoValue          \* what a get that found nothing leaves behind

Slots == 0 .. tbl_size - 1

ASSUME SizeAssumption == tbl_size \in Nat \ {0}
ASSUME HashAssumption == Hash \in [Keys -> Slots]

Entry == [key : Keys, value : Values]

ASSUME NullAssumption == NULL \notin Entry

VARIABLES entries,         \* the array of pointers
          reply, value,    \* what the last call returned and retrieved
          usable           \* the last put did not run out of memory

vars == <<entries, reply, value, usable>>

Init ==
  /\ entries = [s \in Slots |-> NULL]
  /\ reply = "none"
  /\ value = NoValue
  /\ usable = TRUE
-----------------------------------------------------------------------------
Holds(s, k) == entries[s] # NULL /\ entries[s].key = k

(* The places the search for k visits before s: it starts at the hash of k  *)
(* and goes on after the last place with the first.                        *)
Before(k, s) ==
  IF Hash[k] <= s THEN Hash[k] .. s - 1
  ELSE (Hash[k] .. tbl_size - 1) \cup (0 .. s - 1)

(* Faulty: only the first place is tried; the key does not end the search.  *)
ReachesHashOnly(k, s) == s = Hash[k]
ReachesPastKey(k, s) == \A t \in Before(k, s) : entries[t] # NULL

(* The search for k comes to s if it has met neither k nor a free place.    *)
Reaches(k, s) == \A t \in Before(k, s) : entries[t] # NULL /\ ~ Holds(t, k)

(* hashtable_lookup and the loop of hashtable_put: where the search for k   *)
(* finds it, where it ends at a free place.                                *)
FoundAt(k) == {s \in Slots : Reaches(k, s) /\ Holds(s, k)}
FreeFor(k) == {s \in Slots : Reaches(k, s) /\ entries[s] = NULL}

(* hashtable_put: the entry is allocated only where a place was found.      *)
PutUpdated(k, v) ==
  \E s \in FoundAt(k) :
    /\ entries' = [entries EXCEPT ![s].value = v]
    /\ reply' = "HASH_UPDATED"
    /\ UNCHANGED <<value, usable>>

PutNew(k, v) ==
  \E s \in FreeFor(k) :
    /\ entries' = [entries EXCEPT ![s] = [key |-> k, value |-> v]]
    /\ reply' = "HASH_OK"
    /\ UNCHANGED <<value, usable>>

PutFull(k) ==
  /\ FoundAt(k) = {} /\ FreeFor(k) = {}
  /\ reply' = "HASH_FULL"
  /\ UNCHANGED <<entries, value, usable>>

(* One of the three allocations fails.  The place keeps the pointer to an   *)
(* entry that was freed, unless it was the first; nobody may use the table  *)
(* after that.                                                             *)
PutFails(k) ==
  /\ FreeFor(k) # {}
  /\ reply' = "HASH_FAIL"
  /\ usable' = FALSE
  /\ UNCHANGED <<entries, value>>

Put(k, v) == usable /\ (PutUpdated(k, v) \/ PutNew(k, v) \/ PutFull(k) \/ PutFails(k))

(* hashtable_get *)
GetFound(k) ==
  \E s \in FoundAt(k) : reply' = "HASH_OK" /\ value' = entries[s].value
GetNotFound(k) ==
  FoundAt(k) = {} /\ reply' = "HASH_NOTFOUND" /\ UNCHANGED value

Get(k) == usable /\ (GetFound(k) \/ GetNotFound(k)) /\ UNCHANGED <<entries, usable>>

(* hashtable_remove: the place becomes a free one.  Nothing calls it.       *)
Remove(k) ==
  /\ usable
  /\ \/ \E s \in FoundAt(k) :
          entries' = [entries EXCEPT ![s] = NULL] /\ reply' = "HASH_OK"
     \/ FoundAt(k) = {} /\ reply' = "HASH_NOTFOUND" /\ UNCHANGED entries
  /\ UNCHANGED <<value, usable>>

Next == \E k \in Keys : Get(k) \/ \E v \in Values : Put(k, v)

Spec == Init /\ [][Next]_vars

NextOrRemove == Next \/ \E k \in Keys : Remove(k)
SpecWithRemove == Init /\ [][NextOrRemove]_vars
-----------------------------------------------------------------------------
TypeOK ==
  /\ entries \in [Slots -> Entry \cup {NULL}]
  /\ reply \in {"none", "HASH_OK", "HASH_UPDATED", "HASH_FULL", "HASH_FAIL", "HASH_NOTFOUND"}
  /\ value \in Values \cup {NoValue}
  /\ usable \in BOOLEAN

(* Each entry is where the search for its key finds it: there is no free    *)
(* place on the way, and no other entry with its key.  Where the array      *)
(* wraps around, and when it is full, this is easily lost.                  *)
ChainsUnbroken ==
  \A s \in Slots : entries[s] # NULL =>
    /\ \A t \in Before(entries[s].key, s) : entries[t] # NULL
    /\ \A t \in Slots : Holds(t, entries[s].key) => t = s

IInv == TypeOK /\ ChainsUnbroken

(* The keys in an array of entries, and the map the array stands for. *)
PresentIn(e) == {e[s].key : s \in {x \in Slots : e[x] # NULL}}
SlotOf(e, k) == CHOOSE s \in Slots : e[s] # NULL /\ e[s].key = k
MapOf(e) == [k \in PresentIn(e) |-> e[SlotOf(e, k)].value]

Contents == MapOf(entries)

Abstract == INSTANCE BoundedMap WITH map <- Contents, Cap <- tbl_size

(* The table behaves like a map: what a put stored a get finds, a put of    *)
(* another key changes nothing of it, and a put is refused for want of room *)
(* only when there is none.                                                *)
ImplementsBoundedMap == Abstract!Spec
=============================================================================
