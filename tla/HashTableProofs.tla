--------------------------- MODULE HashTableProofs ---------------------------
(***************************************************************************)
(* For every set of keys, every size of the table and every hash function:  *)
(* the chains of the table stay unbroken as long as nothing is removed, and  *)
(* the table then implements the map its callers rely on.                  *)
(***************************************************************************)
EXTENDS HashTable, FiniteSetTheorems, WellFoundedInduction, TLAPS

(* A set of natural numbers that is not empty has a least element. *)
LEMMA LeastElement ==
  ASSUME NEW T \in SUBSET Nat, T # {}
  PROVE  \E x \in T : \A y \in T : x <= y
<1>1. PICK x \in T : \A y \in T : ~ (<<y, x>> \in OpToRel(<, Nat))
  BY WFMin, NatLessThanWellFounded
<1>2. \A y \in T : <<y, x>> \in OpToRel(<, Nat) <=> y < x
  BY DEF OpToRel
<1>3. \A y \in T : ~ (y < x)
  BY <1>1, <1>2, Zenon
<1> QED
  BY <1>3

(* Of two places one comes before the other in every search. *)
LEMMA SearchOrder ==
  ASSUME NEW k \in Keys, NEW s \in Slots, NEW t \in Slots, s # t
  PROVE  s \in Before(k, t) \/ t \in Before(k, s)
BY SizeAssumption, HashAssumption DEF Slots, Before

LEMMA BeforeInSlots ==
  ASSUME NEW k \in Keys, NEW s \in Slots
  PROVE  Before(k, s) \subseteq Slots /\ s \notin Before(k, s)
BY SizeAssumption, HashAssumption DEF Slots, Before

(* The first of some places in the order of a search. *)
LEMMA FirstPlace ==
  ASSUME NEW k \in Keys, NEW T \in SUBSET Slots, T # {}
  PROVE  \E s \in T : Before(k, s) \cap T = {}
<1> DEFINE Late == {s \in T : Hash[k] <= s}
<1>1. T \subseteq Nat /\ Hash[k] \in Slots
  BY SizeAssumption, HashAssumption DEF Slots
<1>2. CASE Late # {}
  <2>1. PICK s \in Late : \A t \in Late : s <= t
    BY <1>1, <1>2, LeastElement
  <2>2. Before(k, s) \cap T = {}
    BY <2>1, <1>1, SizeAssumption DEF Slots, Before
  <2> QED
    BY <2>1, <2>2
<1>3. CASE Late = {}
  <2>1. PICK s \in T : \A t \in T : s <= t
    BY <1>1, LeastElement
  <2>2. Before(k, s) \cap T = {}
    BY <2>1, <1>1, <1>3, SizeAssumption DEF Slots, Before
  <2> QED
    BY <2>1, <2>2
<1> QED
  BY <1>2, <1>3

(* A search finds a key where the key is, if chains are unbroken. *)
LEMMA FoundWherePresent ==
  ASSUME IInv, NEW k \in Keys, NEW s \in Slots
  PROVE  s \in FoundAt(k) <=> Holds(s, k)
<1>1. ASSUME Holds(s, k) PROVE Reaches(k, s)
  <2>1. \A t \in Before(k, s) : entries[t] # NULL
    BY <1>1 DEF IInv, ChainsUnbroken, Holds
  <2>2. \A t \in Slots : Holds(t, k) => t = s
    BY <1>1 DEF IInv, ChainsUnbroken, Holds
  <2> QED
    BY <2>1, <2>2, BeforeInSlots DEF Reaches
<1> QED
  BY <1>1 DEF FoundAt

(* A search that ends at a free place does so because the key is absent. *)
LEMMA FreeMeansAbsent ==
  ASSUME IInv, NEW k \in Keys, FreeFor(k) # {}, NEW t \in Slots
  PROVE  ~ Holds(t, k)
<1>1. PICK s \in Slots : Reaches(k, s) /\ entries[s] = NULL
  BY DEF FreeFor
<1>2. SUFFICES ASSUME Holds(t, k) PROVE FALSE
  OBVIOUS
<1>3. t # s
  BY <1>1, <1>2 DEF Holds
<1>4. s \in Before(k, t) \/ t \in Before(k, s)
  BY <1>3, SearchOrder
<1>5. s \notin Before(k, t)
  BY <1>1, <1>2 DEF IInv, ChainsUnbroken, Holds
<1> QED
  BY <1>1, <1>2, <1>4, <1>5 DEF Reaches

(* A search that ends nowhere has met an entry in every place. *)
LEMMA NowhereMeansFull ==
  ASSUME IInv, NEW k \in Keys, FoundAt(k) = {}, FreeFor(k) = {}, NEW s \in Slots
  PROVE  entries[s] # NULL
<1> DEFINE T == {t \in Slots : entries[t] = NULL}
<1>1. SUFFICES ASSUME T # {} PROVE FALSE
  OBVIOUS
<1>2. PICK t \in T : Before(k, t) \cap T = {}
  BY <1>1, FirstPlace
<1>3. \A x \in Before(k, t) : entries[x] # NULL /\ ~ Holds(x, k)
  BY <1>2, BeforeInSlots, FoundWherePresent
<1> QED
  BY <1>2, <1>3 DEF FreeFor, Reaches
-----------------------------------------------------------------------------
LEMMA InitIInv == Init => IInv
BY NullAssumption DEF Init, IInv, TypeOK, ChainsUnbroken

(* A call of put either changes the value of an entry or fills a place at    *)
(* the end of the chain of its key.                                        *)
LEMMA UpdateKeepsIInv ==
  ASSUME IInv, NEW k \in Keys, NEW v \in Values, PutUpdated(k, v), usable
  PROVE  IInv'
<1>1. PICK s \in FoundAt(k) : entries' = [entries EXCEPT ![s].value = v]
  BY DEF PutUpdated
<1>2. s \in Slots /\ Holds(s, k) /\ entries[s] \in Entry
  BY <1>1 DEF FoundAt, Holds, IInv, TypeOK
<1>3. entries'[s] = [entries[s] EXCEPT !.value = v] /\ entries'[s] \in Entry
  BY <1>1, <1>2 DEF IInv, TypeOK, Entry
<1>4. \A t \in Slots : t # s => entries'[t] = entries[t]
  BY <1>1, <1>2 DEF IInv, TypeOK
<1>5. TypeOK'
  BY <1>1, <1>3, <1>4 DEF IInv, TypeOK, PutUpdated
<1>6. \A t \in Slots : /\ entries'[t] = NULL <=> entries[t] = NULL
                       /\ entries[t] # NULL => entries'[t].key = entries[t].key
  BY <1>2, <1>3, <1>4, NullAssumption DEF Entry
<1>7. \A t \in Slots : entries[t] # NULL => entries[t].key \in Keys
  BY DEF IInv, TypeOK, Entry
<1>8. ChainsUnbroken'
  <2>1. SUFFICES ASSUME NEW t \in Slots, entries'[t] # NULL
                 PROVE  /\ \A x \in Before(entries'[t].key, t) : entries'[x] # NULL
                        /\ \A x \in Slots : entries'[x] # NULL /\ entries'[x].key = entries'[t].key => x = t
    BY DEF ChainsUnbroken, Holds, Before
  <2>2. entries[t] # NULL /\ entries'[t].key = entries[t].key /\ entries[t].key \in Keys
    BY <2>1, <1>6, <1>7
  <2>3. \A x \in Before(entries[t].key, t) : entries'[x] # NULL
    BY <2>2, <1>6, BeforeInSlots DEF IInv, ChainsUnbroken
  <2>4. \A x \in Slots : entries'[x] # NULL /\ entries'[x].key = entries[t].key => Holds(x, entries[t].key)
    BY <1>6 DEF Holds
  <2>5. \A x \in Slots : Holds(x, entries[t].key) => x = t
    BY <2>2 DEF IInv, ChainsUnbroken
  <2> QED
    BY <2>2, <2>3, <2>4, <2>5
<1> QED
  BY <1>5, <1>8 DEF IInv

LEMMA NewKeepsIInv ==
  ASSUME IInv, NEW k \in Keys, NEW v \in Values, PutNew(k, v), usable
  PROVE  IInv'
<1>1. PICK s \in FreeFor(k) : entries' = [entries EXCEPT ![s] = [key |-> k, value |-> v]]
  BY DEF PutNew
<1>2. s \in Slots /\ Reaches(k, s) /\ entries[s] = NULL
  BY <1>1 DEF FreeFor
<1>3. entries'[s] = [key |-> k, value |-> v] /\ entries'[s] \in Entry
  BY <1>1, <1>2 DEF IInv, TypeOK, Entry
<1>4. \A t \in Slots : t # s => entries'[t] = entries[t]
  BY <1>1, <1>2 DEF IInv, TypeOK
<1>5. TypeOK'
  BY <1>1, <1>3, <1>4 DEF IInv, TypeOK, PutNew
<1>6. \A t \in Slots : entries[t] # NULL => t # s /\ entries'[t] # NULL
  BY <1>2, <1>4
<1>7. \A t \in Slots : entries[t] # NULL => entries[t].key \in Keys \ {k}
  BY <1>1, FreeMeansAbsent DEF IInv, TypeOK, Entry, Holds
<1>8. ASSUME NEW t \in Slots, entries'[t] # NULL
      PROVE  /\ \A x \in Before(entries'[t].key, t) : entries'[x] # NULL
             /\ \A x \in Slots : entries'[x] # NULL /\ entries'[x].key = entries'[t].key => x = t
  <2>1. CASE t = s
    <3>1. \A x \in Before(k, s) : entries'[x] # NULL
      BY <1>2, <1>6, BeforeInSlots DEF Reaches
    <3>2. \A x \in Slots : entries'[x] # NULL /\ entries'[x].key = k => x = s
      BY <1>4, <1>7 DEF Holds
    <3> QED
      BY <2>1, <3>1, <3>2, <1>3
  <2>2. CASE t # s
    <3>1. entries'[t] = entries[t] /\ entries[t] # NULL /\ entries[t].key \in Keys \ {k}
      BY <2>2, <1>8, <1>4, <1>7
    <3>2. \A x \in Before(entries[t].key, t) : entries'[x] # NULL
      BY <3>1, <1>6, BeforeInSlots DEF IInv, ChainsUnbroken
    <3>3. \A x \in Slots : entries'[x] # NULL /\ entries'[x].key = entries[t].key => x # s /\ Holds(x, entries[t].key)
      BY <3>1, <1>3, <1>4 DEF Holds
    <3>4. \A x \in Slots : Holds(x, entries[t].key) => x = t
      BY <3>1 DEF IInv, ChainsUnbroken
    <3> QED
      BY <3>1, <3>2, <3>3, <3>4
  <2> QED
    BY <2>1, <2>2
<1>9. ChainsUnbroken'
  BY <1>8 DEF ChainsUnbroken, Holds, Before
<1> QED
  BY <1>5, <1>9 DEF IInv

LEMMA NothingStoredKeepsIInv ==
  ASSUME IInv, UNCHANGED entries, TypeOK'
  PROVE  IInv'
BY DEF IInv, ChainsUnbroken, Holds, Before

LEMMA GetKeepsIInv ==
  ASSUME IInv, NEW k \in Keys, Get(k)
  PROVE  IInv'
<1>1. CASE GetFound(k)
  <2>1. PICK s \in FoundAt(k) : reply' = "HASH_OK" /\ value' = entries[s].value
    BY <1>1 DEF GetFound
  <2>2. value' \in Values
    BY <2>1 DEF FoundAt, Holds, IInv, TypeOK, Entry
  <2>3. TypeOK'
    BY <2>1, <2>2 DEF Get, IInv, TypeOK
  <2> QED
    BY <2>3, NothingStoredKeepsIInv DEF Get
<1>2. CASE GetNotFound(k)
  <2>1. TypeOK'
    BY <1>2 DEF Get, GetNotFound, IInv, TypeOK
  <2> QED
    BY <2>1, NothingStoredKeepsIInv DEF Get
<1> QED
  BY <1>1, <1>2 DEF Get

LEMMA PutKeepsIInv ==
  ASSUME IInv, NEW k \in Keys, NEW v \in Values, Put(k, v)
  PROVE  IInv'
<1>1. CASE PutFull(k)
  <2>1. TypeOK'
    BY <1>1 DEF PutFull, IInv, TypeOK
  <2> QED
    BY <1>1, <2>1, NothingStoredKeepsIInv DEF PutFull
<1>2. CASE PutFails(k)
  <2>1. TypeOK'
    BY <1>2 DEF PutFails, IInv, TypeOK
  <2> QED
    BY <1>2, <2>1, NothingStoredKeepsIInv DEF PutFails
<1> QED
  BY <1>1, <1>2, UpdateKeepsIInv, NewKeepsIInv DEF Put

LEMMA NextIInv == IInv /\ [Next]_vars => IInv'
<1>1. CASE UNCHANGED vars
  BY <1>1, NothingStoredKeepsIInv DEF vars, IInv, TypeOK
<1>2. CASE Next
  BY <1>2, GetKeepsIInv, PutKeepsIInv DEF Next
<1> QED
  BY <1>1, <1>2

(* The inductive invariant: types and chains. *)
THEOREM Invariance == Spec => []IInv
BY InitIInv, NextIInv, PTL DEF Spec

(* The array only ever holds free places and entries of keys and values.    *)
THEOREM TypeCorrect == Spec => []TypeOK
<1>1. IInv => TypeOK
  BY DEF IInv
<1> QED
  BY <1>1, Invariance, PTL

(* A removal may break the chains through its place, and is not in Spec; but  *)
(* whatever is removed and put again, the array holds free places and entries, *)
(* and what a get retrieves is a value.                                     *)
THEOREM TypesWithRemove == SpecWithRemove => []TypeOK
<1>1. Init => TypeOK
  BY DEF Init, TypeOK
<1>2. ASSUME TypeOK, NextOrRemove PROVE TypeOK'
  <2>1. ASSUME NEW k \in Keys, NEW s \in Slots, Holds(s, k) PROVE entries[s] \in Entry
    BY <1>2, <2>1 DEF TypeOK, Holds
  <2>2. ASSUME NEW k \in Keys, NEW v \in Values, Put(k, v) PROVE TypeOK'
    <3>1. CASE PutUpdated(k, v)
      <4>1. PICK s \in Slots : Holds(s, k) /\ entries' = [entries EXCEPT ![s].value = v]
        BY <3>1 DEF PutUpdated, FoundAt
      <4>2. [entries[s] EXCEPT !.value = v] \in Entry
        BY <4>1, <2>1 DEF Entry
      <4> QED
        BY <1>2, <3>1, <4>1, <4>2 DEF TypeOK, PutUpdated
    <3>2. CASE PutNew(k, v)
      <4>1. [key |-> k, value |-> v] \in Entry
        BY DEF Entry
      <4> QED
        BY <1>2, <3>2, <4>1 DEF TypeOK, PutNew, FreeFor
    <3> QED
      BY <1>2, <2>2, <3>1, <3>2 DEF TypeOK, Put, PutFull, PutFails
  <2>3. ASSUME NEW k \in Keys, Get(k) PROVE TypeOK'
    <3>1. CASE GetFound(k)
      <4>1. PICK s \in Slots : Holds(s, k) /\ reply' = "HASH_OK" /\ value' = entries[s].value
        BY <3>1 DEF GetFound, FoundAt
      <4>2. value' \in Values
        BY <4>1, <2>1 DEF Entry
      <4> QED
        BY <1>2, <2>3, <4>1, <4>2 DEF TypeOK, Get
    <3> QED
      BY <1>2, <2>3, <3>1 DEF TypeOK, Get, GetNotFound
  <2>4. ASSUME NEW k \in Keys, Remove(k) PROVE TypeOK'
    BY <1>2, <2>4 DEF TypeOK, Remove, FoundAt
  <2> QED
    BY <1>2, <2>2, <2>3, <2>4 DEF NextOrRemove, Next
<1>3. TypeOK /\ UNCHANGED vars => TypeOK'
  BY DEF TypeOK, vars
<1> QED
  BY <1>1, <1>2, <1>3, PTL DEF SpecWithRemove

(* Puts and gets never leave an entry where the search for its key stops     *)
(* before it, whatever the hash function does.                             *)
THEOREM ChainsStayUnbroken == Spec => []ChainsUnbroken
<1>1. IInv => ChainsUnbroken
  BY DEF IInv
<1> QED
  BY <1>1, Invariance, PTL
-----------------------------------------------------------------------------
(* Arrays in which no two entries have the same key. *)
Arrays == {e \in [Slots -> Entry \cup {NULL}] :
             \A s, t \in Slots : e[s] # NULL /\ e[t] # NULL /\ e[s].key = e[t].key => s = t}

LEMMA IInvArray == IInv => entries \in Arrays
BY DEF IInv, TypeOK, ChainsUnbroken, Arrays, Holds

LEMMA IInvArrayNext == IInv' => entries' \in Arrays
BY DEF IInv, TypeOK, ChainsUnbroken, Arrays, Holds

(* What an array says of a key is what its one entry with the key says.     *)
LEMMA MapOfPlace ==
  ASSUME NEW e \in Arrays, NEW s \in Slots, e[s] # NULL
  PROVE  e[s].key \in PresentIn(e) /\ MapOf(e)[e[s].key] = e[s].value
<1>1. e[s].key \in PresentIn(e)
  BY DEF PresentIn
<1>2. SlotOf(e, e[s].key) = s
  BY DEF SlotOf, Arrays
<1> QED
  BY <1>1, <1>2 DEF MapOf

LEMMA MapOfKey ==
  ASSUME NEW e \in Arrays, NEW k \in PresentIn(e)
  PROVE  \E s \in Slots : e[s] # NULL /\ e[s].key = k /\ MapOf(e)[k] = e[s].value
<1>1. PICK s \in Slots : e[s] # NULL /\ e[s].key = k
  BY DEF PresentIn
<1> QED
  BY <1>1, MapOfPlace

(* The map has as many keys as the array has entries. *)
LEMMA PresentCardinality ==
  ASSUME NEW e \in Arrays
  PROVE  /\ Cardinality(PresentIn(e)) \in Nat
         /\ (\A s \in Slots : e[s] # NULL) => Cardinality(PresentIn(e)) = tbl_size
         /\ (\E s \in Slots : e[s] = NULL) => Cardinality(PresentIn(e)) < tbl_size
<1> DEFINE Used == {s \in Slots : e[s] # NULL}
<1> DEFINE keyOf == [s \in Used |-> e[s].key]
<1>1. IsFiniteSet(Slots) /\ Cardinality(Slots) = tbl_size
  BY FS_Interval, SizeAssumption DEF Slots
<1>2. IsFiniteSet(Used) /\ Cardinality(Used) <= tbl_size
      /\ (Cardinality(Used) = tbl_size => Used = Slots)
  BY <1>1, FS_Subset
<1>3. keyOf \in Bijection(Used, PresentIn(e))
  <2>1. keyOf \in [Used -> PresentIn(e)]
    BY DEF PresentIn
  <2>2. \A s, t \in Used : keyOf[s] = keyOf[t] => s = t
    BY DEF Arrays
  <2>3. \A k \in PresentIn(e) : \E s \in Used : keyOf[s] = k
    BY DEF PresentIn
  <2> QED
    BY <2>1, <2>2, <2>3, Zenon DEF Bijection, Injection, Surjection, IsInjective
<1>4. ExistsBijection(Used, PresentIn(e))
  BY <1>3 DEF ExistsBijection
<1>5. Cardinality(PresentIn(e)) = Cardinality(Used)
  BY <1>2, <1>4, FS_Bijection
<1>6. Cardinality(Used) \in Nat
  BY <1>2, FS_CardinalityType
<1>7. (\A s \in Slots : e[s] # NULL) => Used = Slots
  OBVIOUS
<1>8. (\E s \in Slots : e[s] = NULL) => Used # Slots
  OBVIOUS
<1> HIDE DEF Used
<1> QED
  BY <1>1, <1>2, <1>5, <1>6, <1>7, <1>8, SizeAssumption

(* Storing v for k in an array that has room or has the key changes the map *)
(* in the same way.                                                        *)
LEMMA StoreIsAssoc ==
  ASSUME NEW e \in Arrays, NEW d \in Arrays, NEW s \in Slots, NEW k \in Keys, NEW v \in Values,
         e[s] = NULL \/ e[s].key = k,
         d[s] # NULL, d[s].key = k, d[s].value = v,
         \A t \in Slots \ {s} : d[t] = e[t]
  PROVE  MapOf(d) = Abstract!Assoc(MapOf(e), k, v)
<1> DEFINE m == MapOf(e)
<1> DEFINE new == [x \in PresentIn(e) \cup {k} |-> IF x = k THEN v ELSE m[x]]
<1>1. PresentIn(d) = PresentIn(e) \cup {k}
  <2>1. ASSUME NEW x \in PresentIn(d) PROVE x \in PresentIn(e) \cup {k}
    BY <2>1 DEF PresentIn
  <2>2. ASSUME NEW x \in PresentIn(e) PROVE x \in PresentIn(d)
    BY <2>2 DEF PresentIn
  <2>3. k \in PresentIn(d)
    BY MapOfPlace
  <2> QED
    BY <2>1, <2>2, <2>3
<1>2. ASSUME NEW x \in PresentIn(d) PROVE MapOf(d)[x] = new[x]
  <2>1. PICK t \in Slots : d[t] # NULL /\ d[t].key = x /\ MapOf(d)[x] = d[t].value
    BY MapOfKey
  <2>2. CASE t = s
    BY <2>1, <2>2, <1>1
  <2>3. CASE t # s
    <3>1. e[t] = d[t] /\ x # k
      BY <2>1, <2>3 DEF Arrays
    <3>2. MapOf(e)[x] = e[t].value
      BY <3>1, <2>1, MapOfPlace
    <3> QED
      BY <3>1, <3>2, <2>1, <1>1
  <2> QED
    BY <2>2, <2>3
<1>3. MapOf(d) = [x \in PresentIn(d) |-> MapOf(d)[x]]
  BY DEF MapOf
<1>4. MapOf(d) = new
  BY <1>1, <1>2, <1>3
<1>5. DOMAIN MapOf(e) = PresentIn(e)
  BY DEF MapOf
<1> QED
  BY <1>4, <1>5 DEF Abstract!Assoc
-----------------------------------------------------------------------------
LEMMA DomainOfContents == DOMAIN Contents = PresentIn(entries)
BY DEF Contents, MapOf

LEMMA AbsentFromContents ==
  ASSUME IInv, NEW k \in Keys, \A s \in Slots : ~ Holds(s, k)
  PROVE  k \notin DOMAIN Contents
BY DomainOfContents DEF PresentIn, Holds

(* The map counts as the table does. *)
LEMMA SameCardinality == \A S : Abstract!Cardinality(S) = Cardinality(S)
BY DEF Abstract!Cardinality, Cardinality

LEMMA InitRefines == Init => Abstract!Init
<1>1. SUFFICES ASSUME Init PROVE Contents = Abstract!EmptyMap
  BY DEF Init, Abstract!Init
<1>2. PresentIn(entries) = {}
  BY <1>1 DEF Init, PresentIn
<1> QED
  BY <1>2 DEF Contents, MapOf, Abstract!EmptyMap

LEMMA UpdateRefines ==
  ASSUME IInv, IInv', NEW k \in Keys, NEW v \in Values, usable, PutUpdated(k, v)
  PROVE  Abstract!Put(k, v)
<1>1. PICK s \in FoundAt(k) : entries' = [entries EXCEPT ![s].value = v]
  BY DEF PutUpdated
<1>2. s \in Slots /\ Holds(s, k) /\ entries[s] \in Entry
  BY <1>1 DEF FoundAt, Holds, IInv, TypeOK
<1>3. entries'[s] = [entries[s] EXCEPT !.value = v]
  BY <1>1, <1>2 DEF IInv, TypeOK
<1>4. entries'[s].key = k /\ entries'[s].value = v /\ entries'[s] # NULL
  BY <1>2, <1>3, NullAssumption DEF Holds, Entry
<1>5. \A t \in Slots \ {s} : entries'[t] = entries[t]
  BY <1>1, <1>2 DEF IInv, TypeOK
<1>6. Contents' = Abstract!Assoc(Contents, k, v)
  BY <1>2, <1>4, <1>5, StoreIsAssoc, IInvArray, IInvArrayNext DEF Contents, Holds
<1>7. k \in DOMAIN Contents
  BY <1>2, DomainOfContents, MapOfPlace, IInvArray DEF Holds
<1> QED
  BY <1>6, <1>7 DEF PutUpdated, Abstract!Put, Abstract!PutReplies, Abstract!Accepted

LEMMA NewRefines ==
  ASSUME IInv, IInv', NEW k \in Keys, NEW v \in Values, usable, PutNew(k, v)
  PROVE  Abstract!Put(k, v)
<1>1. PICK s \in FreeFor(k) : entries' = [entries EXCEPT ![s] = [key |-> k, value |-> v]]
  BY DEF PutNew
<1>2. s \in Slots /\ entries[s] = NULL
  BY <1>1 DEF FreeFor
<1>3. entries'[s] = [key |-> k, value |-> v]
  BY <1>1, <1>2 DEF IInv, TypeOK
<1>4. entries'[s].key = k /\ entries'[s].value = v /\ entries'[s] # NULL
  BY <1>3, NullAssumption DEF Entry
<1>5. \A t \in Slots \ {s} : entries'[t] = entries[t]
  BY <1>1, <1>2 DEF IInv, TypeOK
<1>6. Contents' = Abstract!Assoc(Contents, k, v)
  BY <1>2, <1>4, <1>5, StoreIsAssoc, IInvArray, IInvArrayNext DEF Contents
<1>7. k \notin DOMAIN Contents
  BY <1>1, FreeMeansAbsent, AbsentFromContents
<1>8. Cardinality(DOMAIN Contents) < tbl_size
  BY <1>2, DomainOfContents, PresentCardinality, IInvArray
<1>9. reply' = "HASH_OK" /\ UNCHANGED <<value, usable>>
  BY DEF PutNew
<1>10. reply' \in Abstract!PutReplies(Contents, tbl_size, k) /\ reply' \in Abstract!Accepted
  BY <1>7, <1>8, <1>9, SameCardinality DEF Abstract!PutReplies, Abstract!Accepted
<1>11. usable' = (reply' # "HASH_FAIL")
  BY <1>9 DEF IInv, TypeOK
<1> QED
  BY <1>6, <1>9, <1>10, <1>11 DEF Abstract!Put

LEMMA FullRefines ==
  ASSUME IInv, NEW k \in Keys, NEW v \in Values, usable, PutFull(k)
  PROVE  Abstract!Put(k, v)
<1>1. \A s \in Slots : entries[s] # NULL
  BY NowhereMeansFull DEF PutFull
<1>2. ~ (Cardinality(DOMAIN Contents) < tbl_size)
  BY <1>1, DomainOfContents, PresentCardinality, IInvArray, SizeAssumption
<1>3. k \notin DOMAIN Contents
  BY FoundWherePresent, AbsentFromContents DEF PutFull
<1>4. Contents' = Contents
  BY DEF PutFull, Contents
<1>5. reply' = "HASH_FULL" /\ UNCHANGED <<value, usable>>
  BY DEF PutFull
<1>6. reply' \in Abstract!PutReplies(Contents, tbl_size, k) /\ reply' \notin Abstract!Accepted
  BY <1>2, <1>3, <1>5, SameCardinality DEF Abstract!PutReplies, Abstract!Accepted
<1>7. usable' = (reply' # "HASH_FAIL")
  BY <1>5 DEF IInv, TypeOK
<1> QED
  BY <1>4, <1>5, <1>6, <1>7 DEF Abstract!Put

LEMMA FailureRefines ==
  ASSUME IInv, NEW k \in Keys, NEW v \in Values, usable, PutFails(k)
  PROVE  Abstract!Put(k, v)
<1>1. k \notin DOMAIN Contents
  BY FreeMeansAbsent, AbsentFromContents DEF PutFails
<1>2. Cardinality(DOMAIN Contents) < tbl_size
  BY DomainOfContents, PresentCardinality, IInvArray DEF PutFails, FreeFor
<1>3. Contents' = Contents
  BY DEF PutFails, Contents
<1>4. reply' = "HASH_FAIL" /\ usable' = FALSE /\ UNCHANGED value
  BY DEF PutFails
<1>5. reply' \in Abstract!PutReplies(Contents, tbl_size, k) /\ reply' \notin Abstract!Accepted
  BY <1>1, <1>2, <1>4, SameCardinality DEF Abstract!PutReplies, Abstract!Accepted
<1>6. usable' = (reply' # "HASH_FAIL")
  BY <1>4
<1> QED
  BY <1>3, <1>4, <1>5, <1>6 DEF Abstract!Put

LEMMA GetRefines ==
  ASSUME IInv, NEW k \in Keys, Get(k)
  PROVE  Abstract!Get(k)
<1>1. Contents' = Contents
  BY DEF Get, Contents
<1>2. CASE GetFound(k)
  <2>1. PICK s \in FoundAt(k) : reply' = "HASH_OK" /\ value' = entries[s].value
    BY <1>2 DEF GetFound
  <2>2. s \in Slots /\ entries[s] # NULL /\ entries[s].key = k
    BY <2>1 DEF FoundAt, Holds
  <2>3. k \in DOMAIN Contents /\ Contents[k] = entries[s].value
    BY <2>2, DomainOfContents, MapOfPlace, IInvArray DEF Contents
  <2> QED
    BY <1>1, <2>1, <2>3 DEF Get, Abstract!Get
<1>3. CASE GetNotFound(k)
  <2>1. k \notin DOMAIN Contents
    BY <1>3, FoundWherePresent, AbsentFromContents DEF GetNotFound
  <2> QED
    BY <1>1, <1>3, <2>1 DEF Get, GetNotFound, Abstract!Get
<1> QED
  BY <1>2, <1>3 DEF Get

LEMMA NextRefines == IInv /\ IInv' /\ [Next]_vars => [Abstract!Next]_(Abstract!vars)
<1>1. CASE UNCHANGED vars
  BY <1>1 DEF vars, Abstract!vars, Contents
<1>2. ASSUME IInv, IInv', NEW k \in Keys, NEW v \in Values, Put(k, v)
      PROVE  Abstract!Next
  BY <1>2, UpdateRefines, NewRefines, FullRefines, FailureRefines DEF Put, Abstract!Next
<1>3. ASSUME IInv, NEW k \in Keys, Get(k)
      PROVE  Abstract!Next
  BY <1>3, GetRefines DEF Abstract!Next
<1> QED
  BY <1>1, <1>2, <1>3 DEF Next

(* The table implements the map, for any number of keys and places and any   *)
(* hash function: each call of put and get replies, and changes what the    *)
(* table holds, as the same call of the map does.                          *)
THEOREM TableIsMap == Spec => ImplementsBoundedMap
<1>1. Spec => Abstract!Init
  BY InitRefines DEF Spec
<1>2. Spec => [][Abstract!Next]_(Abstract!vars)
  BY Invariance, NextRefines, PTL DEF Spec
<1> QED
  BY <1>1, <1>2 DEF ImplementsBoundedMap, Abstract!Spec
=============================================================================
