--------------------------- MODULE WuManberProofs ---------------------------
(***************************************************************************)
(* Proofs about WuManber: IInv is inductive, so for every alphabet, every   *)
(* list of up to WM_MAXPAT patterns and every text the tables are sound,    *)
(* the search skips nothing and what it reports is the first occurrence.    *)
(***************************************************************************)
EXTENDS WuManber, SequenceTheorems, TLAPS

(* What the assumptions say of one list of patterns. *)
LEMMA PatternFacts ==
  ASSUME patterns \in PatternLists
  PROVE  /\ count \in 1 .. WM_MAXPAT
         /\ DOMAIN patterns = 1 .. count
         /\ \A id \in Ids : /\ Pattern(id) \in Seq(Char)
                            /\ Len(Pattern(id)) \in Nat
                            /\ Len(Pattern(id)) >= WM_B
                            /\ \A n \in 0 .. Len(Pattern(id)) - 1 : PatternChar(id, n) \in Char
<1>1. /\ patterns \in Seq(Seq(Char))
      /\ count \in 1 .. WM_MAXPAT
      /\ \A n \in DOMAIN patterns : Len(patterns[n]) >= WM_B
  BY PatternsAssumption DEF count
<1>2. DOMAIN patterns = 1 .. count
  BY <1>1 DEF count
<1>3. ASSUME NEW id \in Ids
      PROVE  /\ Pattern(id) \in Seq(Char)
             /\ Len(Pattern(id)) \in Nat
             /\ Len(Pattern(id)) >= WM_B
  BY <1>1, <1>2 DEF Ids, Pattern, WM_MAXPAT
<1>4. ASSUME NEW id \in Ids, NEW n \in 0 .. Len(Pattern(id)) - 1
      PROVE  PatternChar(id, n) \in Char
  <2>1. n + 1 \in 1 .. Len(Pattern(id))
    BY <1>3
  <2>. QED
    BY <1>3, <2>1 DEF Pattern, PatternChar
<1>. QED
  BY <1>1, <1>2, <1>3, <1>4

LEMMA NumberFacts ==
  ASSUME IInv
  PROVE  /\ patterns \in PatternLists
         /\ count \in Nat /\ count > 0
         /\ i \in Nat /\ j \in Nat /\ len_shortest \in Nat /\ pos \in Nat /\ k \in Nat
         /\ i <= count
         /\ len_shortest >= 2
<1>1. patterns \in PatternLists
  BY DEF IInv, TypeOK
<1>2. count \in 1 .. 64
  BY <1>1, PatternFacts DEF WM_MAXPAT
<1>. QED
  BY <1>1, <1>2 DEF IInv, TypeOK, LoopInv, WM_B

(* The loops start in a state that satisfies the invariant. *)
LEMMA InitInv == Init => IInv
<1>. SUFFICES ASSUME Init PROVE IInv
  OBVIOUS
<1>. USE DEF Init
<1>f. /\ count \in 1 .. 64
      /\ DOMAIN patterns = 1 .. count
      /\ \A id \in Ids : Len(Pattern(id)) \in Nat /\ Len(Pattern(id)) >= WM_B
  BY PatternFacts DEF WM_MAXPAT
<1>. USE <1>f
<1>0. 0 \in Ids /\ Pattern(0) = patterns[1] /\ len_shortest \in Nat
  BY DEF Ids, Pattern, WM_MAXPAT
<1>1. TypeOK
  BY <1>0 DEF TypeOK, EmptyMap, NoResult, WM_MAXPAT
<1>2. LoopInv
  BY <1>0 DEF LoopInv, Ids, Searching, WM_B, WM_MAXPAT
<1>3. TableComplete /\ TableSound /\ ScanInv
  BY DEF TableComplete, Filling, Searching, TableSound, ScanInv, EmptyMap
<1>4. NothingSkipped /\ ReportsFirst /\ NoMatchIsTrue
  BY DEF NothingSkipped, ReportsFirst, NoMatchIsTrue
<1>. QED
  BY <1>1, <1>2, <1>3, <1>4 DEF IInv

(* The first loop: len_shortest stays below the patterns it has seen. *)
LEMMA MeasureInv == IInv /\ Measure => IInv'
<1>. SUFFICES ASSUME IInv, Measure PROVE IInv'
  OBVIOUS
<1>0. patterns \in PatternLists /\ i < count /\ pc = "measure"
  BY DEF IInv, TypeOK, Measure
<1>. USE PatternFacts, <1>0 DEF IInv, Measure
<1>1. TypeOK'
  BY DEF TypeOK, MinOf, Ids, Entry, count, Pattern
<1>2. LoopInv'
  <2>1. i \in Ids /\ i \in 1 .. count
    BY DEF TypeOK, LoopInv, Ids
  <2>. QED
    BY <2>1 DEF TypeOK, LoopInv, MinOf, Ids, Pattern, count, Searching, WM_B
<1>3. TableComplete' /\ TableSound' /\ ScanInv'
  BY DEF TableComplete, Filling, Searching, TableSound, ScanInv, EmptyMap
<1>4. NothingSkipped' /\ ReportsFirst' /\ NoMatchIsTrue'
  <2>1. ret' \notin {"REG_OK", "REG_NOMATCH"}
    BY DEF LoopInv
  <2>. QED
    BY <2>1 DEF NothingSkipped, ReportsFirst, NoMatchIsTrue
<1>. QED
  BY <1>1, <1>2, <1>3, <1>4 DEF IInv

(* An allocation fails, or the filling of the empty table begins. *)
LEMMA CreateTableInv == IInv /\ CreateTable => IInv'
<1>. SUFFICES ASSUME IInv, CreateTable PROVE IInv'
  OBVIOUS
<1>0. /\ pc = "measure" /\ pc' \in {"fill", "failed"} /\ i = count
      /\ count \in Nat /\ count > 0 /\ j = 0 /\ j' = 0 /\ len_shortest \in Nat /\ len_shortest >= 2
  BY NumberFacts DEF IInv, LoopInv, CreateTable, GiveUp
<1>. USE <1>0 DEF IInv, CreateTable, GiveUp
<1>1. TypeOK'
  BY DEF TypeOK, Entry, Ids, count
<1>2. LoopInv'
  <2>1. \A id \in Ids : len_shortest <= Len(Pattern(id))
    BY DEF LoopInv, Ids
  <2>2. ret' \notin {"REG_OK", "REG_NOMATCH"}
    BY DEF LoopInv
  <2>3. Ids' = Ids /\ count' = count /\ \A id \in Ids : Pattern(id)' = Pattern(id)
    BY DEF Ids, count, Pattern
  <2>. QED
    BY <2>1, <2>2, <2>3 DEF LoopInv, Searching, WM_B
<1>3. TableComplete' /\ TableSound' /\ ScanInv'
  <2>1. shift' = EmptyMap
    BY DEF ScanInv
  <2>2. pc' = "fill" => i' = 0 /\ j' = 0
    BY DEF TypeOK, LoopInv
  <2>3. TableComplete'
    BY <2>2 DEF TableComplete, Filling, Searching, Entered, Ids
  <2>. QED
    BY <2>1, <2>3 DEF TableSound, ScanInv, EmptyMap
<1>4. NothingSkipped' /\ ReportsFirst' /\ NoMatchIsTrue'
  BY DEF NothingSkipped, ReportsFirst, NoMatchIsTrue, LoopInv
<1>. QED
  BY <1>1, <1>2, <1>3, <1>4 DEF IInv

(* The inner loop of wm_compile is over: the next pattern. *)
LEMMA NextPatternInv == IInv /\ NextPattern => IInv'
<1>. SUFFICES ASSUME IInv, NextPattern PROVE IInv'
  OBVIOUS
<1>a. j <= len_shortest - WM_B + 1
  BY DEF IInv, LoopInv, NextPattern
<1>0. pc = "fill" /\ pc' = "fill" /\ i \in Nat /\ j \in Nat /\ count \in Nat /\ len_shortest \in Nat
      /\ j = len_shortest - WM_B + 1 /\ i < count /\ i' = i + 1 /\ j' = 0 /\ patterns \in PatternLists
  BY <1>a, NumberFacts DEF NextPattern, WM_B
<1>. USE <1>0 DEF IInv, NextPattern
<1>1. TypeOK'
  BY DEF TypeOK, Entry, Ids, count
<1>2. LoopInv'
  BY DEF TypeOK, LoopInv, Ids, Pattern, count, Searching, WM_B
<1>3. ASSUME NEW id \in Ids, NEW n \in 0 .. len_shortest - WM_B
      PROVE  Entered(id, n)' <=> Entered(id, n)
  BY DEF Entered, Ids, WM_B
<1>4. TableComplete'
  <2>1. \A id \in Ids, n \in 0 .. len_shortest - WM_B : PatternChar(id, n)' = PatternChar(id, n)
    BY DEF PatternChar
  <2>. QED
    BY <1>3, <2>1 DEF TableComplete, Filling, Searching, Ids, count
<1>5. TableSound'
  <2>1. ASSUME NEW c \in DOMAIN shift
        PROVE  shift[c].prefix_list \in Seq(Ids) /\ shift[c].suffix_list \in Seq(Ids)
    BY DEF TypeOK, Entry
  <2>2. 0 \in 0 .. len_shortest - WM_B /\ len_shortest - WM_B \in 0 .. len_shortest - WM_B
    BY DEF LoopInv, WM_B
  <2>. QED
    BY <1>3, <2>1, <2>2 DEF TableSound, IdList, StrictlyIncreasing
<1>6. ScanInv' /\ NothingSkipped' /\ ReportsFirst' /\ NoMatchIsTrue'
  BY DEF ScanInv, NothingSkipped, ReportsFirst, NoMatchIsTrue, LoopInv
<1>. QED
  BY <1>1, <1>2, <1>4, <1>5, <1>6 DEF IInv

(* The search begins with the window at the start of the text. *)
LEMMA ExecuteInv == IInv /\ Execute => IInv'
<1>. SUFFICES ASSUME IInv, Execute PROVE IInv'
  OBVIOUS
<1>0. pc = "fill" /\ pc' = "search" /\ i = count /\ count \in Nat /\ len_shortest \in Nat
      /\ pos' = len_shortest
  BY PatternFacts DEF IInv, TypeOK, Execute, Compiled, WM_MAXPAT
<1>. USE <1>0 DEF IInv, Execute, comp
<1>1. TypeOK'
  BY TextsAssumption DEF TypeOK, Entry, Ids, count
<1>2. LoopInv'
  BY DEF TypeOK, LoopInv, Ids, Pattern, count, Searching, WM_B
<1>3. TableComplete'
  <2>1. \A id \in Ids, n \in 0 .. len_shortest - WM_B :
          /\ PatternChar(id, n)' = PatternChar(id, n)
          /\ Entered(id, n)' <=> Entered(id, n)
    BY DEF PatternChar, Entered
  <2>. QED
    BY <2>1 DEF TableComplete, Filling, Searching, Ids, count
<1>4. TableSound'
  BY DEF TableSound, IdList, StrictlyIncreasing
<1>5. ScanInv' /\ ReportsFirst' /\ NoMatchIsTrue'
  BY DEF ScanInv, ReportsFirst, NoMatchIsTrue, LoopInv
<1>6. NothingSkipped'
  <2>1. (0 .. pos - len_shortest - 1)' = {}
    OBVIOUS
  <2>. QED
    BY <2>1 DEF NothingSkipped
<1>. QED
  BY <1>1, <1>2, <1>3, <1>4, <1>5, <1>6 DEF IInv

(* Appending an id greater than all others keeps a list of ids one. *)
LEMMA AppendIdList ==
  ASSUME NEW s \in Seq(Nat), NEW v \in Nat, IdList(s), \A x \in DOMAIN s : s[x] < v
  PROVE  /\ IdList(Append(s, v))
         /\ \A x \in DOMAIN s : x \in DOMAIN Append(s, v) /\ Append(s, v)[x] = s[x]
         /\ \A x \in DOMAIN Append(s, v) : x \in DOMAIN s \/ Append(s, v)[x] = v
         /\ \E x \in DOMAIN Append(s, v) : Append(s, v)[x] = v
<1> DEFINE t == Append(s, v)
<1>1. /\ t \in Seq(Nat)
      /\ DOMAIN s = 1 .. Len(s) /\ DOMAIN t = 1 .. Len(s) + 1 /\ Len(s) \in Nat
      /\ \A x \in 1 .. Len(s) : t[x] = s[x] /\ s[x] \in Nat
      /\ t[Len(s) + 1] = v
  OBVIOUS
<1>2. Len(s) <= v
  <2>1. CASE Len(s) = 0
    BY <2>1
  <2>2. CASE Len(s) > 0
    <3>1. Len(s) \in DOMAIN s
      BY <1>1, <2>2
    <3>. QED
      BY <1>1, <3>1 DEF IdList
  <2>. QED
    BY <1>1, <2>1, <2>2
<1>. HIDE DEF t
<1>3. StrictlyIncreasing(t)
  <2>1. ASSUME NEW a \in 1 .. Len(s) + 1, NEW b \in 1 .. Len(s) + 1, a < b
        PROVE  t[a] < t[b]
    <3>1. a \in 1 .. Len(s) /\ t[a] = s[a] /\ s[a] < v
      <4>1. a \in 1 .. Len(s)
        BY <1>1, <2>1
      <4>. QED
        BY <1>1, <4>1
    <3>2. CASE b \in 1 .. Len(s)
      BY <1>1, <2>1, <3>1, <3>2 DEF IdList, StrictlyIncreasing
    <3>3. CASE b = Len(s) + 1
      BY <1>1, <3>1, <3>3
    <3>. QED
      BY <1>1, <3>2, <3>3
  <2>. QED
    BY <1>1, <2>1 DEF StrictlyIncreasing
<1>4. \A x \in DOMAIN t : x <= t[x] + 1
  <2>1. ASSUME NEW x \in 1 .. Len(s) PROVE x <= t[x] + 1
    BY <1>1 DEF IdList
  <2>. QED
    BY <1>1, <1>2, <2>1
<1>5. /\ \A x \in DOMAIN s : x \in DOMAIN t /\ t[x] = s[x]
      /\ \A x \in DOMAIN t : x \in DOMAIN s \/ t[x] = v
      /\ Len(s) + 1 \in DOMAIN t
  BY <1>1
<1>. QED
  BY <1>1, <1>3, <1>4, <1>5 DEF t, IdList

(* The state in which a character is put into the table. *)
Putting == IInv /\ pc = "fill" /\ i < count /\ j <= len_shortest - WM_B

(* The entry a character has before the put, if any, and after it. *)
OldPrefixes(c) == IF c \in DOMAIN shift THEN shift[c].prefix_list ELSE <<>>
OldSuffixes(c) == IF c \in DOMAIN shift THEN shift[c].suffix_list ELSE <<>>

LEMMA NewEntryFacts ==
  ASSUME Putting, NEW c, NEW e, e = NewEntry(c)
  PROVE  /\ e \in Entry
         /\ e.shift <= len_shortest - WM_B - j
         /\ c \in DOMAIN shift => e.shift <= shift[c].shift
         /\ e.prefix_list = IF j = 0 THEN Append(OldPrefixes(c), i) ELSE OldPrefixes(c)
         /\ e.suffix_list = IF j # 0 /\ j = len_shortest - WM_B
                            THEN Append(OldSuffixes(c), i) ELSE OldSuffixes(c)
<1>0. /\ i \in Ids /\ j \in Nat /\ len_shortest - WM_B - j \in Nat
      /\ c \in DOMAIN shift => shift[c] \in Entry
  BY NumberFacts DEF Putting, Ids, WM_B, IInv, TypeOK
<1> DEFINE s == len_shortest - WM_B - j
           old == IF c \in DOMAIN shift
                  THEN [shift[c] EXCEPT !.shift = MinOf(@, s)]
                  ELSE FreshEntry(s)
<1>1. /\ old \in Entry
      /\ old.shift <= s
      /\ c \in DOMAIN shift => old.shift <= shift[c].shift
      /\ old.prefix_list = OldPrefixes(c)
      /\ old.suffix_list = OldSuffixes(c)
  <2>1. CASE c \in DOMAIN shift
    <3>1. shift[c].shift \in Nat
      BY <1>0, <2>1 DEF Entry
    <3>. QED
      BY <1>0, <2>1, <3>1 DEF Entry, MinOf, OldPrefixes, OldSuffixes
  <2>2. CASE c \notin DOMAIN shift
    BY <1>0, <2>2 DEF Entry, FreshEntry, OldPrefixes, OldSuffixes
  <2>. QED
    BY <2>1, <2>2
<1>2. e = IF j = 0 THEN [old EXCEPT !.prefix_list = Append(@, i)]
          ELSE IF j = len_shortest - WM_B
          THEN [old EXCEPT !.suffix_list = Append(@, i)]
          ELSE old
  BY DEF NewEntry
<1>. HIDE DEF s, old
<1>3. old.prefix_list \in Seq(Ids) /\ old.suffix_list \in Seq(Ids)
  BY <1>1 DEF Entry
<1>4. Append(old.prefix_list, i) \in Seq(Ids) /\ Append(old.suffix_list, i) \in Seq(Ids)
  BY <1>0, <1>3
<1>5. /\ e \in Entry /\ e.shift = old.shift
      /\ e.prefix_list = IF j = 0 THEN Append(OldPrefixes(c), i) ELSE OldPrefixes(c)
      /\ e.suffix_list = IF j # 0 /\ j = len_shortest - WM_B
                         THEN Append(OldSuffixes(c), i) ELSE OldSuffixes(c)
  <2>1. CASE j = 0
    BY <1>1, <1>2, <1>4, <2>1 DEF Entry
  <2>2. CASE j # 0 /\ j = len_shortest - WM_B
    <3>1. e = [old EXCEPT !.suffix_list = Append(@, i)]
      BY <1>2, <2>2
    <3>. QED
      BY <1>1, <1>4, <2>2, <3>1 DEF Entry
  <2>3. CASE j # 0 /\ j # len_shortest - WM_B
    <3>1. e = old
      BY <1>2, <2>3
    <3>. QED
      BY <1>1, <2>3, <3>1
  <2>. QED
    BY <2>1, <2>2, <2>3
<1>6. s = len_shortest - WM_B - j
  BY DEF s
<1>7. e.shift <= len_shortest - WM_B - j /\ (c \in DOMAIN shift => e.shift <= shift[c].shift)
  BY <1>1, <1>5, <1>6
<1>. QED
  BY <1>5, <1>7

LEMMA OldListFacts ==
  ASSUME Putting, NEW c
  PROVE  /\ OldPrefixes(c) \in Seq(Nat) /\ OldSuffixes(c) \in Seq(Nat)
         /\ IdList(OldPrefixes(c)) /\ IdList(OldSuffixes(c))
         /\ \A x \in DOMAIN OldPrefixes(c) : Entered(OldPrefixes(c)[x], 0)
         /\ \A x \in DOMAIN OldSuffixes(c) : Entered(OldSuffixes(c)[x], len_shortest - WM_B)
<1>1. CASE c \in DOMAIN shift
  <2>1. shift[c].prefix_list \in Seq(Ids) /\ shift[c].suffix_list \in Seq(Ids)
    BY <1>1 DEF Putting, IInv, TypeOK, Entry
  <2>2. Ids \subseteq Nat
    BY NumberFacts DEF Putting, Ids
  <2>3. shift[c].prefix_list \in Seq(Nat) /\ shift[c].suffix_list \in Seq(Nat)
    BY <2>1, <2>2, SeqMonotonic
  <2>. QED
    BY <1>1, <2>3 DEF Putting, IInv, TableSound, OldPrefixes, OldSuffixes
<1>2. CASE c \notin DOMAIN shift
  BY <1>2 DEF OldPrefixes, OldSuffixes, IdList, StrictlyIncreasing
<1>. QED
  BY <1>1, <1>2

(* Entered as it is once the loop variable j has been increased. *)
NowEntered(id, n) == id < i \/ (id = i /\ n < j + 1)

(* The new entry keeps the ids of the old one and is sound for the next j. *)
LEMMA NewListFacts ==
  ASSUME Putting, NEW c, NEW e, e = NewEntry(c)
  PROVE  /\ IdList(e.prefix_list) /\ IdList(e.suffix_list)
         /\ \A x \in DOMAIN e.prefix_list : NowEntered(e.prefix_list[x], 0)
         /\ \A x \in DOMAIN e.suffix_list : NowEntered(e.suffix_list[x], len_shortest - WM_B)
         /\ \A x \in DOMAIN OldPrefixes(c) :
              x \in DOMAIN e.prefix_list /\ e.prefix_list[x] = OldPrefixes(c)[x]
         /\ \A x \in DOMAIN OldSuffixes(c) :
              x \in DOMAIN e.suffix_list /\ e.suffix_list[x] = OldSuffixes(c)[x]
         /\ j = 0 => \E x \in DOMAIN e.prefix_list : e.prefix_list[x] = i
         /\ j # 0 /\ j = len_shortest - WM_B =>
              \E x \in DOMAIN e.suffix_list : e.suffix_list[x] = i
<1> DEFINE p == OldPrefixes(c)
           q == OldSuffixes(c)
           last == len_shortest - WM_B
<1>0. /\ i \in Nat /\ j \in Nat /\ last \in Nat /\ j <= last
      /\ e.prefix_list = IF j = 0 THEN Append(p, i) ELSE p
      /\ e.suffix_list = IF j # 0 /\ j = last THEN Append(q, i) ELSE q
  BY NumberFacts, NewEntryFacts DEF Putting, WM_B
<1>1. /\ p \in Seq(Nat) /\ q \in Seq(Nat) /\ IdList(p) /\ IdList(q)
      /\ \A x \in DOMAIN p : Entered(p[x], 0)
      /\ \A x \in DOMAIN q : Entered(q[x], last)
  BY OldListFacts
<1>2. /\ DOMAIN p = 1 .. Len(p) /\ \A x \in DOMAIN p : p[x] \in Nat
      /\ DOMAIN q = 1 .. Len(q) /\ \A x \in DOMAIN q : q[x] \in Nat
  BY <1>1
<1>. HIDE DEF p, q, last
<1>3. /\ \A x \in DOMAIN p : NowEntered(p[x], 0)
      /\ \A x \in DOMAIN q : NowEntered(q[x], last)
  BY <1>0, <1>1, <1>2 DEF Entered, NowEntered
<1>4. /\ IdList(e.prefix_list)
      /\ \A x \in DOMAIN e.prefix_list : NowEntered(e.prefix_list[x], 0)
      /\ \A x \in DOMAIN p : x \in DOMAIN e.prefix_list /\ e.prefix_list[x] = p[x]
      /\ j = 0 => \E x \in DOMAIN e.prefix_list : e.prefix_list[x] = i
  <2>1. CASE j = 0
    <3>1. \A x \in DOMAIN p : p[x] < i
      BY <1>0, <1>1, <1>2, <2>1 DEF Entered
    <3>2. e.prefix_list = Append(p, i)
      BY <1>0, <2>1
    <3>3. /\ IdList(Append(p, i))
          /\ \A x \in DOMAIN p : x \in DOMAIN Append(p, i) /\ Append(p, i)[x] = p[x]
          /\ \A x \in DOMAIN Append(p, i) : x \in DOMAIN p \/ Append(p, i)[x] = i
          /\ \E x \in DOMAIN Append(p, i) : Append(p, i)[x] = i
      BY <1>0, <1>1, <3>1, AppendIdList
    <3>4. NowEntered(i, 0)
      BY <1>0 DEF NowEntered
    <3>. QED
      BY <1>3, <3>2, <3>3, <3>4
  <2>2. CASE j # 0
    BY <1>0, <1>1, <1>3, <2>2
  <2>. QED
    BY <2>1, <2>2
<1>5. /\ IdList(e.suffix_list)
      /\ \A x \in DOMAIN e.suffix_list : NowEntered(e.suffix_list[x], last)
      /\ \A x \in DOMAIN q : x \in DOMAIN e.suffix_list /\ e.suffix_list[x] = q[x]
      /\ j # 0 /\ j = last => \E x \in DOMAIN e.suffix_list : e.suffix_list[x] = i
  <2>1. CASE j # 0 /\ j = last
    <3>1. \A x \in DOMAIN q : q[x] < i
      BY <1>0, <1>1, <1>2, <2>1 DEF Entered
    <3>2. e.suffix_list = Append(q, i)
      BY <1>0, <2>1
    <3>3. /\ IdList(Append(q, i))
          /\ \A x \in DOMAIN q : x \in DOMAIN Append(q, i) /\ Append(q, i)[x] = q[x]
          /\ \A x \in DOMAIN Append(q, i) : x \in DOMAIN q \/ Append(q, i)[x] = i
          /\ \E x \in DOMAIN Append(q, i) : Append(q, i)[x] = i
      BY <1>0, <1>1, <3>1, AppendIdList
    <3>4. NowEntered(i, last)
      BY <1>0, <2>1 DEF NowEntered
    <3>. QED
      BY <1>3, <3>2, <3>3, <3>4
  <2>2. CASE ~ (j # 0 /\ j = last)
    <3>1. e.suffix_list = q
      BY <1>0, <2>2
    <3>. QED
      BY <1>1, <1>3, <2>2, <3>1
  <2>. QED
    BY <2>1, <2>2
<1>. QED
  BY <1>4, <1>5 DEF p, q, last

(* One put: an accepted one extends the table, another one ends the call. *)
LEMMA FillCharInv == IInv /\ FillChar => IInv'
<1>. SUFFICES ASSUME IInv, FillChar PROVE IInv'
  OBVIOUS
<1> DEFINE c == PatternChar(i, j)
           e == NewEntry(c)
           last == len_shortest - WM_B
<1>0. /\ pc = "fill" /\ i < count /\ j <= last
      /\ i \in Nat /\ j \in Nat /\ count \in Nat /\ last \in Nat /\ len_shortest \in Nat
      /\ patterns \in PatternLists
      /\ UNCHANGED <<patterns, i, len_shortest, text, pos, k, result>>
      /\ ret \notin {"REG_OK", "REG_NOMATCH"}
  BY NumberFacts DEF FillChar, WM_B, IInv, LoopInv
<1>1. Putting /\ i \in Ids /\ j \in 0 .. Len(Pattern(i)) - 1 /\ c \in Char
  <2>1. i \in Ids /\ len_shortest <= Len(Pattern(i)) /\ Len(Pattern(i)) \in Nat
    BY <1>0, PatternFacts DEF Ids, IInv, LoopInv
  <2>2. j \in 0 .. Len(Pattern(i)) - 1
    BY <1>0, <2>1 DEF WM_B
  <2>. QED
    BY <1>0, <2>1, <2>2, PatternFacts DEF Putting
<1>2. /\ put_ret' \in {"HASH_OK", "HASH_UPDATED", "HASH_FULL", "HASH_FAIL"}
      /\ \/ put_ret' \in Accepted /\ shift' = Assoc(shift, c, e) /\ j' = j + 1 /\ UNCHANGED <<pc, ret>>
         \/ pc' = "failed" /\ ret' = "REG_BADPAT" /\ UNCHANGED <<shift, j>>
  BY DEF FillChar, GiveUp, PutReplies
<1>3. /\ \A id \in Ids : Pattern(id)' = Pattern(id)
      /\ \A id, n : PatternChar(id, n)' = PatternChar(id, n)
      /\ Ids' = Ids /\ count' = count /\ last' = last
  BY <1>0 DEF Pattern, PatternChar, Ids, count
<1>4. CASE pc' = "failed" /\ ret' = "REG_BADPAT" /\ UNCHANGED <<shift, j>>
  <2>1. TypeOK'
    BY <1>0, <1>2, <1>3, <1>4 DEF IInv, TypeOK, Entry
  <2>2. LoopInv'
    BY <1>0, <1>3, <1>4 DEF IInv, LoopInv, Searching
  <2>3. TableComplete' /\ ScanInv'
    BY <1>4 DEF TableComplete, ScanInv, Filling, Searching
  <2>4. TableSound'
    BY <1>0, <1>4 DEF IInv, TableSound, IdList, StrictlyIncreasing
  <2>5. NothingSkipped' /\ ReportsFirst' /\ NoMatchIsTrue'
    BY <1>4 DEF NothingSkipped, ReportsFirst, NoMatchIsTrue
  <2>. QED
    BY <2>1, <2>2, <2>3, <2>4, <2>5 DEF IInv
<1>5. CASE shift' = Assoc(shift, c, e) /\ j' = j + 1 /\ UNCHANGED <<pc, ret>>
  <2>1. /\ DOMAIN shift' = DOMAIN shift \cup {c}
        /\ shift'[c] = e
        /\ \A x \in DOMAIN shift : x # c => shift'[x] = shift[x]
    BY <1>5 DEF Assoc
  <2>2. /\ e \in Entry
        /\ e.shift <= last - j
        /\ c \in DOMAIN shift => e.shift <= shift[c].shift
    BY <1>1, NewEntryFacts
  <2>3. /\ IdList(e.prefix_list) /\ IdList(e.suffix_list)
        /\ \A x \in DOMAIN e.prefix_list : NowEntered(e.prefix_list[x], 0)
        /\ \A x \in DOMAIN e.suffix_list : NowEntered(e.suffix_list[x], last)
        /\ \A x \in DOMAIN OldPrefixes(c) :
             x \in DOMAIN e.prefix_list /\ e.prefix_list[x] = OldPrefixes(c)[x]
        /\ \A x \in DOMAIN OldSuffixes(c) :
             x \in DOMAIN e.suffix_list /\ e.suffix_list[x] = OldSuffixes(c)[x]
        /\ j = 0 => \E x \in DOMAIN e.prefix_list : e.prefix_list[x] = i
        /\ j # 0 /\ j = last => \E x \in DOMAIN e.suffix_list : e.suffix_list[x] = i
    BY <1>1, NewListFacts
  <2>4. \A id, n : Entered(id, n)' <=> NowEntered(id, n)
    BY <1>0, <1>5 DEF Entered, NowEntered
  <2>. HIDE DEF c, e
  <2>5. TypeOK'
    <3>1. Entry' = Entry
      BY <1>3 DEF Entry
    <3>2. \A x \in DOMAIN shift' : x \in Char /\ shift'[x] \in Entry
      BY <1>1, <2>1, <2>2 DEF IInv, TypeOK
    <3>. QED
      BY <1>0, <1>2, <1>3, <1>5, <3>1, <3>2 DEF IInv, TypeOK
  <2>6. LoopInv'
    BY <1>0, <1>3, <1>5 DEF IInv, LoopInv, Searching, WM_B
  <2>7. TableComplete'
    <3>. SUFFICES ASSUME NEW id \in Ids, NEW n \in 0 .. last, NowEntered(id, n)
                  PROVE  LET d == PatternChar(id, n)
                         IN /\ d \in DOMAIN shift'
                            /\ shift'[d].shift <= last - n
                            /\ n = 0 => \E x \in DOMAIN shift'[d].prefix_list :
                                           shift'[d].prefix_list[x] = id
                            /\ n # 0 /\ n = last =>
                                 \E x \in DOMAIN shift'[d].suffix_list :
                                   shift'[d].suffix_list[x] = id
      BY <1>3, <2>4 DEF TableComplete
    <3>1. CASE id = i /\ n = j
      BY <2>1, <2>2, <2>3, <3>1 DEF c
    <3>2. CASE ~ (id = i /\ n = j)
      <4> DEFINE d == PatternChar(id, n)
      <4>1. Entered(id, n)
        BY <1>0, <3>2 DEF NowEntered, Entered, Ids
      <4>2. /\ d \in DOMAIN shift
            /\ shift[d].shift <= last - n
            /\ n = 0 => \E x \in DOMAIN shift[d].prefix_list : shift[d].prefix_list[x] = id
            /\ n # 0 /\ n = last =>
                 \E x \in DOMAIN shift[d].suffix_list : shift[d].suffix_list[x] = id
        BY <1>0, <4>1 DEF IInv, TableComplete, Filling
      <4>. HIDE DEF d
      <4>3. CASE d # c
        BY <2>1, <4>2, <4>3 DEF d
      <4>4. CASE d = c
        <5>1. OldPrefixes(c) = shift[c].prefix_list /\ OldSuffixes(c) = shift[c].suffix_list
          BY <4>2, <4>4 DEF OldPrefixes, OldSuffixes
        <5>2. e.shift \in Nat /\ shift[c].shift \in Nat
          BY <2>2, <4>2, <4>4 DEF Entry, IInv, TypeOK
        <5>3. shift'[d].shift <= last - n
          BY <1>0, <2>1, <2>2, <4>2, <4>4, <5>2
        <5>4. n = 0 => \E x \in DOMAIN e.prefix_list : e.prefix_list[x] = id
          BY <2>3, <4>2, <4>4, <5>1
        <5>5. n # 0 /\ n = last => \E x \in DOMAIN e.suffix_list : e.suffix_list[x] = id
          BY <2>3, <4>2, <4>4, <5>1
        <5>. QED
          BY <2>1, <4>2, <4>4, <5>3, <5>4, <5>5 DEF d
      <4>. QED
        BY <4>3, <4>4
    <3>. QED
      BY <3>1, <3>2
  <2>8. TableSound'
    <3>. SUFFICES ASSUME NEW x \in DOMAIN shift'
                  PROVE  /\ shift'[x].shift <= last
                         /\ IdList(shift'[x].prefix_list)
                         /\ IdList(shift'[x].suffix_list)
                         /\ \A y \in DOMAIN shift'[x].prefix_list :
                              NowEntered(shift'[x].prefix_list[y], 0)
                         /\ \A y \in DOMAIN shift'[x].suffix_list :
                              NowEntered(shift'[x].suffix_list[y], last)
      BY <1>3, <2>4 DEF TableSound, IdList, StrictlyIncreasing
    <3>1. CASE x = c
      <4>1. e.shift \in Nat
        BY <2>2 DEF Entry
      <4>. QED
        BY <1>0, <2>1, <2>2, <2>3, <3>1, <4>1
    <3>2. CASE x # c
      <4>1. x \in DOMAIN shift /\ shift'[x] = shift[x]
        BY <2>1, <3>2
      <4>2. shift[x].prefix_list \in Seq(Ids) /\ shift[x].suffix_list \in Seq(Ids)
        BY <4>1 DEF IInv, TypeOK, Entry
      <4>3. /\ shift[x].shift <= last
            /\ IdList(shift[x].prefix_list)
            /\ IdList(shift[x].suffix_list)
            /\ \A y \in DOMAIN shift[x].prefix_list : Entered(shift[x].prefix_list[y], 0)
            /\ \A y \in DOMAIN shift[x].suffix_list : Entered(shift[x].suffix_list[y], last)
        BY <1>0, <4>1 DEF IInv, TableSound
      <4>4. /\ \A y \in DOMAIN shift[x].prefix_list : shift[x].prefix_list[y] \in Nat
            /\ \A y \in DOMAIN shift[x].suffix_list : shift[x].suffix_list[y] \in Nat
        <5>1. Ids \subseteq Nat
          BY <1>0 DEF Ids
        <5>2. shift[x].prefix_list \in Seq(Nat) /\ shift[x].suffix_list \in Seq(Nat)
          BY <4>2, <5>1, SeqMonotonic
        <5>. QED
          BY <5>2
      <4>5. \A id \in Nat, n \in {0, last} : Entered(id, n) => NowEntered(id, n)
        BY <1>0 DEF Entered, NowEntered
      <4>. QED
        BY <4>1, <4>3, <4>4, <4>5
    <3>. QED
      BY <3>1, <3>2
  <2>9. ScanInv' /\ NothingSkipped' /\ ReportsFirst' /\ NoMatchIsTrue'
    BY <1>0, <1>5 DEF ScanInv, NothingSkipped, ReportsFirst, NoMatchIsTrue
  <2>. QED
    BY <2>5, <2>6, <2>7, <2>8, <2>9 DEF IInv
<1>. QED
  BY <1>2, <1>4, <1>5

(* The state of a search with patterns long enough for the shift table.    *)
LongSearch == IInv /\ pc \in {"search", "scan"} /\ len_shortest > WM_B

(* An occurrence of a pattern shows its tabulated characters in the text,   *)
(* each of them in the table with a small shift and under its id.          *)
LEMMA OccurrenceSeen ==
  ASSUME LongSearch, NEW id \in Ids, NEW q \in Nat, Occurs(id, q)
  PROVE  /\ q + len_shortest <= Len(text)
         /\ \A n \in 0 .. len_shortest - WM_B :
              /\ PatternChar(id, n) = TextChar(q + n)
              /\ TextChar(q + n) \in DOMAIN shift
              /\ shift[TextChar(q + n)].shift <= len_shortest - WM_B - n
         /\ \E x \in DOMAIN shift[TextChar(q)].prefix_list :
              shift[TextChar(q)].prefix_list[x] = id
         /\ LET c == TextChar(q + len_shortest - WM_B)
            IN \E x \in DOMAIN shift[c].suffix_list : shift[c].suffix_list[x] = id
<1>0. /\ len_shortest \in Nat /\ len_shortest > 2 /\ i = count /\ count \in Nat
      /\ len_shortest <= Len(Pattern(id)) /\ Len(Pattern(id)) \in Nat /\ Len(text) \in Nat
  BY NumberFacts, PatternFacts DEF LongSearch, IInv, LoopInv, TypeOK, Searching, WM_B
<1>1. q + len_shortest <= Len(text)
  BY <1>0 DEF Occurs
<1>2. ASSUME NEW n \in 0 .. len_shortest - WM_B
      PROVE  /\ PatternChar(id, n) = TextChar(q + n)
             /\ LET c == PatternChar(id, n)
                IN /\ c \in DOMAIN shift
                   /\ shift[c].shift <= len_shortest - WM_B - n
                   /\ n = 0 => \E x \in DOMAIN shift[c].prefix_list :
                                  shift[c].prefix_list[x] = id
                   /\ n # 0 /\ n = len_shortest - WM_B =>
                        \E x \in DOMAIN shift[c].suffix_list : shift[c].suffix_list[x] = id
  <2>1. n \in 0 .. Len(Pattern(id)) - 1
    BY <1>0 DEF WM_B
  <2>2. PatternChar(id, n) = TextChar(q + n)
    BY <2>1 DEF Occurs
  <2>3. Entered(id, n) /\ Filling
    BY <1>0 DEF Entered, Filling, Searching, LongSearch, Ids
  <2>. QED
    BY <2>2, <2>3 DEF LongSearch, IInv, TableComplete
<1>3. 0 \in 0 .. len_shortest - WM_B /\ TextChar(q + 0) = TextChar(q)
  BY <1>0 DEF WM_B
<1>4. /\ len_shortest - WM_B \in 0 .. len_shortest - WM_B
      /\ len_shortest - WM_B # 0
      /\ TextChar(q + (len_shortest - WM_B)) = TextChar(q + len_shortest - WM_B)
  <2>1. q + (len_shortest - 2) = q + len_shortest - 2
    BY <1>0
  <2>. QED
    BY <1>0, <2>1 DEF WM_B
<1>5. \E x \in DOMAIN shift[TextChar(q)].prefix_list : shift[TextChar(q)].prefix_list[x] = id
  BY <1>2, <1>3
<1>6. LET c == TextChar(q + len_shortest - WM_B)
      IN \E x \in DOMAIN shift[c].suffix_list : shift[c].suffix_list[x] = id
  BY <1>2, <1>4
<1>. QED
  BY <1>1, <1>2, <1>5, <1>6

(* An occurrence at the window makes the scan of the two lists meet its id. *)
LEMMA OccurrenceScanned ==
  ASSUME LongSearch, pc = "scan", NEW id \in Ids, Occurs(id, pos - len_shortest)
  PROVE  /\ \E x \in DOMAIN prefix_list : prefix_list[x] = id
         /\ InSuffixList(id)
         /\ TextHas(id, pos - len_shortest)
<1> DEFINE q == pos - len_shortest
<1>0. /\ pos \in Nat /\ len_shortest \in Nat /\ pos >= len_shortest /\ q \in Nat
      /\ LastChar \in DOMAIN shift
      /\ Len(Pattern(id)) \in Nat /\ Len(text) \in Nat
      /\ q + len_shortest - WM_B = pos - WM_B
  BY NumberFacts, PatternFacts DEF LongSearch, IInv, ScanInv, TypeOK, WM_B
<1>1. /\ \E x \in DOMAIN shift[TextChar(q)].prefix_list :
           shift[TextChar(q)].prefix_list[x] = id
      /\ \E x \in DOMAIN shift[TextChar(pos - WM_B)].suffix_list :
           shift[TextChar(pos - WM_B)].suffix_list[x] = id
  <2>1. Occurs(id, q)
    OBVIOUS
  <2>. HIDE DEF q
  <2>2. /\ \E x \in DOMAIN shift[TextChar(q)].prefix_list :
              shift[TextChar(q)].prefix_list[x] = id
        /\ \E x \in DOMAIN shift[TextChar(q + len_shortest - WM_B)].suffix_list :
              shift[TextChar(q + len_shortest - WM_B)].suffix_list[x] = id
    BY <1>0, <2>1, OccurrenceSeen
  <2>. QED
    BY <1>0, <2>2
<1>2. \E x \in DOMAIN prefix_list : prefix_list[x] = id
  BY <1>1 DEF prefix_list, FirstChar
<1>3. InSuffixList(id)
  <2>1. suffix_list = shift[LastChar].suffix_list
    BY <1>0 DEF suffix_list
  <2>2. suffix_list \in Seq(Ids) /\ StrictlyIncreasing(suffix_list)
    BY <1>0, <2>1 DEF LongSearch, IInv, TypeOK, Entry, TableSound, IdList
  <2>3. PICK x \in DOMAIN suffix_list : suffix_list[x] = id
    BY <1>1, <2>1 DEF LastChar
  <2>4. DOMAIN suffix_list = 1 .. Len(suffix_list) /\ Len(suffix_list) \in Nat
        /\ \A y \in DOMAIN suffix_list : suffix_list[y] \in Int
    BY <2>2, NumberFacts, SMTT(30) DEF Ids, LongSearch
  <2>5. ASSUME NEW b \in 1 .. x - 1 PROVE suffix_list[b] <= id
    <3>1. b \in DOMAIN suffix_list /\ b < x
      BY <2>3, <2>4
    <3>2. suffix_list[b] < suffix_list[x]
      BY <2>2, <2>3, <3>1 DEF StrictlyIncreasing
    <3>. QED
      BY <2>3, <2>4, <3>1, <3>2
  <2>. QED
    BY <2>3, <2>5 DEF InSuffixList
<1>4. TextHas(id, q)
  BY <1>0 DEF Occurs, TextHas
<1>. QED
  BY <1>2, <1>3, <1>4

(* The parts of the invariant that no step of a search touches. *)
LEMMA SearchKeeps ==
  ASSUME IInv, pc \in {"search", "scan"}, pc' \in {"search", "scan", "done"},
         UNCHANGED <<comp, i, j, put_ret, text>>
  PROVE  /\ TableComplete' /\ TableSound'
         /\ pc' # "done" /\ UNCHANGED ret => LoopInv'
         /\ pc' = "done" => LoopInv'
         /\ Ids' = Ids /\ Entry' = Entry
         /\ \A id, q : (Occurs(id, q)' <=> Occurs(id, q)) /\ (TextHas(id, q)' <=> TextHas(id, q))
<1>. USE DEF comp
<1>1. /\ Ids' = Ids /\ count' = count /\ Entry' = Entry
      /\ \A id : Pattern(id)' = Pattern(id)
      /\ \A id, n : PatternChar(id, n)' = PatternChar(id, n)
      /\ \A id, n : Entered(id, n)' <=> Entered(id, n)
      /\ \A n : TextChar(n)' = TextChar(n)
  BY DEF Ids, count, Entry, Pattern, PatternChar, Entered, TextChar
<1>2. TableComplete'
  BY <1>1 DEF IInv, TableComplete, Filling, Searching
<1>3. TableSound'
  BY <1>1 DEF IInv, TableSound, IdList, StrictlyIncreasing
<1>4. \A id, q : (Occurs(id, q)' <=> Occurs(id, q)) /\ (TextHas(id, q)' <=> TextHas(id, q))
  BY <1>1 DEF Occurs, TextHas
<1>5. /\ pc' # "done" /\ UNCHANGED ret => LoopInv'
      /\ pc' = "done" => LoopInv'
  BY <1>1 DEF IInv, LoopInv, Searching
<1>. QED
  BY <1>1, <1>2, <1>3, <1>4, <1>5

(* Moving the window by d skips nothing if nothing occurs on the way. *)
LEMMA MoveInv ==
  ASSUME IInv, pc \in {"search", "scan"}, pc' = "search", NEW d \in Nat, pos' = pos + d,
         UNCHANGED <<comp, i, j, put_ret, text, result, ret>>, k' = k,
         len_shortest > WM_B =>
           \A q \in pos - len_shortest .. pos + d - len_shortest - 1, id \in Ids : ~ Occurs(id, q)
  PROVE  IInv'
<1>1. /\ pos \in Nat /\ len_shortest \in Nat /\ len_shortest' = len_shortest /\ pos >= len_shortest
  BY NumberFacts DEF IInv, ScanInv, comp
<1>2. TypeOK'
  BY <1>1, SearchKeeps DEF IInv, TypeOK, comp, count
<1>3. LoopInv' /\ TableComplete' /\ TableSound'
  BY SearchKeeps
<1>4. ScanInv'
  BY <1>1 DEF IInv, ScanInv
<1>5. NothingSkipped'
  <2>. SUFFICES ASSUME len_shortest > WM_B, NEW q \in 0 .. pos + d - len_shortest - 1, NEW id \in Ids
                PROVE  ~ Occurs(id, q)
    BY <1>1, SearchKeeps DEF NothingSkipped
  <2>1. CASE q \in 0 .. pos - len_shortest - 1
    BY <2>1 DEF IInv, NothingSkipped
  <2>2. CASE q \in pos - len_shortest .. pos + d - len_shortest - 1
    BY <2>2
  <2>. QED
    BY <1>1, <2>1, <2>2
<1>6. ReportsFirst' /\ NoMatchIsTrue'
  BY DEF IInv, LoopInv, ReportsFirst, NoMatchIsTrue
<1>. QED
  BY <1>2, <1>3, <1>4, <1>5, <1>6 DEF IInv

(* A shift of the table, or the default one, passes no occurrence: one that *)
(* began on the way would have the window's last character at a place whose *)
(* shift is smaller than the one taken.                                    *)
LEMMA SkipInv == IInv /\ Skip => IInv'
<1>. SUFFICES ASSUME IInv, Skip PROVE IInv'
  OBVIOUS
<1>0. /\ pc = "search" /\ pc' = "search" /\ pos <= Len(text) /\ pos' = pos + CurrShift
      /\ pos \in Nat /\ len_shortest \in Nat /\ pos >= len_shortest /\ Len(text) \in Nat
      /\ UNCHANGED <<comp, i, j, put_ret, text, result, ret, k>>
  BY NumberFacts DEF Skip, InSearch, IInv, ScanInv, TypeOK
<1>1. /\ CurrShift \in Nat
      /\ LastChar \in DOMAIN shift => CurrShift = shift[LastChar].shift
      /\ LastChar \in DOMAIN shift => CurrShift <= len_shortest - WM_B
      /\ LastChar \notin DOMAIN shift => CurrShift = 2
  <2>1. CASE LastChar \in DOMAIN shift
    <3>1. shift[LastChar].shift \in Nat /\ shift[LastChar].shift <= len_shortest - WM_B
      BY <2>1 DEF IInv, TypeOK, Entry, TableSound
    <3>. QED
      BY <2>1, <3>1 DEF CurrShift
  <2>2. CASE LastChar \notin DOMAIN shift
    BY <2>2 DEF CurrShift, WM_B
  <2>. QED
    BY <2>1, <2>2
<1>2. ASSUME len_shortest > WM_B,
             NEW q \in pos - len_shortest .. pos + CurrShift - len_shortest - 1,
             NEW id \in Ids, Occurs(id, q)
      PROVE  FALSE
  <2> DEFINE n == pos - WM_B - q
  <2>1. q \in Nat /\ LongSearch
    BY <1>0, <1>1, <1>2 DEF LongSearch
  <2>2. n \in 0 .. len_shortest - WM_B
    <3>1. CurrShift <= len_shortest - 1
      BY <1>0, <1>1, <1>2 DEF WM_B
    <3>. QED
      BY <1>0, <1>1, <2>1, <3>1 DEF WM_B
  <2>3. q + n = pos - WM_B
    BY <1>0, <2>1 DEF WM_B
  <2>4. TextChar(q + n) \in DOMAIN shift /\ shift[TextChar(q + n)].shift <= len_shortest - WM_B - n
    BY <1>2, <2>1, <2>2, OccurrenceSeen
  <2>5. LastChar \in DOMAIN shift /\ shift[LastChar].shift <= len_shortest - WM_B - n
    BY <2>3, <2>4 DEF LastChar
  <2>. QED
    BY <1>0, <1>1, <2>1, <2>5 DEF WM_B
<1>3. PICK d \in Nat : d = CurrShift
  BY <1>1
<1>. QED
  BY <1>0, <1>2, <1>3, MoveInv

(* No pattern begins with the window's first character. *)
LEMMA NoPrefixInv == IInv /\ NoPrefix => IInv'
<1>. SUFFICES ASSUME IInv, NoPrefix PROVE IInv'
  OBVIOUS
<1>0. /\ pc = "search" /\ pc' = "search" /\ pos' = pos + 1 /\ FirstChar \notin DOMAIN shift
      /\ pos \in Nat /\ len_shortest \in Nat /\ pos >= len_shortest
      /\ UNCHANGED <<comp, i, j, put_ret, text, result, ret, k>>
  BY NumberFacts DEF NoPrefix, InSearch, IInv, ScanInv
<1>1. ASSUME len_shortest > WM_B, NEW id \in Ids, Occurs(id, pos - len_shortest)
      PROVE  FALSE
  <2>1. pos - len_shortest \in Nat /\ LongSearch /\ 0 \in 0 .. len_shortest - WM_B
        /\ pos - len_shortest + 0 = pos - len_shortest
    BY <1>0, <1>1 DEF LongSearch, WM_B
  <2>2. TextChar(pos - len_shortest + 0) \in DOMAIN shift
    BY <1>1, <2>1, OccurrenceSeen
  <2>. QED
    BY <1>0, <2>1, <2>2 DEF FirstChar
<1>2. ASSUME NEW q \in pos - len_shortest .. pos + 1 - len_shortest - 1
      PROVE  q = pos - len_shortest
  BY <1>0
<1>. QED
  BY <1>0, <1>1, <1>2, MoveInv

LEMMA BeginScanInv == IInv /\ BeginScan => IInv'
<1>. SUFFICES ASSUME IInv, BeginScan PROVE IInv'
  OBVIOUS
<1>0. /\ pc = "search" /\ pc' = "scan" /\ pos <= Len(text) /\ CurrShift = 0 /\ k' = 1
      /\ FirstChar \in DOMAIN shift
      /\ UNCHANGED <<comp, i, j, put_ret, text, pos, result, ret>>
  BY DEF BeginScan, InSearch
<1>1. LastChar \in DOMAIN shift
  BY <1>0 DEF CurrShift, WM_B
<1>2. TypeOK'
  BY <1>0, SearchKeeps DEF IInv, TypeOK, comp, count
<1>3. LoopInv' /\ TableComplete' /\ TableSound'
  BY <1>0, SearchKeeps
<1>4. ScanInv'
  <2>1. prefix_list \in Seq(Ids)
    BY <1>0 DEF prefix_list, IInv, TypeOK, Entry
  <2>2. LastChar' = LastChar /\ FirstChar' = FirstChar /\ prefix_list' = prefix_list
    BY <1>0 DEF LastChar, FirstChar, prefix_list, TextChar, comp
  <2>3. (1 .. k - 1)' = {}
    BY <1>0
  <2>. QED
    BY <1>0, <1>1, <2>1, <2>2, <2>3 DEF IInv, ScanInv, comp
<1>5. NothingSkipped' /\ ReportsFirst' /\ NoMatchIsTrue'
  BY <1>0, SearchKeeps DEF IInv, LoopInv, NothingSkipped, ReportsFirst, NoMatchIsTrue, comp
<1>. QED
  BY <1>2, <1>3, <1>4, <1>5 DEF IInv

(* What is known in the middle of a scan. *)
LEMMA ScanFacts ==
  ASSUME IInv, pc = "scan"
  PROVE  /\ pos \in Nat /\ len_shortest \in Nat /\ pos >= len_shortest /\ pos - len_shortest \in Nat
         /\ Len(text) \in Nat /\ pos <= Len(text) /\ k \in Nat
         /\ FirstChar \in DOMAIN shift
         /\ prefix_list \in Seq(Ids) /\ StrictlyIncreasing(prefix_list)
         /\ DOMAIN prefix_list = 1 .. Len(prefix_list) /\ Len(prefix_list) \in Nat
         /\ Ids \subseteq Nat
         /\ \A x \in DOMAIN prefix_list : prefix_list[x] \in Ids
         /\ k \in 1 .. Len(prefix_list) + 1
         /\ \A x \in 1 .. k - 1 :
              ~ (InSuffixList(prefix_list[x]) /\ TextHas(prefix_list[x], pos - len_shortest))
<1>1. /\ pos \in Nat /\ len_shortest \in Nat /\ pos >= len_shortest /\ k \in Nat
      /\ pos <= Len(text) /\ Len(text) \in Nat
      /\ FirstChar \in DOMAIN shift /\ Ids \subseteq Nat
      /\ k \in 1 .. Len(prefix_list) + 1
      /\ \A x \in 1 .. k - 1 :
           ~ (InSuffixList(prefix_list[x]) /\ TextHas(prefix_list[x], pos - len_shortest))
  BY NumberFacts DEF IInv, ScanInv, TypeOK, Ids
<1>2. prefix_list \in Seq(Ids) /\ StrictlyIncreasing(prefix_list)
  BY <1>1 DEF prefix_list, IInv, TypeOK, Entry, TableSound, IdList
<1>3. /\ DOMAIN prefix_list = 1 .. Len(prefix_list) /\ Len(prefix_list) \in Nat
      /\ \A x \in DOMAIN prefix_list : prefix_list[x] \in Ids
  BY <1>2
<1>. QED
  BY <1>1, <1>2, <1>3

(* The match that is reported is the first one: an earlier pattern at this  *)
(* window would have been met at a smaller k.                               *)
LEMMA ScanHitInv == IInv /\ ScanHit => IInv'
<1>. SUFFICES ASSUME IInv, ScanHit PROVE IInv'
  OBVIOUS
<1> DEFINE hit == prefix_list[k]
           text_st == pos - len_shortest
<1>0. /\ pc = "scan" /\ pc' = "done" /\ ret' = "REG_OK" /\ k \in DOMAIN prefix_list
      /\ TextHas(hit, text_st)
      /\ result' = [soffset |-> text_st, eoffset |-> text_st + Len(Pattern(hit)),
                    pattern_id |-> hit]
      /\ UNCHANGED <<comp, i, j, put_ret, text, pos, k>>
  BY DEF ScanHit, Hit
<1>1. /\ hit \in Ids /\ hit \in Nat /\ text_st \in Nat /\ Len(Pattern(hit)) \in Nat
      /\ k \in Nat /\ Len(text) \in Nat
  BY <1>0, ScanFacts, PatternFacts DEF IInv, TypeOK
<1>2. Occurs(hit, text_st)
  BY <1>0, <1>1 DEF TextHas, Occurs
<1>3. ASSUME len_shortest > WM_B, NEW id \in 0 .. hit - 1, Occurs(id, text_st)
      PROVE  FALSE
  <2>1. id \in Ids /\ id < hit /\ id \in Nat
    BY <1>0, <1>1, <1>3, PatternFacts DEF Ids, IInv, TypeOK
  <2>2. LongSearch
    BY <1>0, <1>3 DEF LongSearch
  <2>3. InSuffixList(id) /\ TextHas(id, text_st)
    BY <1>0, <1>3, <2>1, <2>2, OccurrenceScanned
  <2>4. PICK x \in DOMAIN prefix_list : prefix_list[x] = id
    BY <1>0, <1>3, <2>1, <2>2, OccurrenceScanned
  <2>5. x < k
    <3>1. x \in Nat
      BY <1>0, <2>4, ScanFacts
    <3>2. CASE x = k
      BY <1>1, <2>1, <2>4, <3>2
    <3>3. CASE k < x
      <4>1. prefix_list[k] < prefix_list[x]
        BY <1>0, <2>4, <3>3, ScanFacts DEF StrictlyIncreasing
      <4>. QED
        BY <1>1, <2>1, <2>4, <4>1
    <3>. QED
      BY <1>1, <3>1, <3>2, <3>3
  <2>6. x \in 1 .. k - 1
    BY <1>0, <1>1, <2>4, <2>5, ScanFacts
  <2>. QED
    BY <1>0, <2>3, <2>4, <2>6, ScanFacts
<1>4. TypeOK'
  <2>1. result' \in [soffset : Int, eoffset : Int, pattern_id : Int]
    BY <1>0, <1>1
  <2>. QED
    BY <1>0, <2>1, SearchKeeps DEF IInv, TypeOK, comp, count
<1>5. LoopInv' /\ TableComplete' /\ TableSound'
  BY <1>0, SearchKeeps
<1>6. ScanInv' /\ NothingSkipped' /\ NoMatchIsTrue'
  BY <1>0 DEF ScanInv, NothingSkipped, NoMatchIsTrue
<1>7. ReportsFirst'
  <2>1. /\ result'.soffset = text_st /\ result'.pattern_id = hit
        /\ result'.eoffset = text_st + Len(Pattern(hit))
    BY <1>0
  <2>2. len_shortest > WM_B => \A q \in 0 .. text_st - 1, id \in Ids : ~ Occurs(id, q)
    BY <1>0 DEF IInv, NothingSkipped
  <2>3. len_shortest' = len_shortest /\ \A id : Pattern(id)' = Pattern(id)
    BY <1>0 DEF Pattern, comp
  <2>4. Ids' = Ids /\ \A id, q : Occurs(id, q)' <=> Occurs(id, q)
    BY <1>0, SearchKeeps
  <2>. HIDE DEF hit, text_st
  <2>. QED
    BY <1>1, <1>2, <1>3, <2>1, <2>2, <2>3, <2>4 DEF ReportsFirst
<1>. QED
  BY <1>4, <1>5, <1>6, <1>7 DEF IInv

LEMMA ScanMissInv == IInv /\ ScanMiss => IInv'
<1>. SUFFICES ASSUME IInv, ScanMiss PROVE IInv'
  OBVIOUS
<1>0. /\ pc = "scan" /\ pc' = "scan" /\ k \in DOMAIN prefix_list /\ ~ Hit /\ k' = k + 1
      /\ UNCHANGED <<comp, i, j, put_ret, text, pos, result, ret>>
  BY DEF ScanMiss
<1>1. TypeOK'
  BY <1>0, ScanFacts, SearchKeeps DEF IInv, TypeOK, comp, count
<1>2. LoopInv' /\ TableComplete' /\ TableSound'
  BY <1>0, SearchKeeps
<1>3. ScanInv'
  <2>1. /\ LastChar' = LastChar /\ FirstChar' = FirstChar /\ prefix_list' = prefix_list
        /\ suffix_list' = suffix_list
    BY <1>0 DEF LastChar, FirstChar, prefix_list, suffix_list, TextChar, comp
  <2>2. \A id : InSuffixList(id)' <=> InSuffixList(id)
    BY <2>1 DEF InSuffixList
  <2>3. \A id, q : TextHas(id, q)' <=> TextHas(id, q)
    BY <1>0, SearchKeeps
  <2>4. k' \in 1 .. Len(prefix_list) + 1
    BY <1>0, ScanFacts
  <2>5. ASSUME NEW x \in 1 .. k
        PROVE  ~ (InSuffixList(prefix_list[x]) /\ TextHas(prefix_list[x], pos - len_shortest))
    <3>1. x = k \/ x \in 1 .. k - 1
      BY <1>0, ScanFacts
    <3>. QED
      BY <1>0, <3>1, ScanFacts DEF Hit
  <2>6. k' - 1 = k
    BY <1>0, ScanFacts
  <2>. QED
    BY <1>0, <2>1, <2>2, <2>3, <2>4, <2>5, <2>6 DEF IInv, ScanInv, comp
<1>4. NothingSkipped' /\ ReportsFirst' /\ NoMatchIsTrue'
  BY <1>0, SearchKeeps DEF IInv, LoopInv, NothingSkipped, ReportsFirst, NoMatchIsTrue, comp
<1>. QED
  BY <1>1, <1>2, <1>3, <1>4 DEF IInv

(* All candidates were compared: nothing occurs at this window. *)
LEMMA ScanEndInv == IInv /\ ScanEnd => IInv'
<1>. SUFFICES ASSUME IInv, ScanEnd PROVE IInv'
  OBVIOUS
<1>0. /\ pc = "scan" /\ pc' = "search" /\ k > Len(prefix_list) /\ pos' = pos + 1
      /\ UNCHANGED <<comp, i, j, put_ret, text, k, result, ret>>
  BY DEF ScanEnd
<1>1. ASSUME len_shortest > WM_B, NEW id \in Ids, Occurs(id, pos - len_shortest)
      PROVE  FALSE
  <2>1. LongSearch
    BY <1>0, <1>1 DEF LongSearch
  <2>2. InSuffixList(id) /\ TextHas(id, pos - len_shortest)
    BY <1>0, <1>1, <2>1, OccurrenceScanned
  <2>3. PICK x \in DOMAIN prefix_list : prefix_list[x] = id
    BY <1>0, <1>1, <2>1, OccurrenceScanned
  <2>4. x \in 1 .. k - 1
    BY <1>0, <2>3, ScanFacts
  <2>. QED
    BY <1>0, <2>2, <2>3, <2>4, ScanFacts
<1>2. ASSUME NEW q \in pos - len_shortest .. pos + 1 - len_shortest - 1
      PROVE  q = pos - len_shortest
  BY <1>0, ScanFacts
<1>. QED
  BY <1>0, <1>1, <1>2, MoveInv

(* The window has left the text, and with it every place for a match. *)
LEMMA EndOfTextInv == IInv /\ EndOfText => IInv'
<1>. SUFFICES ASSUME IInv, EndOfText PROVE IInv'
  OBVIOUS
<1>0. /\ pc = "search" /\ pc' = "done" /\ pos > Len(text) /\ ret' = "REG_NOMATCH"
      /\ pos \in Nat /\ len_shortest \in Nat /\ Len(text) \in Nat
      /\ UNCHANGED <<comp, i, j, put_ret, text, pos, k, result>>
  BY NumberFacts DEF EndOfText, IInv, TypeOK
<1>1. TypeOK'
  BY <1>0, SearchKeeps DEF IInv, TypeOK, comp, count
<1>2. LoopInv' /\ TableComplete' /\ TableSound'
  BY <1>0, SearchKeeps
<1>3. ScanInv' /\ NothingSkipped' /\ ReportsFirst'
  BY <1>0 DEF ScanInv, NothingSkipped, ReportsFirst
<1>4. NoMatchIsTrue'
  <2>1. ASSUME len_shortest > WM_B, NEW q \in 0 .. Len(text), NEW id \in Ids, Occurs(id, q)
        PROVE  FALSE
    <3>1. q + len_shortest <= Len(text)
      BY <1>0, <2>1, OccurrenceSeen DEF LongSearch
    <3>2. q \in 0 .. pos - len_shortest - 1
      BY <1>0, <3>1
    <3>. QED
      BY <1>0, <2>1, <3>2 DEF IInv, NothingSkipped
  <2>2. len_shortest' = len_shortest /\ text' = text /\ Ids' = Ids
        /\ \A id, q : Occurs(id, q)' <=> Occurs(id, q)
    BY <1>0, SearchKeeps DEF comp
  <2>. QED
    BY <2>1, <2>2 DEF NoMatchIsTrue
<1>. QED
  BY <1>1, <1>2, <1>3, <1>4 DEF IInv

LEMMA StutterInv == IInv /\ UNCHANGED vars => IInv'
<1>. SUFFICES ASSUME IInv, UNCHANGED vars PROVE IInv'
  OBVIOUS
<1>. USE DEF vars
<1>1. /\ Ids' = Ids /\ count' = count /\ Entry' = Entry
      /\ \A id : Pattern(id)' = Pattern(id)
      /\ \A id, n : PatternChar(id, n)' = PatternChar(id, n)
      /\ \A id, n : Entered(id, n)' <=> Entered(id, n)
      /\ \A n : TextChar(n)' = TextChar(n)
      /\ LastChar' = LastChar /\ FirstChar' = FirstChar
      /\ prefix_list' = prefix_list /\ suffix_list' = suffix_list
  BY DEF Ids, count, Entry, Pattern, PatternChar, Entered, TextChar, LastChar, FirstChar,
         prefix_list, suffix_list
<1>2. /\ \A id : InSuffixList(id)' <=> InSuffixList(id)
      /\ \A id, q : TextHas(id, q)' <=> TextHas(id, q)
      /\ \A id, q : Occurs(id, q)' <=> Occurs(id, q)
  BY <1>1 DEF InSuffixList, TextHas, Occurs
<1>3. TypeOK' /\ LoopInv'
  BY <1>1 DEF IInv, TypeOK, LoopInv, Searching
<1>4. TableComplete' /\ TableSound'
  BY <1>1 DEF IInv, TableComplete, TableSound, Filling, Searching, IdList, StrictlyIncreasing
<1>5. ScanInv'
  BY <1>1, <1>2 DEF IInv, ScanInv
<1>6. NothingSkipped' /\ ReportsFirst' /\ NoMatchIsTrue'
  BY <1>1, <1>2 DEF IInv, NothingSkipped, ReportsFirst, NoMatchIsTrue
<1>. QED
  BY <1>3, <1>4, <1>5, <1>6 DEF IInv
-----------------------------------------------------------------------------
(* The inductive invariant holds in every reachable state, for every        *)
(* alphabet, every list of 1 to WM_MAXPAT patterns of two characters or     *)
(* more and every text.                                                    *)
THEOREM Invariance == Spec => []IInv
<1>1. Init => IInv
  BY InitInv
<1>2. IInv /\ [Next]_vars => IInv'
  BY MeasureInv, CreateTableInv, FillCharInv, NextPatternInv, ExecuteInv, SkipInv, NoPrefixInv,
     BeginScanInv, ScanHitInv, ScanMissInv, ScanEndInv, EndOfTextInv, StutterInv
     DEF Next, Compile, Search
<1>. QED
  BY <1>1, <1>2, PTL DEF Spec

(* Every variable keeps the type of the C object it stands for. *)
THEOREM TypeCorrect == Spec => []TypeOK
<1>1. IInv => TypeOK
  BY DEF IInv
<1>. QED
  BY <1>1, Invariance, PTL

(* What wm_execute reports is the first occurrence in the text of the       *)
(* first pattern that occurs there, for patterns of more than WM_B          *)
(* characters.                                                             *)
THEOREM FirstMatchReported == Spec => []ReportsFirst
<1>1. IInv => ReportsFirst
  BY DEF IInv
<1>. QED
  BY <1>1, Invariance, PTL

(* wm_execute returns REG_NOMATCH only if no pattern occurs in the text. *)
THEOREM NoMatchCorrect == Spec => []NoMatchIsTrue
<1>1. IInv => NoMatchIsTrue
  BY DEF IInv
<1>. QED
  BY <1>1, Invariance, PTL

(* No step of the search moves the window past an occurrence. *)
THEOREM NoOccurrenceSkipped == Spec => []NothingSkipped
<1>1. IInv => NothingSkipped
  BY DEF IInv
<1>. QED
  BY <1>1, Invariance, PTL

(* The finished shift table never shifts further than its characters allow. *)
THEOREM ShiftTableCorrect == Spec => []ShiftTableSafe
<1>1. IInv => ShiftTableSafe
  <2>. SUFFICES ASSUME IInv, Searching, NEW id \in Ids, NEW n \in 0 .. len_shortest - WM_B
                PROVE  /\ PatternChar(id, n) \in DOMAIN shift
                       /\ shift[PatternChar(id, n)].shift <= len_shortest - WM_B - n
    BY DEF ShiftTableSafe
  <2>1. Entered(id, n) /\ Filling
    BY NumberFacts DEF IInv, LoopInv, Entered, Filling, Ids
  <2>. QED
    BY <2>1 DEF IInv, TableComplete
<1>. QED
  BY <1>1, Invariance, PTL

(* Both id lists of every entry stay increasing and within the WM_MAXPAT    *)
(* places that wm_entry has for them.                                      *)
THEOREM ListsCorrect == Spec => []ListsSorted
<1>1. IInv => ListsSorted
  <2>. SUFFICES ASSUME IInv, NEW s \in Seq(Ids), IdList(s)
                PROVE  StrictlyIncreasing(s) /\ Len(s) <= WM_MAXPAT
    BY DEF IInv, TypeOK, Entry, TableSound, ListsSorted
  <2>1. count \in Nat /\ count <= 64 /\ Len(s) \in Nat
    <3>1. patterns \in PatternLists
      BY DEF IInv, TypeOK
    <3>2. count \in 1 .. 64
      BY <3>1, PatternFacts DEF WM_MAXPAT
    <3>. QED
      BY <3>2
  <2>2. CASE Len(s) > 0
    <3>1. Len(s) \in DOMAIN s /\ s[Len(s)] \in Ids
      BY <2>1, <2>2
    <3>. QED
      BY <2>1, <3>1 DEF IdList, Ids, WM_MAXPAT
  <2>. QED
    BY <2>1, <2>2 DEF IdList, WM_MAXPAT
<1>. QED
  BY <1>1, Invariance, PTL
-----------------------------------------------------------------------------
(* What the refinement needs besides: nothing is reported before the end, and   *)
(* the window is as long as a pattern, so that the patterns can be found.       *)
LongPatterns == \A pl \in PatternLists : \A n \in DOMAIN pl : Len(pl[n]) > WM_B
ReportInv ==
  /\ len_shortest > WM_B
  /\ pc # "done" => result = NoResult
  /\ pc \in {"measure", "fill"} => text = <<>> /\ ret = "none"
  /\ pc \in {"search", "scan"} => ret = "none"
  /\ ret = "REG_NOMATCH" => result = NoResult

LEMMA ShortestIsLong ==
  ASSUME LongPatterns, IInv, NEW id \in Ids
  PROVE  Len(Pattern(id)) \in Nat /\ Len(Pattern(id)) > WM_B
<1>1. patterns \in PatternLists /\ count \in Nat /\ DOMAIN patterns = 1 .. count
  BY NumberFacts, PatternFacts
<1>2. Len(Pattern(id)) \in Nat
  BY <1>1, PatternFacts
<1>3. id + 1 \in DOMAIN patterns
  BY <1>1 DEF Ids
<1> QED
  BY <1>1, <1>2, <1>3 DEF LongPatterns, Pattern

LEMMA InitReport == LongPatterns /\ Init => ReportInv
<1> SUFFICES ASSUME LongPatterns, Init PROVE ReportInv
  OBVIOUS
<1>1. 0 \in Ids /\ IInv
  BY PatternFacts, InitInv DEF Init, Ids
<1>2. Len(Pattern(0)) > WM_B
  BY <1>1, ShortestIsLong
<1> QED
  BY <1>2 DEF Init, ReportInv, Pattern

LEMMA NextReport == LongPatterns /\ IInv /\ ReportInv /\ [Next]_vars => ReportInv'
<1> SUFFICES ASSUME LongPatterns, IInv, ReportInv, [Next]_vars PROVE ReportInv'
  OBVIOUS
<1>1. CASE Measure
  <2>1. i \in Ids /\ len_shortest \in Nat
    BY <1>1, PatternFacts DEF Measure, IInv, TypeOK, Ids, LoopInv
  <2>2. Len(Pattern(i)) \in Nat /\ Len(Pattern(i)) > WM_B
    BY <2>1, ShortestIsLong
  <2> QED
    BY <1>1, <2>1, <2>2 DEF Measure, ReportInv, MinOf
<1>2. CASE CreateTable
  BY <1>2 DEF CreateTable, GiveUp, ReportInv
<1>3. CASE FillChar
  BY <1>3 DEF FillChar, GiveUp, ReportInv
<1>4. CASE NextPattern \/ Execute
  BY <1>4 DEF NextPattern, Execute, Compiled, comp, ReportInv
<1>5. CASE Skip \/ NoPrefix \/ BeginScan \/ ScanMiss \/ ScanEnd
  BY <1>5 DEF Skip, NoPrefix, BeginScan, ScanMiss, ScanEnd, InSearch, comp, ReportInv
<1>6. CASE ScanHit \/ EndOfText
  BY <1>6 DEF ScanHit, EndOfText, comp, ReportInv
<1>7. CASE UNCHANGED vars
  BY <1>7 DEF vars, ReportInv
<1> QED
  BY <1>1, <1>2, <1>3, <1>4, <1>5, <1>6, <1>7 DEF Next, Compile, Search

(* FirstMatch counts places of a pattern from 1, wm_execute from 0. *)
LEMMA SameOccurrences ==
  ASSUME IInv
  PROVE  /\ Abstract!Ids = Ids
         /\ \A id \in Ids : Abstract!Pattern(id) = Pattern(id)
         /\ \A id \in Ids : \A q \in Nat : Abstract!Occurs(id, q) <=> Occurs(id, q)
<1>1. patterns \in PatternLists /\ count \in Nat /\ DOMAIN patterns = 1 .. count
  BY NumberFacts, PatternFacts
<1>2. Abstract!Ids = Ids
  <2>1. ASSUME NEW id \in Ids PROVE \E n \in DOMAIN patterns : id = n - 1
    <3>1. id + 1 \in DOMAIN patterns /\ id = (id + 1) - 1
      BY <1>1 DEF Ids
    <3> QED
      BY <3>1
  <2>2. ASSUME NEW n \in DOMAIN patterns PROVE n - 1 \in Ids
    BY <1>1 DEF Ids
  <2> QED
    BY <2>1, <2>2 DEF Abstract!Ids
<1>3. \A id \in Ids : Abstract!Pattern(id) = Pattern(id)
  BY DEF Abstract!Pattern, Pattern
<1>4. ASSUME NEW id \in Ids, NEW q \in Nat
      PROVE  Abstract!Occurs(id, q) <=> Occurs(id, q)
  <2>1. PICK m \in Nat : m = Len(Pattern(id))
    BY <1>1, PatternFacts
  <2>2. Occurs(id, q) <=> /\ q + m <= Len(text)
                          /\ \A n \in 0 .. m - 1 : Pattern(id)[n + 1] = text[q + n + 1]
    BY <2>1 DEF Occurs, PatternChar, Pattern, TextChar
  <2>3. Abstract!Occurs(id, q) <=> /\ q + m <= Len(text)
                                   /\ \A n \in 1 .. m : text[q + n] = Pattern(id)[n]
    BY <1>3, <2>1 DEF Abstract!Occurs
  <2>4. ASSUME \A n \in 0 .. m - 1 : Pattern(id)[n + 1] = text[q + n + 1], NEW n \in 1 .. m
        PROVE  text[q + n] = Pattern(id)[n]
    <3>1. n - 1 \in 0 .. m - 1 /\ (n - 1) + 1 = n /\ q + (n - 1) + 1 = q + n
      BY <2>1
    <3> QED
      BY <2>4, <3>1
  <2>5. ASSUME \A n \in 1 .. m : text[q + n] = Pattern(id)[n], NEW n \in 0 .. m - 1
        PROVE  Pattern(id)[n + 1] = text[q + n + 1]
    <3>1. n + 1 \in 1 .. m /\ q + (n + 1) = q + n + 1
      BY <2>1
    <3> QED
      BY <2>5, <3>1
  <2> QED
    BY <2>2, <2>3, <2>4, <2>5
<1> QED
  BY <1>2, <1>3, <1>4

LEMMA FirstIsPromised ==
  ASSUME IInv, NEW id \in Ids, NEW q \in Nat, Occurs(id, q),
         \A p \in 0 .. q - 1, other \in Ids : ~ Occurs(other, p),
         \A other \in 0 .. id - 1 : ~ Occurs(other, q)
  PROVE  [soffset |-> q, eoffset |-> q + Len(Pattern(id)), pattern_id |-> id] \in Abstract!FirstOccurrences
<1>1. count \in Nat /\ Ids = 0 .. count - 1 /\ Len(text) \in Nat
  BY NumberFacts DEF Ids, IInv, TypeOK
<1>2. PICK m \in Nat : m = Len(Pattern(id))
  BY NumberFacts, PatternFacts
<1>3. q + m <= Len(text)
  BY <1>2 DEF Occurs
<1>4. PICK end \in Nat : end = q + m
  OBVIOUS
<1>5. q \in 0 .. Len(text) /\ end \in 0 .. Len(text)
  BY <1>1, <1>2, <1>3, <1>4
<1> HIDE DEF Occurs, Pattern, Ids
<1> DEFINE r == [soffset |-> q, eoffset |-> end, pattern_id |-> id]
<1>6. /\ r \in [soffset : 0 .. Len(text), eoffset : 0 .. Len(text), pattern_id : Abstract!Ids]
      /\ r.soffset = q /\ r.eoffset = end /\ r.pattern_id = id
  BY <1>5, SameOccurrences, Zenon
<1> HIDE DEF r
<1>7. Abstract!Occurs(id, q) /\ end = q + Len(Abstract!Pattern(id))
  BY <1>2, <1>4, SameOccurrences
<1>8. \A p \in 0 .. q - 1, other \in Abstract!Ids : ~ Abstract!Occurs(other, p)
  <2> SUFFICES ASSUME NEW p \in 0 .. q - 1, NEW other \in Ids PROVE ~ Abstract!Occurs(other, p)
    BY SameOccurrences, Zenon
  <2>1. p \in Nat
    OBVIOUS
  <2> QED
    BY <2>1, SameOccurrences
<1>9. \A other \in Abstract!Ids : other < id => ~ Abstract!Occurs(other, q)
  <2> SUFFICES ASSUME NEW other \in Ids, other < id PROVE ~ Abstract!Occurs(other, q)
    BY SameOccurrences, Zenon
  <2>1. other \in 0 .. id - 1
    BY <1>1
  <2> QED
    BY <2>1, SameOccurrences
<1>10. r \in Abstract!FirstOccurrences
  BY <1>6, <1>7, <1>8, <1>9, Zenon DEF Abstract!FirstOccurrences
<1> QED
  BY <1>2, <1>4, <1>10 DEF r

(* A hit is the answer... *)
LEMMA HitAnswers ==
  ASSUME IInv, IInv', ReportInv', ScanHit
  PROVE  Abstract!Answer
<1>1. PICK id, q : id = prefix_list[k] /\ q = pos - len_shortest
  OBVIOUS
<1>2. /\ result' = [soffset |-> q, eoffset |-> q + Len(Pattern(id)), pattern_id |-> id]
      /\ pc = "scan" /\ pc' = "done" /\ ret' = "REG_OK"
      /\ UNCHANGED <<patterns, text, len_shortest>>
  BY <1>1 DEF ScanHit, comp
<1>3. q \in Nat
  <2>1. pos \in Nat /\ len_shortest \in Nat /\ pos >= len_shortest
    BY <1>2, NumberFacts DEF IInv, ScanInv
  <2> QED
    BY <1>1, <2>1
<1>4. Ids' = Ids /\ \A i1, q1 : Occurs(i1, q1)' <=> Occurs(i1, q1)
  BY <1>2 DEF Ids, count, Occurs, Pattern, PatternChar, TextChar
<1>5. ReportsFirst' /\ len_shortest' > WM_B
  BY DEF IInv, ReportInv
<1>6. /\ result'.pattern_id = id /\ result'.soffset = q
  BY <1>2
<1> HIDE DEF Occurs, Ids
<1>7. /\ id \in Ids /\ Occurs(id, q)
      /\ \A p \in 0 .. q - 1, other \in Ids : ~ Occurs(other, p)
      /\ \A other \in 0 .. id - 1 : ~ Occurs(other, q)
  BY <1>2, <1>4, <1>5, <1>6, Zenon DEF ReportsFirst
<1>8. result' \in Abstract!FirstOccurrences
  BY <1>2, <1>3, <1>7, FirstIsPromised
<1> QED
  BY <1>2, <1>8, Zenon DEF Abstract!Answer

(* ...and so is the end of the text. *)
LEMMA EndAnswers ==
  ASSUME IInv, IInv', ReportInv, ReportInv', EndOfText
  PROVE  Abstract!Answer
<1>1. /\ pc = "search" /\ pc' = "done" /\ ret' = "REG_NOMATCH"
      /\ UNCHANGED <<patterns, text, result>>
  BY DEF EndOfText, comp
<1>2. result' = NoResult
  BY <1>1 DEF ReportInv
<1>3. Ids' = Ids /\ \A i1, q1 : Occurs(i1, q1)' <=> Occurs(i1, q1)
  BY <1>1 DEF Ids, count, Occurs, Pattern, PatternChar, TextChar
<1>4. NoMatchIsTrue' /\ len_shortest' > WM_B
  BY DEF IInv, ReportInv
<1> HIDE DEF Occurs, Ids
<1>5. \A q \in 0 .. Len(text), id \in Ids : ~ Occurs(id, q)
  BY <1>1, <1>3, <1>4, Zenon DEF NoMatchIsTrue
<1>6. Abstract!FirstOccurrences = {}
  <2> SUFFICES ASSUME NEW r \in Abstract!FirstOccurrences PROVE FALSE
    OBVIOUS
  <2>1. /\ r.pattern_id \in Abstract!Ids /\ r.soffset \in 0 .. Len(text)
        /\ Abstract!Occurs(r.pattern_id, r.soffset)
    BY DEF Abstract!FirstOccurrences
  <2>2. r.soffset \in Nat
    BY <2>1
  <2> QED
    BY <1>5, <2>1, <2>2, SameOccurrences
<1>7. NoResult = Abstract!NoResult
  BY DEF NoResult, Abstract!NoResult
<1> QED
  BY <1>1, <1>2, <1>6, <1>7, Zenon DEF Abstract!Answer

LEMMA InitAnswers == Init => Abstract!Init
BY DEF Init, Abstract!Init, NoResult, Abstract!NoResult

LEMMA NextAnswers ==
  IInv /\ IInv' /\ ReportInv /\ ReportInv' /\ [Next]_vars => [Abstract!Next]_(Abstract!vars)
<1> SUFFICES ASSUME IInv, IInv', ReportInv, ReportInv', [Next]_vars
             PROVE  [Abstract!Next]_(Abstract!vars)
  OBVIOUS
<1>1. CASE \/ Measure \/ NextPattern \/ Skip \/ NoPrefix \/ BeginScan \/ ScanMiss \/ ScanEnd
           \/ UNCHANGED vars
  BY <1>1 DEF Measure, NextPattern, Skip, NoPrefix, BeginScan, ScanMiss, ScanEnd, InSearch, comp, vars,
              Abstract!vars
<1>2. CASE CreateTable \/ FillChar
  <2>1. /\ pc \in {"measure", "fill"} /\ UNCHANGED <<patterns, text, result>>
        /\ \/ pc' \in {"measure", "fill"} /\ ret' = ret
           \/ pc' = "failed" /\ ret' \in {"REG_ESPACE", "REG_BADPAT"}
    BY <1>2 DEF CreateTable, FillChar, GiveUp
  <2> QED
    BY <2>1 DEF Abstract!Next, Abstract!Reject, Abstract!vars
<1>3. CASE Execute
  BY <1>3 DEF Execute, Compiled, comp, Abstract!Next, Abstract!Ask
<1>4. CASE ScanHit
  BY <1>4, HitAnswers DEF Abstract!Next
<1>5. CASE EndOfText
  BY <1>5, EndAnswers DEF Abstract!Next
<1> QED
  BY <1>1, <1>2, <1>3, <1>4, <1>5, Zenon DEF Next, Compile, Search

(* For patterns of three characters and more, in lists of any length up to      *)
(* WM_MAXPAT: each call of wm_compile and wm_execute is one of FirstMatch, with  *)
(* its answer.  That an answer comes is left to TLC.                          *)
THEOREM MatcherAnswers ==
  ASSUME LongPatterns
  PROVE  Spec => AnswersFirstMatch
<1>1. Spec => Abstract!Init
  BY InitAnswers, PTL DEF Spec
<1>2. Init => ReportInv
  BY InitReport
<1>3. IInv /\ ReportInv /\ [Next]_vars => ReportInv'
  BY NextReport
<1>4. Spec => []ReportInv
  BY <1>2, <1>3, Invariance, PTL DEF Spec
<1>5. Spec => [][Abstract!Next]_(Abstract!vars)
  BY <1>4, Invariance, NextAnswers, PTL DEF Spec
<1> QED
  BY <1>1, <1>5 DEF AnswersFirstMatch, Abstract!Safety
=============================================================================
