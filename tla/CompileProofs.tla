---------------------------- MODULE CompileProofs ----------------------------
(***************************************************************************)
(* The list of patterns is compiled from front to back and is never longer   *)
(* or shorter than what its failure frees and its success hands on.  What is  *)
(* read of each pattern is in all its words, and so is the literal that its   *)
(* matcher is given.  The first holds for all patterns, the second for those  *)
(* that mean what MeaningAssumption says.                                   *)
(***************************************************************************)
EXTENDS Compile, SequenceTheorems, WellFoundedInduction, TLAPS

(* As many patterns are compiled as were gone through: all of them from the   *)
(* choice of the matcher on.                                               *)
Compiling == pc \in {"frec_compile", "preprocess", "build_heuristic"}
Choosing == pc \in {"mcompile", "wm_compile", "compiled"}

ListInv ==
  /\ patterns \in Seq(Pattern) /\ patterns # <<>>
  /\ k \in Nat \ {0}
  /\ \E S : frecs \in Seq(S)
  /\ Len(frecs) = k - 1
  /\ Compiling => k <= Len(patterns) /\ err = -1
  /\ Choosing => k = Len(patterns) + 1 /\ err = -1
  /\ Compiling \/ Choosing \/ pc = "failed"

IInv == ListInv /\ FailureFreesCompiled /\ EveryPatternListed

LEMMA InitIInv == Init => IInv
<1>1. ASSUME Init PROVE ListInv
  <2>1. patterns \in Seq(Pattern) /\ patterns # <<>>
    BY <1>1, PatternsAssumption DEF Init
  <2>2. frecs \in Seq({}) /\ Len(frecs) = 0
    BY <1>1 DEF Init
  <2>3. Len(patterns) >= 1
    BY <2>1
  <2> QED
    BY <1>1, <2>1, <2>2, <2>3 DEF Init, ListInv, Compiling, Choosing
<1> QED
  BY <1>1 DEF Init, IInv, FailureFreesCompiled, EveryPatternListed

(* A compiled pattern is appended, and the next one begins or none is left.   *)
LEMMA CompiledKeepsIInv ==
  ASSUME IInv, Compiling, NEW kind, NEW lit, NEW max, Compiled(kind, lit, max)
  PROVE  IInv'
<1> DEFINE x == [kind |-> kind, lit |-> lit, max |-> max]
<1>1. PICK S : frecs \in Seq(S)
  BY DEF IInv, ListInv
<1>2. frecs \in Seq(S \cup {x}) /\ x \in S \cup {x}
  BY <1>1
<1>3. frecs' = Append(frecs, x)
  BY DEF Compiled
<1> HIDE DEF x
<1>4. frecs' \in Seq(S \cup {x}) /\ Len(frecs') = Len(frecs) + 1
  BY <1>2, <1>3
<1>5. /\ k' = k + 1 /\ patterns' = patterns /\ err' = err
      /\ pc' = IF k < Len(patterns) THEN "frec_compile" ELSE "mcompile"
  BY DEF Compiled, mfrec
<1>6. k \in Nat \ {0} /\ Len(patterns) \in Nat /\ k <= Len(patterns) /\ err = -1 /\ Len(frecs) = k - 1
  BY DEF IInv, ListInv
<1>7. ListInv'
  <2>1. (\E T : frecs \in Seq(T))'
    BY <1>4
  <2>2. (patterns \in Seq(Pattern) /\ patterns # <<>>)'
    BY <1>5 DEF IInv, ListInv
  <2> QED
    BY <2>1, <2>2, <1>4, <1>5, <1>6 DEF ListInv, Compiling, Choosing
<1> QED
  BY <1>5, <1>7 DEF IInv, FailureFreesCompiled, EveryPatternListed

(* While a pattern is read nothing else changes.                            *)
LEMMA ReadingKeepsIInv ==
  ASSUME IInv, Compiling, Compiling', UNCHANGED <<patterns, k, frecs, mfrec>>
  PROVE  IInv'
<1>1. ListInv'
  BY DEF IInv, ListInv, Choosing, Compiling, mfrec
<1> QED
  BY <1>1 DEF IInv, FailureFreesCompiled, EveryPatternListed, Compiling

LEMMA CompilePatternKeepsIInv ==
  ASSUME IInv, CompileLiteral \/ CompileFull \/ CompileHeuristic
  PROVE  IInv'
<1>1. CASE CompileLiteral
  BY <1>1, CompiledKeepsIInv DEF CompileLiteral, Compiling
<1>2. CASE CompileFull
  BY <1>2, CompiledKeepsIInv DEF CompileFull, Compiling
<1>3. CASE CompileHeuristic
  BY <1>3, ReadingKeepsIInv DEF CompileHeuristic, Compiling
<1> QED
  BY <1>1, <1>2, <1>3

LEMMA PreprocessKeepsIInv ==
  ASSUME IInv, Preprocess
  PROVE  IInv'
<1>1. ASSUME GiveUp, Compiling PROVE IInv'
  BY <1>1, CompiledKeepsIInv DEF GiveUp
<1>2. ASSUME Reading, UNCHANGED <<pc, patterns, k, frecs, mfrec>> PROVE IInv'
  BY <1>2, ReadingKeepsIInv DEF Reading, Compiling
<1>3. CASE Skip
  BY <1>3, <1>2 DEF Skip
<1>4. CASE NormalChar
  BY <1>4, <1>2 DEF NormalChar
<1>5. CASE Unsupported \/ TooManyFragments \/ NotClosed
  BY <1>5, <1>1 DEF Unsupported, TooManyFragments, NotClosed, Reading, Compiling
<1>6. CASE Special \/ Dot \/ Bracket \/ Enclosure
  BY <1>6, <1>2 DEF Special, Dot, Bracket, Enclosure, EndFragment
<1>7. CASE LastFragment
  <2>1. CASE CanPush(fragment)
    <3>1. Compiling /\ Compiling' /\ UNCHANGED <<patterns, k, frecs, mfrec>>
      BY <1>7, <2>1 DEF LastFragment, Compiling
    <3> QED
      BY <3>1, ReadingKeepsIInv
  <2>2. CASE ~ CanPush(fragment)
    BY <1>7, <2>2, <1>1 DEF LastFragment, Compiling
  <2> QED
    BY <2>1, <2>2
<1>8. CASE BuildHeuristic
  <2>1. Compiling
    BY <1>8 DEF BuildHeuristic, Compiling
  <2>2. PICK kind, lit, max : Compiled(kind, lit, max)
    BY <1>8 DEF BuildHeuristic
  <2> QED
    BY <2>1, <2>2, CompiledKeepsIInv
<1> QED
  BY <1>3, <1>4, <1>5, <1>6, <1>7, <1>8 DEF Preprocess

LEMMA FailureKeepsIInv ==
  ASSUME IInv, BadPattern \/ WmCompileFails
  PROVE  IInv'
<1>1. pc' = "failed" /\ UNCHANGED <<patterns, k, frecs>>
  BY DEF BadPattern, WmCompileFails
<1>2. PICK S : frecs \in Seq(S)
  BY DEF IInv, ListInv
<1>3. Len(frecs) = k - 1 /\ k \in Nat \ {0} /\ DOMAIN frecs = 1 .. Len(frecs) /\ Len(patterns) \in Nat
  BY <1>2 DEF IInv, ListInv
<1>4. freed' = 1 .. k - 1
  <2>1. CASE BadPattern
    <3>1. k - 1 # -1
      BY <1>3
    <3> QED
      BY <2>1, <3>1 DEF BadPattern, Until
  <2>2. CASE WmCompileFails
    <3>1. k = Len(patterns) + 1 /\ err = -1
      BY <2>2 DEF WmCompileFails, IInv, ListInv, Choosing
    <3>2. Len(patterns) = k - 1
      BY <1>3, <3>1
    <3> QED
      BY <2>2, <3>1, <3>2 DEF WmCompileFails, Until
  <2> QED
    BY <2>1, <2>2
<1>5. ListInv'
  BY <1>1, <1>2 DEF IInv, ListInv, Compiling, Choosing
<1> QED
  BY <1>1, <1>3, <1>4, <1>5 DEF IInv, FailureFreesCompiled, EveryPatternListed

LEMMA ChooseKeepsIInv ==
  ASSUME IInv, Choose \/ WmCompiles
  PROVE  IInv'
<1>1. pc \in {"mcompile", "wm_compile"} /\ pc' \in {"wm_compile", "compiled"}
  BY DEF Choose, ChooseSingle, ChooseLiteral, ChooseNone, ChooseLongest, WmCompiles
<1>2. UNCHANGED <<patterns, k, frecs, err>>
  BY DEF Choose, ChooseSingle, ChooseLiteral, ChooseNone, ChooseLongest, WmCompiles, mfrec
<1>3. ListInv'
  BY <1>1, <1>2 DEF IInv, ListInv, Compiling, Choosing
<1>4. PICK S : frecs \in Seq(S)
  BY DEF IInv, ListInv
<1>5. DOMAIN frecs = DOMAIN patterns
  <2>1. Len(frecs) = k - 1 /\ k = Len(patterns) + 1 /\ patterns \in Seq(Pattern)
    BY <1>1 DEF IInv, ListInv, Choosing
  <2>2. Len(patterns) \in Nat
    BY <2>1
  <2>3. Len(frecs) = Len(patterns)
    BY <2>1, <2>2
  <2> QED
    BY <2>1, <2>3, <1>4
<1>6. EveryPatternListed'
  <2>1. CASE ChooseSingle \/ ChooseNone
    BY <2>1 DEF ChooseSingle, ChooseNone, EveryPatternListed
  <2>2. CASE ChooseLiteral
    BY <2>2 DEF ChooseLiteral, EveryPatternListed
  <2>3. CASE ChooseLongest
    BY <2>3, <1>5 DEF ChooseLongest, EveryPatternListed, PatRefs, NoHeur
  <2>4. CASE WmCompiles
    BY <2>4 DEF WmCompiles, EveryPatternListed, IInv, mfrec
  <2> QED
    BY <2>1, <2>2, <2>3, <2>4 DEF Choose
<1> QED
  BY <1>1, <1>3, <1>6 DEF IInv, FailureFreesCompiled

LEMMA NextIInv == IInv /\ [Next]_vars => IInv'
<1>1. ASSUME IInv, UNCHANGED vars PROVE IInv'
  BY <1>1 DEF vars, mfrec, IInv, ListInv, Compiling, Choosing, FailureFreesCompiled, EveryPatternListed
<1>2. ASSUME IInv, Next PROVE IInv'
  BY <1>2, CompilePatternKeepsIInv, PreprocessKeepsIInv, FailureKeepsIInv, ChooseKeepsIInv DEF Next
<1> QED
  BY <1>1, <1>2

THEOREM Invariance == Spec => []IInv
BY InitIInv, NextIInv, PTL DEF Spec

(* Whichever pattern of the list is refused, and if Wu-Manber fails after all  *)
(* were compiled: frec_mregfree frees the patterns that were compiled and no   *)
(* other one.                                                              *)
THEOREM FailureFrees == Spec => []FailureFreesCompiled
<1>1. IInv => FailureFreesCompiled
  BY DEF IInv
<1> QED
  BY <1>1, Invariance, PTL

(* The list that Wu-Manber is given has a literal for each pattern, under the  *)
(* number the candidates are reported with.                                 *)
THEOREM EveryPatternIsListed == Spec => []EveryPatternListed
<1>1. IInv => EveryPatternListed
  BY DEF IInv
<1> QED
  BY <1>1, Invariance, PTL
-----------------------------------------------------------------------------
LEMMA LeastNumber ==
  ASSUME NEW T \in SUBSET Nat, T # {}
  PROVE  \E x \in T : \A y \in T : x <= y
<1>1. PICK x \in T : \A y \in T : ~ (<<y, x>> \in OpToRel(<, Nat))
  BY WFMin, NatLessThanWellFounded
<1>2. \A y \in T : <<y, x>> \in OpToRel(<, Nat) <=> y < x
  BY DEF OpToRel
<1>3. \A y \in T : ~ (y < x)
  BY <1>1, <1>2, Zenon
<1> QED
  BY <1>3

(* A set of numbers with 0, and with n + 1 for each of its n, has them all. *)
LEMMA AllNumbers ==
  ASSUME NEW T, 0 \in T, \A n \in Nat : n \in T => n + 1 \in T
  PROVE  \A n \in Nat : n \in T
<1> SUFFICES ASSUME NEW m \in Nat, m \notin T PROVE FALSE
  OBVIOUS
<1>1. PICK n \in Nat \ T : \A y \in Nat \ T : n <= y
  <2>1. Nat \ T \in SUBSET Nat /\ Nat \ T # {}
    OBVIOUS
  <2> QED
    BY <2>1, LeastNumber
<1>2. n # 0 /\ n - 1 \in Nat
  BY <1>1
<1>3. n - 1 \in T
  BY <1>1, <1>2
<1>4. (n - 1) + 1 \in T
  BY <1>2, <1>3
<1> QED
  BY <1>1, <1>4

(* The string u lies in w behind the first n characters. *)
Lies(u, w, n) == n >= 0 /\ n + Len(u) <= Len(w) /\ \A x \in 1 .. Len(u) : w[n + x] = u[x]

LEMMA LiesIs ==
  ASSUME NEW S, NEW u \in Seq(S), NEW w \in Seq(S), NEW n \in Nat
  PROVE  Lies(u, w, n) <=> n + Len(u) <= Len(w) /\ SubSeq(w, n + 1, n + Len(u)) = u
<1>1. Len(u) \in Nat /\ Len(w) \in Nat /\ DOMAIN u = 1 .. Len(u)
  OBVIOUS
<1> SUFFICES ASSUME n + Len(u) <= Len(w)
             PROVE  (\A x \in 1 .. Len(u) : w[n + x] = u[x]) <=> SubSeq(w, n + 1, n + Len(u)) = u
  BY <1>1 DEF Lies
<1> DEFINE part == SubSeq(w, n + 1, n + Len(u))
<1>2. part \in Seq(S) /\ Len(part) = Len(u) /\ \A x \in 1 .. Len(u) : part[x] = w[n + x]
  <2>1. \A x \in n + 1 .. n + Len(u) : w[x] \in S
    BY <1>1
  <2>2. part \in Seq(S)
    BY <1>1, <2>1, SubSeqProperties
  <2>3. Len(part) = Len(u) /\ \A x \in 1 .. Len(u) : part[x] = w[n + x]
    BY <1>1
  <2> QED
    BY <2>2, <2>3
<1> HIDE DEF part
<1>3. part = u <=> \A x \in 1 .. Len(u) : part[x] = u[x]
  BY <1>1, <1>2, SeqEqual
<1>4. (\A x \in 1 .. Len(u) : w[n + x] = u[x]) <=> part = u
  BY <1>2, <1>3
<1> QED
  BY <1>4 DEF part

(* The fragments fs lie in w one behind the other, each before its end and the *)
(* last string at the end of w.                                             *)
Embedded(fs, w, last) ==
  /\ Lies(last, w, Len(w) - Len(last))
  /\ \E ends \in [0 .. Len(fs) -> 0 .. Len(w)] :
       /\ \A n \in 1 .. Len(fs) : ends[n - 1] <= ends[n] - Len(fs[n]) /\ Lies(fs[n], w, ends[n] - Len(fs[n]))
       /\ ends[Len(fs)] <= Len(w) - Len(last)

(* Behind is a function: the end of a fragment comes from that of the one before. *)
BehindTo(h, fs, w, m) == h = [n \in 0 .. m |-> IF n = 0 THEN 0 ELSE FirstEnd(fs[n], w, h[n - 1])]

LEMMA BehindDef ==
  ASSUME NEW fs, NEW w, Len(fs) \in Nat
  PROVE  /\ Behind(fs, w)[0] = 0
         /\ \A n \in 1 .. Len(fs) : Behind(fs, w)[n] = FirstEnd(fs[n], w, Behind(fs, w)[n - 1])
<1> DEFINE T == {m \in Nat : \E h : BehindTo(h, fs, w, m)}
<1>1. 0 \in T
  <2>1. BehindTo([n \in 0 .. 0 |-> 0], fs, w, 0)
    BY DEF BehindTo
  <2> QED
    BY <2>1, Zenon
<1>2. ASSUME NEW m \in Nat, m \in T
      PROVE  m + 1 \in T
  <2>1. PICK h : BehindTo(h, fs, w, m)
    BY <1>2, Zenon
  <2> DEFINE e == [n \in 0 .. m + 1 |-> IF n = 0 THEN 0 ELSE FirstEnd(fs[n], w, h[n - 1])]
  <2>2. \A n \in 0 .. m : e[n] = h[n]
    BY <2>1 DEF BehindTo
  <2> HIDE DEF e
  <2>3. \A n \in 0 .. m + 1 : n # 0 => h[n - 1] = e[n - 1]
    <3> SUFFICES ASSUME NEW n \in 0 .. m + 1, n # 0 PROVE h[n - 1] = e[n - 1]
      OBVIOUS
    <3>1. n - 1 \in 0 .. m
      OBVIOUS
    <3> QED
      BY <3>1, <2>2
  <2>4. BehindTo(e, fs, w, m + 1)
    BY <2>3 DEF BehindTo, e
  <2>5. \E d : BehindTo(d, fs, w, m + 1)
    BY <2>4
  <2> QED
    BY <2>5
<1>3. \A m \in Nat : m \in T
  <2> HIDE DEF T
  <2> QED
    BY <1>1, <1>2, AllNumbers
<1>4. \E h : BehindTo(h, fs, w, Len(fs))
  <2>1. Len(fs) \in T
    BY <1>3, Zenon
  <2> QED
    BY <2>1
<1> DEFINE behind == CHOOSE h : BehindTo(h, fs, w, Len(fs))
<1>5. BehindTo(behind, fs, w, Len(fs))
  BY <1>4
<1>6. Behind(fs, w) = behind
  BY DEF Behind, BehindTo
<1> HIDE DEF behind
<1>7. behind[0] = 0
  BY <1>5 DEF BehindTo
<1>8. ASSUME NEW n \in 1 .. Len(fs) PROVE behind[n] = FirstEnd(fs[n], w, behind[n - 1])
  <2>1. n \in 0 .. Len(fs) /\ n # 0
    OBVIOUS
  <2> QED
    BY <1>5, <2>1, Zenon DEF BehindTo
<1> QED
  BY <1>6, <1>7, <1>8

(* The first place is the best: no other one ends before it. *)
LEMMA FirstEndIsFirst ==
  ASSUME NEW S, NEW u \in Seq(S), NEW w \in Seq(S), NEW from \in Nat, NEW n \in Nat,
         from <= n, Lies(u, w, n)
  PROVE  FirstEnd(u, w, from) \in Nat /\ FirstEnd(u, w, from) <= n + Len(u)
<1>1. Len(u) \in Nat /\ Len(w) \in Nat
  OBVIOUS
<1>2. n \in Places(u, w, from)
  <2>1. n + Len(u) <= Len(w) /\ SubSeq(w, n + 1, n + Len(u)) = u
    BY LiesIs
  <2>2. n \in from .. Len(w) - Len(u)
    BY <1>1, <2>1
  <2> QED
    BY <2>1, <2>2 DEF Places
<1>3. Places(u, w, from) \in SUBSET Nat
  BY <1>1 DEF Places
<1> DEFINE x == CHOOSE x \in Places(u, w, from) : \A y \in Places(u, w, from) : x <= y
<1>4. x \in Places(u, w, from) /\ \A y \in Places(u, w, from) : x <= y
  <2>1. \E z \in Places(u, w, from) : \A y \in Places(u, w, from) : z <= y
    BY <1>2, <1>3, LeastNumber
  <2> QED
    BY <2>1
<1> HIDE DEF x
<1>5. FirstEnd(u, w, from) = x + Len(u)
  BY <1>2 DEF FirstEnd, x
<1>6. x \in Nat /\ x <= n
  BY <1>2, <1>3, <1>4
<1> QED
  BY <1>1, <1>5, <1>6

LEMMA EmbeddedOccurs ==
  ASSUME NEW S, NEW fs \in Seq(Seq(S)), NEW w \in Seq(S), NEW last \in Seq(S), Embedded(fs, w, last)
  PROVE  OccurIn(fs, w, last)
<1>1. Len(fs) \in Nat /\ Len(w) \in Nat /\ Len(last) \in Nat
  OBVIOUS
<1>2. /\ Behind(fs, w)[0] = 0
      /\ \A n \in 1 .. Len(fs) : Behind(fs, w)[n] = FirstEnd(fs[n], w, Behind(fs, w)[n - 1])
  BY <1>1, BehindDef
<1>3. PICK ends \in [0 .. Len(fs) -> 0 .. Len(w)] :
       /\ \A n \in 1 .. Len(fs) : ends[n - 1] <= ends[n] - Len(fs[n]) /\ Lies(fs[n], w, ends[n] - Len(fs[n]))
       /\ ends[Len(fs)] <= Len(w) - Len(last)
  BY DEF Embedded
<1> DEFINE T == {n \in Nat : n <= Len(fs) => Behind(fs, w)[n] \in Nat /\ Behind(fs, w)[n] <= ends[n]}
<1>4. 0 \in T
  BY <1>1, <1>2, <1>3
<1>5. ASSUME NEW n \in Nat, n \in T
      PROVE  n + 1 \in T
  <2> SUFFICES ASSUME n + 1 <= Len(fs)
               PROVE  Behind(fs, w)[n + 1] \in Nat /\ Behind(fs, w)[n + 1] <= ends[n + 1]
    OBVIOUS
  <2>1. n + 1 \in 1 .. Len(fs) /\ (n + 1) - 1 = n /\ n \in 0 .. Len(fs) /\ n + 1 \in 0 .. Len(fs)
    BY <1>1
  <2>2. PICK u \in Seq(S) : u = fs[n + 1]
    BY <2>1
  <2>3. PICK b \in Nat : b = Behind(fs, w)[n] /\ b <= ends[n]
    BY <1>1, <1>5, <2>1
  <2>4. PICK e \in Nat, d \in Nat : e = ends[n + 1] /\ d = ends[n]
    <3>1. ends[n + 1] \in 0 .. Len(w) /\ ends[n] \in 0 .. Len(w)
      BY <1>3, <2>1
    <3> QED
      BY <3>1, <1>1
  <2>5. d <= e - Len(u) /\ Lies(u, w, e - Len(u))
    BY <1>3, <2>1, <2>2, <2>4
  <2>6. Len(u) \in Nat
    OBVIOUS
  <2>7. PICK m \in Nat : m = e - Len(u)
    BY <2>4, <2>5, <2>6
  <2>8. FirstEnd(u, w, b) \in Nat /\ FirstEnd(u, w, b) <= m + Len(u)
    <3>1. b <= m
      <4>1. b <= d
        BY <2>3, <2>4
      <4>2. d <= m
        BY <2>5, <2>7
      <4> QED
        BY <4>1, <4>2
    <3>2. Lies(u, w, m)
      BY <2>5, <2>7
    <3> QED
      BY <3>1, <3>2, FirstEndIsFirst
  <2>9. Behind(fs, w)[n + 1] = FirstEnd(u, w, b)
    BY <1>2, <2>1, <2>2, <2>3
  <2> QED
    BY <2>4, <2>6, <2>7, <2>8, <2>9
<1>6. Behind(fs, w)[Len(fs)] \in Nat /\ Behind(fs, w)[Len(fs)] <= ends[Len(fs)]
  <2>1. \A n \in Nat : n \in T
    <3> HIDE DEF T
    <3> QED
      BY <1>4, <1>5, AllNumbers
  <2> QED
    BY <1>1, <2>1
<1>7. SubSeq(w, Len(w) - Len(last) + 1, Len(w)) = last
  <2>1. Lies(last, w, Len(w) - Len(last))
    BY DEF Embedded
  <2>2. PICK n \in Nat : n = Len(w) - Len(last)
    <3>1. PICK x \in Nat, y \in Nat : x = Len(w) /\ y = Len(last)
      BY <1>1
    <3>2. x - y >= 0
      BY <2>1, <3>1 DEF Lies
    <3>3. x - y \in Nat
      BY <3>2
    <3> QED
      BY <3>1, <3>3
  <2>3. n + Len(last) = Len(w) /\ SubSeq(w, n + 1, n + Len(last)) = last
    BY <1>1, <2>1, <2>2, LiesIs
  <2> QED
    BY <2>2, <2>3
<1>8. ends[Len(fs)] \in Nat
  BY <1>1, <1>3
<1> QED
  BY <1>1, <1>3, <1>6, <1>7, <1>8 DEF OccurIn

(* The word w begins with u. *)
Extends(w, u) == Len(u) <= Len(w) /\ \A x \in 1 .. Len(u) : w[x] = u[x]

LEMMA LiesInLonger ==
  ASSUME NEW S, NEW f \in Seq(S), NEW u \in Seq(S), NEW w \in Seq(S), Extends(w, u),
         NEW n \in Int, Lies(f, u, n)
  PROVE  Lies(f, w, n)
<1>1. PICK a \in Nat, b \in Nat, c \in Nat : a = Len(f) /\ b = Len(u) /\ c = Len(w)
  OBVIOUS
<1>2. n >= 0 /\ n + a <= b /\ b <= c
  BY <1>1 DEF Lies, Extends
<1>3. ASSUME NEW x \in 1 .. a PROVE w[n + x] = f[x]
  <2>1. n + x \in 1 .. b
    BY <1>2
  <2>2. w[n + x] = u[n + x] /\ u[n + x] = f[x]
    BY <1>1, <2>1 DEF Lies, Extends
  <2> QED
    BY <2>2
<1> QED
  BY <1>1, <1>2, <1>3 DEF Lies

(* The fragments of a word lie in a longer one as well... *)
LEMMA EmbeddedInLonger ==
  ASSUME NEW S, NEW fs \in Seq(Seq(S)), NEW u \in Seq(S), NEW w \in Seq(S), Extends(w, u),
         NEW f \in Seq(S), Embedded(fs, u, f),
         NEW last \in Seq(S), Lies(last, w, Len(w) - Len(last)), Len(u) - Len(f) <= Len(w) - Len(last)
  PROVE  Embedded(fs, w, last)
<1>1. PICK m \in Nat, b \in Nat, c \in Nat : m = Len(fs) /\ b = Len(u) /\ c = Len(w)
  OBVIOUS
<1>2. PICK ends \in [0 .. m -> 0 .. b] :
       /\ \A n \in 1 .. m : ends[n - 1] <= ends[n] - Len(fs[n]) /\ Lies(fs[n], u, ends[n] - Len(fs[n]))
       /\ ends[m] <= Len(u) - Len(f)
  BY <1>1 DEF Embedded
<1>3. b <= c
  BY <1>1 DEF Extends
<1>4. ends \in [0 .. m -> 0 .. c]
  <2>1. 0 .. b \subseteq 0 .. c
    BY <1>3
  <2> QED
    BY <1>2, <2>1
<1>5. ASSUME NEW n \in 1 .. m PROVE Lies(fs[n], w, ends[n] - Len(fs[n]))
  <2>1. PICK g \in Seq(S), l \in Nat : g = fs[n] /\ l = Len(g)
    BY <1>1
  <2>2. n \in 0 .. m
    OBVIOUS
  <2>3. ends[n] \in 0 .. b
    BY <1>2, <2>2
  <2>4. PICK e \in Nat : e = ends[n]
    BY <2>3
  <2>5. e - l \in Int /\ Lies(g, u, e - l)
    <3>1. Lies(fs[n], u, ends[n] - Len(fs[n]))
      BY <1>2
    <3>2. Lies(g, u, e - l)
      BY <2>1, <2>4, <3>1, Zenon
    <3> QED
      BY <3>2
  <2>6. Lies(g, w, e - l)
    BY <2>5, LiesInLonger
  <2> QED
    BY <2>1, <2>4, <2>6
<1>6. ends[m] <= Len(w) - Len(last)
  <2>1. m \in 0 .. m
    OBVIOUS
  <2>2. ends[m] \in 0 .. b
    BY <1>2, <2>1
  <2>3. PICK e \in Nat, x \in Nat, y \in Nat : e = ends[m] /\ x = Len(f) /\ y = Len(last)
    BY <2>2
  <2>4. e <= b - x /\ b - x <= c - y
    BY <1>1, <1>2, <2>3
  <2>5. e <= c - y
    BY <2>4
  <2> QED
    BY <1>1, <2>3, <2>5
<1> QED
  BY <1>1, <1>2, <1>4, <1>5, <1>6 DEF Embedded

(* ...and so does one more, behind them, where the last string was. *)
LEMMA OneMoreEmbedded ==
  ASSUME NEW S, NEW fs \in Seq(Seq(S)), NEW u \in Seq(S), NEW w \in Seq(S), Extends(w, u),
         NEW g \in Seq(S), Embedded(fs, u, g), NEW f \in Seq(S), Lies(f, w, Len(u) - Len(g))
  PROVE  Embedded(Append(fs, f), w, <<>>)
<1>1. PICK m \in Nat, b \in Nat, c \in Nat, x \in Nat, y \in Nat :
        m = Len(fs) /\ b = Len(u) /\ c = Len(w) /\ x = Len(g) /\ y = Len(f)
  OBVIOUS
<1>2. Embedded(fs, w, <<>>)
  <2>1. <<>> \in Seq(S) /\ Len(<<>>) = 0
    BY EmptySeq
  <2>2. Lies(<<>>, w, Len(w) - Len(<<>>))
    BY <1>1, <2>1 DEF Lies
  <2>3. Len(u) - Len(g) <= Len(w) - Len(<<>>)
    BY <1>1, <2>1 DEF Extends
  <2> QED
    BY <2>1, <2>2, <2>3, EmbeddedInLonger
<1>3. PICK ends \in [0 .. m -> 0 .. b] :
       /\ \A n \in 1 .. m : ends[n - 1] <= ends[n] - Len(fs[n]) /\ Lies(fs[n], u, ends[n] - Len(fs[n]))
       /\ ends[m] <= b - x
  BY <1>1 DEF Embedded
<1> DEFINE more == [n \in 0 .. m + 1 |-> IF n = m + 1 THEN b - x + y ELSE ends[n]]
           all == Append(fs, f)
<1>4. b - x >= 0 /\ b - x + y <= c /\ Lies(f, w, b - x) /\ b <= c
  BY <1>1 DEF Lies, Extends
<1>5. \A n \in 0 .. m : more[n] = ends[n] /\ more[n] \in 0 .. b
  <2> SUFFICES ASSUME NEW n \in 0 .. m PROVE more[n] = ends[n] /\ ends[n] \in 0 .. b
    OBVIOUS
  <2>1. ends[n] \in 0 .. b
    BY <1>3
  <2> QED
    BY <2>1
<1>6. more[m + 1] = b - x + y
  OBVIOUS
<1>7. more \in [0 .. m + 1 -> 0 .. c]
  <2>1. ASSUME NEW n \in 0 .. m + 1 PROVE more[n] \in 0 .. c
    <3>1. CASE n = m + 1
      BY <1>4, <1>6, <3>1
    <3>2. CASE n # m + 1
      <4>1. n \in 0 .. m
        BY <3>2
      <4> QED
        BY <1>4, <1>5, <4>1
    <3> QED
      BY <3>1, <3>2
  <2> QED
    BY <2>1
<1>8. all \in Seq(Seq(S)) /\ Len(all) = m + 1 /\ all[m + 1] = f /\ \A n \in 1 .. m : all[n] = fs[n]
  BY <1>1, AppendProperties
<1> HIDE DEF more, all
<1>9. ASSUME NEW n \in 1 .. m + 1
      PROVE  more[n - 1] <= more[n] - Len(all[n]) /\ Lies(all[n], w, more[n] - Len(all[n]))
  <2>1. CASE n = m + 1
    <3>1. m \in 0 .. m /\ n - 1 = m
      <4>1. m \in 0 .. m
        OBVIOUS
      <4>2. (m + 1) - 1 = m
        OBVIOUS
      <4> QED
        BY <2>1, <4>1, <4>2
    <3>2. PICK e \in Nat : e = more[m] /\ e = ends[m]
      <4>1. more[m] = ends[m] /\ more[m] \in 0 .. b
        BY <1>5, <3>1
      <4> QED
        BY <4>1
    <3>3. e <= b - x
      BY <1>3, <3>2
    <3>4. more[n] - Len(all[n]) = b - x
      BY <1>1, <1>6, <1>8, <2>1
    <3> QED
      BY <1>4, <1>8, <2>1, <3>1, <3>2, <3>3, <3>4
  <2>2. CASE n # m + 1
    <3>1. n \in 1 .. m /\ n \in 0 .. m /\ n - 1 \in 0 .. m
      <4>1. n \in Nat /\ 1 <= n /\ n <= m
        BY <2>2
      <4> QED
        BY <4>1
    <3>2. PICK h \in Seq(S), l \in Nat : h = fs[n] /\ h = all[n] /\ l = Len(h)
      <4>1. fs[n] \in Seq(S) /\ all[n] = fs[n]
        BY <1>1, <1>8, <3>1
      <4>2. Len(fs[n]) \in Nat
        BY <4>1
      <4> QED
        BY <4>1, <4>2
    <3>3. PICK d \in Nat, e \in Nat : d = more[n - 1] /\ d = ends[n - 1] /\ e = more[n] /\ e = ends[n]
      <4>1. more[n - 1] = ends[n - 1] /\ more[n - 1] \in 0 .. b /\ more[n] = ends[n] /\ more[n] \in 0 .. b
        BY <1>5, <3>1
      <4> QED
        BY <4>1
    <3>4. d <= e - l /\ Lies(h, u, e - l) /\ e - l \in Int
      <4>1. ends[n - 1] <= ends[n] - Len(fs[n]) /\ Lies(fs[n], u, ends[n] - Len(fs[n]))
        BY <1>3, <3>1
      <4>2. d <= e - l
        BY <3>2, <3>3, <4>1
      <4>3. Lies(h, u, e - l)
        BY <3>2, <3>3, <4>1, Zenon
      <4> QED
        BY <4>2, <4>3
    <3>5. Lies(h, w, e - l)
      BY <3>4, LiesInLonger
    <3> QED
      BY <3>2, <3>3, <3>4, <3>5
  <2> QED
    BY <2>1, <2>2
<1>10. more[m + 1] <= Len(w) - Len(<<>>)
  BY <1>1, <1>4, <1>6, EmptySeq
<1>11. Lies(<<>>, w, Len(w) - Len(<<>>))
  BY <1>2 DEF Embedded
<1>12. Embedded(all, w, <<>>)
  BY <1>1, <1>7, <1>8, <1>9, <1>10, <1>11 DEF Embedded
<1> QED
  BY <1>12 DEF all

(* Characters, with the newline, which the provers do not take for a string.   *)
Letter == STRING \cup {Newline}
Text == Seq(Letter)

LEMMA StringsAreText == Seq(STRING) \subseteq Text
<1>1. STRING \subseteq Letter
  BY DEF Letter
<1>2. ASSUME NEW s \in Seq(STRING) PROVE s \in Seq(Letter)
  BY <1>1, SeqMonotonic
<1> QED
  BY <1>2 DEF Text

(* What is collected of a pattern fits a word of it: the fragments, and last  *)
(* for the one that is not finished, the length, whether a line feed may be    *)
(* in it, and whether it begins with the first fragment.                     *)
Fits(w, fs, last, known, max, lf, start) ==
  /\ Embedded(fs, w, last)
  /\ known => Len(w) <= max
  /\ HasNewline(w) => lf
  /\ start => IF fs = <<>> THEN w = last ELSE IsStart(fs[1], w)

LEMMA FirstOfMore ==
  ASSUME NEW S, NEW s \in Seq(S), s # <<>>, NEW x \in S
  PROVE  Append(s, x) # <<>> /\ Append(s, x)[1] = s[1]
<1>1. 1 \in 1 .. Len(s)
  OBVIOUS
<1> QED
  BY <1>1, AppendProperties

LEMMA JoinedAre ==
  ASSUME NEW before, NEW own, NEW w \in Joined(before, own)
  PROVE  \E u \in before, v \in own : w = u \o v
BY DEF Joined

LEMMA JoinedWord ==
  ASSUME NEW S, NEW u \in Seq(S), NEW v \in Seq(S)
  PROVE  /\ u \o v \in Seq(S) /\ Len(u \o v) = Len(u) + Len(v)
         /\ Extends(u \o v, u)
         /\ \A x \in 1 .. Len(v) : (u \o v)[Len(u) + x] = v[x]
         /\ HasNewline(u \o v) => HasNewline(u) \/ HasNewline(v)
<1> DEFINE w == u \o v
<1>1. PICK a \in Nat, b \in Nat : a = Len(u) /\ b = Len(v) /\ DOMAIN u = 1 .. a /\ DOMAIN v = 1 .. b
  OBVIOUS
<1>2. w \in Seq(S) /\ Len(w) = a + b /\ \A x \in 1 .. a + b : w[x] = IF x <= a THEN u[x] ELSE v[x - a]
  BY <1>1, ConcatProperties
<1> HIDE DEF w
<1>3. \A x \in 1 .. a : w[x] = u[x]
  BY <1>2
<1>4. ASSUME NEW x \in 1 .. b PROVE w[a + x] = v[x]
  <2>1. a + x \in 1 .. a + b /\ ~ (a + x <= a) /\ (a + x) - a = x
    OBVIOUS
  <2> QED
    BY <1>2, <2>1
<1>5. DOMAIN w = 1 .. a + b
  BY <1>2
<1>6. ASSUME HasNewline(w) PROVE HasNewline(u) \/ HasNewline(v)
  <2>1. PICK x \in 1 .. a + b : w[x] = Newline
    BY <1>5, <1>6 DEF HasNewline
  <2>2. CASE x <= a
    <3>1. x \in DOMAIN u /\ u[x] = Newline
      BY <1>1, <1>2, <2>1, <2>2
    <3> QED
      BY <3>1 DEF HasNewline
  <2>3. CASE ~ (x <= a)
    <3>1. x - a \in DOMAIN v /\ v[x - a] = Newline
      BY <1>1, <1>2, <2>1, <2>3
    <3> QED
      BY <3>1 DEF HasNewline
  <2> QED
    BY <2>2, <2>3
<1>7. Extends(w, u)
  BY <1>1, <1>2, <1>3 DEF Extends
<1> QED
  BY <1>1, <1>2, <1>4, <1>6, <1>7 DEF w

LEMMA StartLies ==
  ASSUME NEW S, NEW f \in Seq(S), NEW w \in Seq(S)
  PROVE  IsStart(f, w) <=> Lies(f, w, 0)
<1>1. PICK a \in Nat : a = Len(f)
  OBVIOUS
<1>2. 0 \in Nat /\ 0 + Len(f) = Len(f) /\ 0 + 1 = 1
  BY <1>1
<1>3. Lies(f, w, 0) <=> 0 + Len(f) <= Len(w) /\ SubSeq(w, 0 + 1, 0 + Len(f)) = f
  BY <1>2, LiesIs
<1> QED
  BY <1>2, <1>3 DEF IsStart

(* What begins a word begins a longer one. *)
LEMMA StartOfLonger ==
  ASSUME NEW S, NEW f \in Seq(S), NEW u \in Seq(S), NEW w \in Seq(S), Extends(w, u), IsStart(f, u)
  PROVE  IsStart(f, w)
<1>1. Lies(f, u, 0)
  BY StartLies
<1>2. Lies(f, w, 0)
  BY <1>1, LiesInLonger
<1> QED
  BY <1>2, StartLies

(* A plain character, read at the end of a word... *)
LEMMA PlainFits ==
  ASSUME NEW S, NEW fs \in Seq(Seq(S)), NEW last \in Seq(S), NEW u \in Seq(S), NEW c \in S,
         NEW known, NEW max \in Nat, NEW lf, NEW lf2, NEW start,
         Fits(u, fs, last, known, max, lf, start), lf => lf2, c = Newline => lf2
  PROVE  Fits(u \o <<c>>, fs, Append(last, c), known, max + 1, lf2, start)
<1> DEFINE w == u \o <<c>>
           f == Append(last, c)
<1>1. PICK a \in Nat, b \in Nat : a = Len(u) /\ b = Len(last)
  OBVIOUS
<1>2. <<c>> \in Seq(S) /\ Len(<<c>>) = 1
  OBVIOUS
<1>3. w \in Seq(S) /\ Len(w) = a + 1 /\ Extends(w, u) /\ w[a + 1] = c
  <2>1. 1 \in 1 .. Len(<<c>>) /\ <<c>>[1] = c
    BY <1>2
  <2> DEFINE v == <<c>>
  <2>2. v \in Seq(S) /\ Len(v) = 1 /\ v[1] = c
    BY <1>2, <2>1
  <2> HIDE DEF v
  <2>3. /\ u \o v \in Seq(S) /\ Len(u \o v) = Len(u) + Len(v) /\ Extends(u \o v, u)
        /\ \A x \in 1 .. Len(v) : (u \o v)[Len(u) + x] = v[x]
    BY <2>2, JoinedWord
  <2>4. (u \o v)[a + 1] = c
    BY <1>1, <2>2, <2>3
  <2> QED
    BY <1>1, <2>2, <2>3, <2>4 DEF v
<1>4. HasNewline(w) => HasNewline(u) \/ c = Newline
  BY <1>2, JoinedWord DEF HasNewline
<1>5. f \in Seq(S) /\ Len(f) = b + 1 /\ f[b + 1] = c /\ \A x \in 1 .. b : f[x] = last[x]
  BY <1>1, AppendProperties
<1>6. f = last \o <<c>>
  BY AppendIsConcat
<1> HIDE DEF f
<1>7. Lies(last, u, a - b) /\ a - b \in Int
  BY <1>1 DEF Fits, Embedded
<1>8. Lies(f, w, Len(w) - Len(f))
  <2>1. Lies(last, w, a - b)
    <3> HIDE DEF w
    <3> QED
      BY <1>3, <1>7, LiesInLonger
  <2>2. a - b >= 0 /\ \A x \in 1 .. b : w[(a - b) + x] = f[x]
    <3> HIDE DEF w
    <3> QED
      BY <1>1, <1>5, <2>1 DEF Lies
  <2>3. ASSUME NEW x \in 1 .. b + 1 PROVE w[(a - b) + x] = f[x]
    <3>1. CASE x = b + 1
      <4>1. (a - b) + x = a + 1
        BY <3>1
      <4> QED
        BY <1>3, <1>5, <3>1, <4>1
    <3>2. CASE x # b + 1
      <4>1. x \in 1 .. b
        BY <3>2
      <4> QED
        BY <2>2, <4>1
    <3> QED
      BY <3>1, <3>2
  <2>4. Len(w) - Len(f) = a - b
    BY <1>3, <1>5
  <2> HIDE DEF w
  <2> QED
    <3>1. Len(f) = b + 1 /\ (a - b) + Len(f) <= Len(w)
      BY <1>3, <1>5, <2>4
    <3>2. Lies(f, w, a - b)
      BY <2>2, <2>3, <3>1 DEF Lies
    <3> QED
      BY <2>4, <3>2
<1>9. Embedded(fs, w, f)
  <2>1. Len(u) - Len(last) <= Len(w) - Len(f)
    BY <1>1, <1>3, <1>5
  <2> HIDE DEF w
  <2> QED
    BY <1>3, <1>5, <1>8, <2>1, EmbeddedInLonger DEF Fits
<1>10. known => Len(w) <= max + 1
  BY <1>1, <1>3 DEF Fits
<1>11. start => IF fs = <<>> THEN w = f ELSE IsStart(fs[1], w)
  <2>1. CASE fs = <<>>
    BY <1>6, <2>1 DEF Fits
  <2>2. ASSUME start, fs # <<>> PROVE IsStart(fs[1], w)
    <3>1. fs[1] \in Seq(S)
      BY <2>2
    <3>2. IsStart(fs[1], u)
      BY <2>2 DEF Fits
    <3> HIDE DEF w
    <3> QED
      BY <1>3, <3>1, <3>2, StartOfLonger
  <2> QED
    BY <2>1, <2>2
<1> HIDE DEF w
<1>12. Fits(w, fs, f, known, max + 1, lf2, start)
  BY <1>4, <1>9, <1>10, <1>11 DEF Fits
<1> QED
  BY <1>12 DEF w, f

(* ...and a fragment that ends, and with it what is known of the length, the   *)
(* newlines and the start: behind the word comes what the item means that     *)
(* ended the fragment.                                                     *)
Pushing(u, g, v, fs, f, all, known, max, lf, start, known2, max2, lf2, start2) ==
  /\ u \in Text /\ g \in Text /\ v \in Text /\ fs \in Seq(Text) /\ f \in Text /\ max \in Nat /\ max2 \in Nat
  /\ Fits(u, fs, g, known, max, lf, start)
  /\ f # <<>> => Lies(f, u \o v, Len(u) - Len(g))
  /\ known2 => known /\ max + Len(v) <= max2
  /\ lf => lf2
  /\ HasNewline(v) => lf2
  /\ start2 => start /\ (f # <<>> \/ fs # <<>>)
  /\ all = IF f = <<>> THEN fs ELSE Append(fs, f)

LEMMA PushedFits ==
  ASSUME NEW fs, NEW all, NEW g, NEW f, NEW u, NEW v,
         NEW known, NEW max, NEW lf, NEW start, NEW known2, NEW max2, NEW lf2, NEW start2,
         Pushing(u, g, v, fs, f, all, known, max, lf, start, known2, max2, lf2, start2)
  PROVE  Fits(u \o v, all, <<>>, known2, max2, lf2, start2)
<1> DEFINE S == Letter
           w == u \o v
<1> u \in Seq(S) /\ g \in Seq(S) /\ v \in Seq(S) /\ fs \in Seq(Seq(S)) /\ f \in Seq(S) /\ max \in Nat /\ max2 \in Nat
  BY DEF Pushing, Text
<1> HIDE DEF S
<1>0. fs # <<>> => Append(fs, f) # <<>> /\ Append(fs, f)[1] = fs[1]
  BY FirstOfMore
<1> /\ Fits(u, fs, g, known, max, lf, start)
    /\ f # <<>> => Lies(f, u \o v, Len(u) - Len(g))
    /\ known2 => known /\ max + Len(v) <= max2
    /\ lf => lf2
    /\ HasNewline(v) => lf2
    /\ start2 => start /\ (f # <<>> \/ fs # <<>>)
    /\ all = IF f = <<>> THEN fs ELSE Append(fs, f)
  BY DEF Pushing
<1>1. PICK a \in Nat, b \in Nat, x \in Nat : a = Len(u) /\ b = Len(v) /\ x = Len(g)
  OBVIOUS
<1>2. w \in Seq(S) /\ Len(w) = a + b /\ Extends(w, u) /\ (HasNewline(w) => HasNewline(u) \/ HasNewline(v))
  BY <1>1, JoinedWord
<1>3. f # <<>> => Lies(f, w, Len(u) - Len(g))
  OBVIOUS
<1> HIDE DEF w
<1>4. Embedded(fs, u, g)
  BY DEF Fits
<1>5. Embedded(all, w, <<>>)
  <2>1. CASE f = <<>>
    <3>1. <<>> \in Seq(S) /\ Len(<<>>) = 0
      BY EmptySeq
    <3>2. Lies(<<>>, w, Len(w) - Len(<<>>))
      BY <1>2, <3>1 DEF Lies
    <3>3. Len(u) - Len(g) <= Len(w) - Len(<<>>)
      BY <1>1, <1>2, <3>1
    <3> QED
      BY <1>2, <1>4, <2>1, <3>1, <3>2, <3>3, EmbeddedInLonger
  <2>2. CASE f # <<>>
    BY <1>2, <1>3, <1>4, <2>2, OneMoreEmbedded
  <2> QED
    BY <2>1, <2>2
<1>6. known2 => Len(w) <= max2
  BY <1>1, <1>2 DEF Fits
<1>7. HasNewline(w) => lf2
  BY <1>2 DEF Fits
<1>8. ASSUME start2 PROVE all # <<>> /\ IsStart(all[1], w)
  <2>1. CASE fs = <<>>
    <3>1. f # <<>> /\ u = g
      BY <1>8, <2>1 DEF Fits
    <3>2. Append(<<>>, f) # <<>> /\ Append(<<>>, f)[1] = f
      OBVIOUS
    <3>3. all # <<>> /\ all[1] = f
      BY <2>1, <3>1, <3>2
    <3>4. Lies(f, w, 0)
      <4>1. Len(u) - Len(g) = 0
        BY <1>1, <3>1
      <4> QED
        BY <1>3, <3>1, <4>1
    <3>5. IsStart(f, w)
      BY <1>2, <3>4, StartLies
    <3> QED
      BY <3>3, <3>5
  <2>2. CASE fs # <<>>
    <3>1. fs[1] \in Seq(S) /\ 1 \in 1 .. Len(fs)
      BY <2>2
    <3>2. Append(fs, f) # <<>> /\ Append(fs, f)[1] = fs[1]
      BY <1>0, <2>2
    <3>3. all # <<>> /\ all[1] = fs[1]
      BY <2>2, <3>2
    <3>4. IsStart(fs[1], u)
      BY <1>8, <2>2 DEF Fits
    <3>5. IsStart(fs[1], w)
      BY <1>2, <3>1, <3>4, StartOfLonger
    <3> QED
      BY <3>3, <3>5
  <2> QED
    BY <2>1, <2>2
<1>9. Fits(w, all, <<>>, known2, max2, lf2, start2)
  BY <1>5, <1>6, <1>7, <1>8 DEF Fits
<1> QED
  BY <1>9 DEF w

(* The fragment lies where the word ends, and one character farther where it   *)
(* is kept whole for a '+' and each repetition begins with its character.      *)
LEMMA EndOfWordLies ==
  ASSUME NEW S, NEW g \in Seq(S), NEW u \in Seq(S), NEW v \in Seq(S), Lies(g, u, Len(u) - Len(g))
  PROVE  Lies(g, u \o v, Len(u) - Len(g))
<1>1. Len(u) - Len(g) \in Int
  OBVIOUS
<1>2. u \o v \in Seq(S) /\ Extends(u \o v, u)
  BY JoinedWord
<1> DEFINE w == u \o v
<1> HIDE DEF w
<1>3. Lies(g, w, Len(u) - Len(g))
  BY <1>1, <1>2, LiesInLonger DEF w
<1> QED
  BY <1>3 DEF w

LEMMA RepeatedLies ==
  ASSUME NEW S, NEW g \in Seq(S), NEW u \in Seq(S), NEW v \in Seq(S), NEW c \in S,
         Lies(g, u, Len(u) - Len(g)), v # <<>>, Head(v) = c
  PROVE  Lies(Append(g, c), u \o v, Len(u) - Len(g))
<1> DEFINE w == u \o v
           f == Append(g, c)
<1>1. PICK a \in Nat, b \in Nat, x \in Nat : a = Len(u) /\ b = Len(v) /\ x = Len(g)
  OBVIOUS
<1>2. 1 \in 1 .. b /\ v[1] = c
  BY <1>1
<1>3. w \in Seq(S) /\ Len(w) = a + b /\ w[a + 1] = c
  <2>1. w \in Seq(S) /\ Len(w) = a + b /\ \A y \in 1 .. b : w[a + y] = v[y]
    BY <1>1, JoinedWord
  <2> HIDE DEF w
  <2> QED
    BY <1>2, <2>1
<1>4. Lies(g, w, a - x)
  BY <1>1, EndOfWordLies
<1> HIDE DEF w
<1>5. f \in Seq(S) /\ Len(f) = x + 1 /\ f[x + 1] = c /\ \A y \in 1 .. x : f[y] = g[y]
  BY <1>1, AppendProperties
<1> HIDE DEF f
<1>6. a - x >= 0 /\ \A y \in 1 .. x : w[(a - x) + y] = f[y]
  BY <1>1, <1>4, <1>5 DEF Lies
<1>7. ASSUME NEW y \in 1 .. x + 1 PROVE w[(a - x) + y] = f[y]
  <2>1. CASE y = x + 1
    <3>1. (a - x) + y = a + 1
      BY <2>1
    <3> QED
      BY <1>3, <1>5, <2>1, <3>1
  <2>2. CASE y # x + 1
    <3>1. y \in 1 .. x
      BY <2>2
    <3> QED
      BY <1>6, <3>1
  <2> QED
    BY <2>1, <2>2
<1>8. Lies(f, w, a - x)
  BY <1>2, <1>3, <1>5, <1>6, <1>7 DEF Lies
<1> QED
  BY <1>1, <1>8 DEF w, f

LEMMA Increasing ==
  ASSUME NEW N \in Nat, NEW f \in [1 .. N -> Nat], \A n \in 1 .. N - 1 : f[n] < f[n + 1]
  PROVE  \A i, j \in 1 .. N : i < j => f[i] < f[j]
<1> SUFFICES ASSUME NEW i \in 1 .. N PROVE \A j \in 1 .. N : i < j => f[i] < f[j]
  OBVIOUS
<1> DEFINE T == {d \in Nat : i + 1 + d <= N => f[i] < f[i + 1 + d]}
<1>1. 0 \in T
  <2>1. ASSUME i + 1 <= N PROVE f[i] < f[i + 1]
    <3>1. i \in 1 .. N - 1
      BY <2>1
    <3> QED
      BY <3>1
  <2>2. i + 1 + 0 = i + 1
    OBVIOUS
  <2> QED
    BY <2>1, <2>2
<1>2. ASSUME NEW d \in Nat, d \in T PROVE d + 1 \in T
  <2> SUFFICES ASSUME i + 1 + (d + 1) <= N PROVE f[i] < f[i + 1 + (d + 1)]
    OBVIOUS
  <2>1. PICK n \in Nat : n = i + 1 + d
    OBVIOUS
  <2>2. n \in 1 .. N - 1 /\ i + 1 + (d + 1) = n + 1 /\ n + 1 \in 1 .. N
    BY <2>1
  <2>3. f[i] < f[n]
    BY <1>2, <2>1, <2>2
  <2>4. f[n] < f[n + 1]
    BY <2>2
  <2>5. f[i] \in Nat /\ f[n] \in Nat /\ f[n + 1] \in Nat
    BY <2>2
  <2>6. f[i] < f[n + 1]
    BY <2>3, <2>4, <2>5
  <2> QED
    BY <2>2, <2>6, Zenon
<1>3. \A d \in Nat : d \in T
  <2> HIDE DEF T
  <2> QED
    BY <1>1, <1>2, AllNumbers
<1>4. ASSUME NEW j \in 1 .. N, i < j PROVE f[i] < f[j]
  <2>1. PICK d \in Nat : d = j - (i + 1)
    BY <1>4
  <2>2. i + 1 + d = j /\ j <= N
    BY <2>1
  <2>3. d \in T
    BY <1>3
  <2> QED
    BY <2>2, <2>3
<1> QED
  BY <1>4

(* What is assumed of each pattern. *)
RightPattern(q) ==
  /\ q \in Pattern /\ PatternMeans(q)
  /\ q.items # <<>> /\ q.items[1].length = 0 /\ q.items[1].words = {<<>>}
  /\ q.items[Len(q.items)].length = Len(q.text)

LEMMA PatternsAreRight ==
  ASSUME patterns \in PatternLists
  PROVE  /\ patterns \in Seq(Pattern) /\ patterns # <<>>
         /\ \A n \in 1 .. Len(patterns) : RightPattern(patterns[n]) /\ (Len(patterns) > 1 => patterns[n].text # <<>>)
<1>1. patterns \in Seq(Pattern) /\ patterns # <<>> /\ DOMAIN patterns = 1 .. Len(patterns)
  BY PatternsAssumption
<1>2. ASSUME NEW n \in 1 .. Len(patterns)
      PROVE  RightPattern(patterns[n]) /\ (Len(patterns) > 1 => patterns[n].text # <<>>)
  <2>1. n \in DOMAIN patterns /\ patterns[n] \in Pattern
    BY <1>1
  <2>2. PatternMeans(patterns[n]) /\ (Len(patterns) > 1 => patterns[n].text # <<>>)
    BY <2>1, MeaningAssumption
  <2>3. /\ patterns[n].items # <<>> /\ patterns[n].items[1].length = 0 /\ patterns[n].items[1].words = {<<>>}
        /\ patterns[n].items[Len(patterns[n].items)].length = Len(patterns[n].text)
    BY <2>1, PatternsAssumption
  <2> QED
    BY <2>1, <2>2, <2>3 DEF RightPattern
<1> QED
  BY <1>1, <1>2

(* Items and their words, of a pattern that the library reads as an expression. *)
Readable(q) == RightPattern(q) /\ q.valid /\ ~ q.reg_literal

LEMMA ItemsAre ==
  ASSUME NEW q, RightPattern(q)
  PROVE  /\ q.text \in Text /\ Len(q.text) \in Nat /\ q.extended \in BOOLEAN /\ q.reg_newline \in BOOLEAN
         /\ Len(q.items) \in Nat \ {0}
         /\ \A n \in 1 .. Len(q.items) :
              q.items[n].length \in Nat /\ q.items[n].words \subseteq Text /\ q.items[n].own \subseteq Text
         /\ Words(q) \subseteq Text
<1>1. q \in Pattern
  BY DEF RightPattern
<1>2. q.text \in Text /\ q.extended \in BOOLEAN /\ q.reg_newline \in BOOLEAN
  <2>1. q.text \in Seq(STRING) /\ q.extended \in BOOLEAN /\ q.reg_newline \in BOOLEAN
    BY <1>1 DEF Pattern
  <2> QED
    BY <2>1, StringsAreText
<1>3. q.items \in Seq([length : Nat, own : SUBSET Seq(STRING), words : SUBSET Seq(STRING)]) /\ q.items # <<>>
  BY <1>1 DEF Pattern, RightPattern
<1>4. Len(q.text) \in Nat
  BY <1>2 DEF Text
<1>5. Len(q.items) \in Nat \ {0}
  BY <1>3, EmptySeq
<1>6. ASSUME NEW n \in 1 .. Len(q.items)
      PROVE  q.items[n].length \in Nat /\ q.items[n].words \subseteq Text /\ q.items[n].own \subseteq Text
  <2>1. q.items[n] \in [length : Nat, own : SUBSET Seq(STRING), words : SUBSET Seq(STRING)]
    BY <1>3, ElementOfSeq
  <2> QED
    BY <2>1, StringsAreText
<1>7. Words(q) \subseteq Text
  <2>1. Len(q.items) \in 1 .. Len(q.items)
    BY <1>5
  <2> QED
    BY <1>6, <2>1 DEF Words
<1> QED
  BY <1>2, <1>4, <1>5, <1>6, <1>7

LEMMA ItemOrder ==
  ASSUME NEW q, Readable(q)
  PROVE  /\ \A i, j \in 1 .. Len(q.items) : i < j => q.items[i].length < q.items[j].length
         /\ \A n \in 1 .. Len(q.items) : q.items[n].length <= Len(q.text)
         /\ \A n \in 1 .. Len(q.items) - 1 :
              /\ q.items[n + 1].words = Joined(q.items[n].words, q.items[n + 1].own)
              /\ ItemMeans(q, q.items[n].length + 1, q.items[n + 1].length, q.items[n + 1].own)
<1>1. PICK N \in Nat \ {0} : N = Len(q.items)
  BY ItemsAre DEF Readable
<1>2. \A n \in 1 .. N : q.items[n].length \in Nat
  BY <1>1, ItemsAre DEF Readable
<1>3. ASSUME NEW n \in 1 .. N - 1
      PROVE  /\ q.items[n].length < q.items[n + 1].length
             /\ q.items[n + 1].words = Joined(q.items[n].words, q.items[n + 1].own)
             /\ ItemMeans(q, q.items[n].length + 1, q.items[n + 1].length, q.items[n + 1].own)
  <2>1. PatternMeans(q) /\ q.valid /\ ~ q.reg_literal
    BY DEF Readable, RightPattern
  <2>2. n \in 1 .. Len(q.items) - 1
    BY <1>1
  <2>3. \A m \in 1 .. Len(q.items) - 1 :
          /\ q.items[m].length < q.items[m + 1].length
          /\ q.items[m + 1].words = Joined(q.items[m].words, q.items[m + 1].own)
          /\ ItemMeans(q, q.items[m].length + 1, q.items[m + 1].length, q.items[m + 1].own)
    BY <2>1 DEF PatternMeans
  <2> QED
    BY <2>2, <2>3
<1> DEFINE f == [n \in 1 .. N |-> q.items[n].length]
<1>4. f \in [1 .. N -> Nat]
  BY <1>2
<1>5. \A n \in 1 .. N : f[n] = q.items[n].length
  OBVIOUS
<1> HIDE DEF f
<1>6. \A n \in 1 .. N - 1 : f[n] < f[n + 1]
  BY <1>3, <1>5
<1>7. \A i, j \in 1 .. N : i < j => f[i] < f[j]
  BY <1>4, <1>6, Increasing
<1>8. \A i, j \in 1 .. N : i < j => q.items[i].length < q.items[j].length
  BY <1>5, <1>7
<1>9. ASSUME NEW n \in 1 .. N PROVE q.items[n].length <= Len(q.text)
  <2>1. q.items[N].length = Len(q.text) /\ N \in 1 .. N
    BY <1>1 DEF Readable, RightPattern
  <2>2. CASE n = N
    BY <1>2, <2>1, <2>2
  <2>3. CASE n # N
    <3>1. q.items[n].length < q.items[N].length
      BY <1>8, <2>1, <2>3
    <3> QED
      BY <1>2, <2>1, <3>1
  <2> QED
    BY <2>2, <2>3
<1> QED
  BY <1>1, <1>3, <1>8, <1>9
-----------------------------------------------------------------------------
(* The reader skips an escaping backslash, and it alone leaves it escaped.    *)
LEMMA ReaderAnswers ==
  ASSUME NEW c, NEW esc \in BOOLEAN, NEW extended \in BOOLEAN
  PROVE  /\ Reads(c, esc, extended) = "SHOULD_SKIP" => c = Backslash /\ ~ esc
         /\ c = Backslash /\ ~ esc => Reads(c, esc, extended) = "SHOULD_SKIP"
         /\ Reads(c, esc, extended) # "SHOULD_SKIP" => ~ Escapes(c, esc)
         /\ c = Backslash => Reads(c, esc, extended) \in Plain
         /\ Reads(c, esc, extended) = "NORMAL_CHAR" => c # Newline
         /\ Reads(c, esc, extended) = "NORMAL_NEWLINE" /\ ~ esc => c = Newline
BY DEF Reads, Escapes, Plain, Backslash, Newline, AlwaysSpecial, SyntaxSpecial

(* The reader is behind the first from characters, or one farther, behind the  *)
(* backslash there.                                                        *)
Standing(q, from, next, esc) ==
  /\ from <= Len(q.text)
  /\ IF esc THEN from < Len(q.text) /\ q.text[from + 1] = Backslash /\ next = from + 2
     ELSE next = from + 1

LEMMA HeadIsRead ==
  ASSUME NEW q, RightPattern(q), NEW from \in Nat, NEW next \in Nat, NEW esc \in BOOLEAN,
         Standing(q, from, next, esc), next <= Len(q.text), Reads(q.text[next], esc, q.extended) # "SHOULD_SKIP"
  PROVE  /\ HeadAt(q.text, from + 1) = next /\ from + 1 <= next
         /\ AnswerAt(q, from + 1) = Reads(q.text[next], esc, q.extended)
<1>1. CASE esc = TRUE
  <2>1. q.text[from + 1] = Backslash /\ next = (from + 1) + 1
    BY <1>1 DEF Standing
  <2>2. HeadAt(q.text, from + 1) = next
    BY <2>1 DEF HeadAt
  <2>3. (q.text[from + 1] = Backslash) = esc
    BY <1>1, <2>1
  <2>4. AnswerAt(q, from + 1) = Reads(q.text[next], esc, q.extended)
    BY <2>2, <2>3, Zenon DEF AnswerAt
  <2> QED
    BY <2>1, <2>2, <2>4
<1>2. CASE esc = FALSE
  <2>1. next = from + 1
    BY <1>2 DEF Standing
  <2>2. q.extended \in BOOLEAN
    BY ItemsAre
  <2>3. q.text[from + 1] # Backslash
    BY <1>2, <2>1, <2>2, ReaderAnswers
  <2>4. HeadAt(q.text, from + 1) = next
    BY <2>1, <2>3 DEF HeadAt
  <2>5. (q.text[from + 1] = Backslash) = esc
    BY <1>2, <2>3
  <2>6. AnswerAt(q, from + 1) = Reads(q.text[next], esc, q.extended)
    BY <2>4, <2>5, Zenon DEF AnswerAt
  <2> QED
    BY <2>1, <2>4, <2>6
<1> QED
  BY <1>1, <1>2

(* An item, whose repetition if it has one is behind mid. *)
Repeats(q, a, mid, to, own) ==
  /\ EndsAt(q, mid + 1, to) /\ AnswerAt(q, mid + 1) \in Repetitions
  /\ MeansRepeated(q, a, mid + 1, own)
  /\ \A w \in own : HasNewline(w) => MatchesLf(q, a)

ItemBehind(q, a, mid, to, own) == mid < to /\ (StopsAt(q, mid + 1, to) \/ Repeats(q, a, mid, to, own))
ItemDone(q, a, mid, to, own) ==
  mid = to /\ MeansOnce(q, a, own) /\ \A w \in own : HasNewline(w) => MatchesLf(q, a)

LEMMA ItemCases ==
  ASSUME NEW q, NEW a \in Nat, NEW to \in Nat, NEW own, ItemMeans(q, a, to, own), ~ StopsAt(q, a, to)
  PROVE  \E mid \in Nat :
           /\ a <= mid /\ mid <= to /\ EndsAt(q, a, mid)
           /\ AnswerAt(q, a) \in Literally \cup OneOfMany \cup Anchors \cup {"SPEC_PAREN"}
           /\ ItemBehind(q, a, mid, to, own) \/ ItemDone(q, a, mid, to, own)
<1>1. PICK mid \in a .. to :
       /\ AnswerAt(q, a) \in Literally \cup OneOfMany \cup Anchors \cup {"SPEC_PAREN"}
       /\ EndsAt(q, a, mid)
       /\ \/ StopsAt(q, mid + 1, to)
          \/ /\ \A w \in own : HasNewline(w) => MatchesLf(q, a)
             /\ \/ mid = to /\ MeansOnce(q, a, own)
                \/ /\ mid < to /\ EndsAt(q, mid + 1, to)
                   /\ AnswerAt(q, mid + 1) \in Repetitions /\ MeansRepeated(q, a, mid + 1, own)
  BY Zenon DEF ItemMeans
<1>2. mid \in Nat /\ a <= mid /\ mid <= to
  OBVIOUS
<1>3. CASE StopsAt(q, mid + 1, to)
  <2>1. mid < to
    BY <1>2, <1>3 DEF StopsAt
  <2> QED
    BY <1>1, <1>2, <1>3, <2>1 DEF ItemBehind
<1>4. CASE ~ StopsAt(q, mid + 1, to)
  <2>1. ItemBehind(q, a, mid, to, own) \/ ItemDone(q, a, mid, to, own)
    BY <1>1, <1>4, Zenon DEF ItemBehind, ItemDone, Repeats
  <2> QED
    BY <1>1, <1>2, <2>1
<1> QED
  BY <1>3, <1>4

(* Where an item is not done, its head is before its end. *)
LEMMA HeadInItem ==
  ASSUME NEW q, NEW a \in Nat, NEW to \in Nat, NEW own, ItemMeans(q, a, to, own), HeadAt(q.text, a) \in Nat
  PROVE  HeadAt(q.text, a) <= to
<1>1. CASE StopsAt(q, a, to)
  BY <1>1 DEF StopsAt
<1>2. CASE ~ StopsAt(q, a, to)
  <2>1. PICK mid \in Nat : mid <= to /\ EndsAt(q, a, mid)
    BY <1>2, ItemCases
  <2>2. HeadAt(q.text, a) <= mid
    BY <2>1 DEF EndsAt
  <2> QED
    BY <2>1, <2>2
<1> QED
  BY <1>1, <1>2

LEMMA HeadBehind ==
  ASSUME NEW q, NEW a, NEW mid \in Nat, NEW to \in Nat, NEW own, ItemBehind(q, a, mid, to, own)
  PROVE  HeadAt(q.text, mid + 1) <= to
BY DEF ItemBehind, Repeats, StopsAt, EndsAt

(* What is collected while a pattern is read fits all words of what was read. *)
ReadSoFar(words, last) ==
  \A w \in words : Fits(w, fragments, last, length_known, max_length, may_match_lf, has_literal_prefix)

(* The reader is at the end of n - 1 items; or it is in the one behind them:   *)
(* behind mid, where a repetition follows, which may yet make the last        *)
(* character of the fragment optional.                                     *)
AtItem(q, n) ==
  /\ n \in 1 .. Len(q.items)
  /\ Standing(q, q.items[n].length, at, escaped)
  /\ ReadSoFar(q.items[n].words, fragment)

PendingFragment(q, a, words) ==
  IF AnswerAt(q, a) \in Literally
  THEN \E g \in Text : fragment = Append(g, CharAt(q, a)) /\ ReadSoFar(words, g)
  ELSE fragment = <<>> /\ ReadSoFar(words, <<>>)

BehindAtom(q, n, mid) ==
  LET a == q.items[n].length + 1
  IN /\ n \in 1 .. Len(q.items) - 1 /\ mid \in Nat /\ a <= mid
     /\ Standing(q, mid, at, escaped)
     /\ ItemBehind(q, a, mid, q.items[n + 1].length, q.items[n + 1].own)
     /\ MatchesLf(q, a) => may_match_lf
     /\ PendingFragment(q, a, q.items[n].words)

PatternRead(q) == (\E n \in Nat : AtItem(q, n)) \/ (\E n, mid \in Nat : BehindAtom(q, n, mid))

ParserTypes ==
  /\ at \in Nat \ {0} /\ escaped \in BOOLEAN /\ fragment \in Text /\ fragments \in Seq(Text)
  /\ max_length \in Nat /\ length_known \in BOOLEAN /\ may_match_lf \in BOOLEAN /\ has_literal_prefix \in BOOLEAN

(* The reader stands before the end of the pattern: then behind the item there *)
(* is one more.                                                            *)
LEMMA OneMoreItem ==
  ASSUME ParserTypes, NEW CONSTANT q, Readable(q), NEW CONSTANT n \in Nat, AtItem(q, n), at <= Len(q.text)
  PROVE  /\ n \in 1 .. Len(q.items) - 1 /\ n + 1 \in 1 .. Len(q.items) /\ n \in 1 .. Len(q.items)
         /\ q.items[n].length \in Nat /\ q.items[n + 1].length \in Nat
         /\ q.items[n].words \subseteq Text /\ q.items[n + 1].own \subseteq Text
         /\ q.items[n + 1].words = Joined(q.items[n].words, q.items[n + 1].own)
         /\ ItemMeans(q, q.items[n].length + 1, q.items[n + 1].length, q.items[n + 1].own)
         /\ q.items[n + 1].length <= Len(q.text)
<1>1. PICK N \in Nat \ {0} : N = Len(q.items)
  BY ItemsAre DEF Readable
<1>2. n \in 1 .. N
  BY <1>1 DEF AtItem
<1>3. n # N
  <2> SUFFICES ASSUME n = N PROVE FALSE
    OBVIOUS
  <2>1. q.items[n].length = Len(q.text) /\ Len(q.text) \in Nat
    BY <1>1, ItemsAre DEF Readable, RightPattern
  <2>2. PICK l \in Nat : l = Len(q.text) /\ l = q.items[n].length
    BY <2>1
  <2>3. Standing(q, l, at, escaped)
    BY <2>2 DEF AtItem
  <2>4. at >= l + 1
    BY <2>2, <2>3 DEF Standing, ParserTypes
  <2> QED
    BY <2>2, <2>4 DEF ParserTypes
<1>4. n \in 1 .. N - 1 /\ n + 1 \in 1 .. N
  BY <1>2, <1>3
<1>5. /\ q.items[n].length \in Nat /\ q.items[n + 1].length \in Nat
      /\ q.items[n].words \subseteq Text /\ q.items[n + 1].own \subseteq Text
  BY <1>1, <1>2, <1>4, ItemsAre DEF Readable
<1>6. /\ q.items[n + 1].words = Joined(q.items[n].words, q.items[n + 1].own)
      /\ ItemMeans(q, q.items[n].length + 1, q.items[n + 1].length, q.items[n + 1].own)
  BY <1>1, <1>4, ItemOrder
<1>7. q.items[n + 1].length <= Len(q.text)
  BY <1>1, <1>4, ItemOrder
<1> QED
  BY <1>1, <1>2, <1>4, <1>5, <1>6, <1>7

(* A backslash is skipped: the reader stands where it stood, but escaped.     *)
LEMMA SkipKeepsPlace ==
  ASSUME NEW q, RightPattern(q), NEW from \in Nat, NEW next \in Nat, NEW esc \in BOOLEAN, Standing(q, from, next, esc),
         next <= Len(q.text), Reads(q.text[next], esc, q.extended) = "SHOULD_SKIP"
  PROVE  /\ Standing(q, from, next + 1, TRUE)
         /\ Escapes(q.text[next], esc) = TRUE
<1>1. q.extended \in BOOLEAN /\ Len(q.text) \in Nat
  BY ItemsAre
<1>2. q.text[next] = Backslash /\ ~ esc
  <2>1. q.extended \in BOOLEAN
    BY <1>1
  <2>2. q.text[next] = Backslash
    BY <2>1, ReaderAnswers
  <2>3. ~ esc
    BY <2>1, ReaderAnswers
  <2> QED
    BY <2>2, <2>3
<1>3. next = from + 1
  BY <1>2 DEF Standing
<1>4. next + 1 = from + 2 /\ from < Len(q.text)
  BY <1>1, <1>3
<1> QED
  BY <1>2, <1>3, <1>4 DEF Standing, Escapes

LEMMA SkipReads ==
  ASSUME ParserTypes, NEW CONSTANT q, Readable(q), PatternRead(q),
         at <= Len(q.text), Reads(q.text[at], escaped, q.extended) = "SHOULD_SKIP",
         escaped' = Escapes(q.text[at], escaped), at' = at + 1,
         UNCHANGED <<fragment, fragments, max_length, length_known, may_match_lf, has_literal_prefix>>
  PROVE  PatternRead(q)'
<1>0. ASSUME NEW CONSTANT from \in Nat, Standing(q, from, at, escaped) PROVE Standing(q, from, at', escaped')
  <2>1. at \in Nat /\ escaped \in BOOLEAN /\ RightPattern(q)
    BY DEF ParserTypes, Readable
  <2>2. Standing(q, from, at + 1, TRUE) /\ Escapes(q.text[at], escaped) = TRUE
    BY <1>0, <2>1, SkipKeepsPlace
  <2> QED
    BY <2>2
<1>1. ASSUME NEW CONSTANT n \in Nat, AtItem(q, n) PROVE AtItem(q, n)'
  <2>1. q.items[n].length \in Nat /\ n \in 1 .. Len(q.items) /\ RightPattern(q)
    BY <1>1, ItemsAre DEF AtItem, Readable
  <2>2. Standing(q, q.items[n].length, at', escaped')
    BY <1>1, <2>1, <1>0 DEF AtItem
  <2> QED
    BY <1>1, <2>1, <2>2 DEF AtItem, ReadSoFar
<1>2. ASSUME NEW CONSTANT n \in Nat, NEW CONSTANT mid \in Nat, BehindAtom(q, n, mid) PROVE BehindAtom(q, n, mid)'
  <2>1. RightPattern(q) /\ Standing(q, mid, at, escaped)
    BY <1>2 DEF BehindAtom, Readable
  <2>2. Standing(q, mid, at', escaped')
    BY <2>1, <1>0
  <2>3. ASSUME NEW CONSTANT a, NEW CONSTANT words, PendingFragment(q, a, words) PROVE PendingFragment(q, a, words)'
    BY <2>3 DEF PendingFragment, ReadSoFar
  <2> QED
    BY <1>2, <2>2, <2>3 DEF BehindAtom
<1> QED
  BY <1>1, <1>2 DEF PatternRead

(* Behind what ended at mid the reader is not escaped. *)
LEMMA StandingBehind ==
  ASSUME NEW q, RightPattern(q), NEW mid \in Nat, mid <= Len(q.text), NEW c, NEW esc \in BOOLEAN,
         Reads(c, esc, q.extended) # "SHOULD_SKIP"
  PROVE  Standing(q, mid, mid + 1, Escapes(c, esc))
<1>1. q.extended \in BOOLEAN
  BY ItemsAre
<1>2. ~ Escapes(c, esc)
  BY <1>1, ReaderAnswers
<1> QED
  BY <1>2 DEF Standing

(* A plain character: of an item, or one whose repetition follows. *)
LEMMA CharReads ==
  ASSUME ParserTypes, NEW CONSTANT q, Readable(q), PatternRead(q), at <= Len(q.text),
         NEW CONSTANT r, r = Reads(q.text[at], escaped, q.extended), r \in Literally,
         escaped' = Escapes(q.text[at], escaped), at' = at + 1,
         NEW CONSTANT c, c = IF r = "NORMAL_NEWLINE" THEN Newline ELSE q.text[at],
         fragment' = Append(fragment, c), max_length' = max_length + 1,
         may_match_lf' = (may_match_lf \/ r = "NORMAL_NEWLINE"),
         UNCHANGED <<fragments, length_known, has_literal_prefix>>
  PROVE  PatternRead(q)'
<1>1. RightPattern(q) /\ r # "SHOULD_SKIP" /\ at \in Nat \ {0} /\ escaped \in BOOLEAN
  BY DEF Readable, Literally, ParserTypes
<1>2. q.text \in Text /\ q.extended \in BOOLEAN /\ Len(q.text) \in Nat
  BY <1>1, ItemsAre
<1>3. c \in Letter
  <2>1. at \in 1 .. Len(q.text)
    BY <1>1, <1>2
  <2>2. q.text[at] \in Letter
    BY <1>2, <2>1, ElementOfSeq DEF Text
  <2>3. Newline \in Letter
    BY DEF Letter
  <2> QED
    BY <2>2, <2>3
<1>4. ASSUME NEW CONSTANT from \in Nat, Standing(q, from, at, escaped)
      PROVE  HeadAt(q.text, from + 1) = at /\ from + 1 <= at /\ AnswerAt(q, from + 1) = r
  BY <1>1, <1>4, HeadIsRead
<1>5. ASSUME NEW CONSTANT n \in Nat, AtItem(q, n) PROVE PatternRead(q)'
  <2> DEFINE words == q.items[n].words
             own == q.items[n + 1].own
  <2>1. PICK from \in Nat, to \in Nat : from = q.items[n].length /\ to = q.items[n + 1].length
    BY <1>5, OneMoreItem
  <2>2. /\ n \in 1 .. Len(q.items) - 1 /\ n + 1 \in 1 .. Len(q.items)
        /\ words \subseteq Text /\ own \subseteq Text /\ q.items[n + 1].words = Joined(words, own)
        /\ ItemMeans(q, from + 1, to, own) /\ to <= Len(q.text)
    BY <1>5, <2>1, OneMoreItem
  <2>3. Standing(q, from, at, escaped) /\ ReadSoFar(words, fragment)
    BY <1>5, <2>1 DEF AtItem
  <2> HIDE DEF words, own
  <2>4. HeadAt(q.text, from + 1) = at /\ from + 1 <= at /\ AnswerAt(q, from + 1) = r
    BY <1>4, <2>3
  <2>5. ~ StopsAt(q, from + 1, to)
    BY <2>4 DEF StopsAt, Unclosed, Literally
  <2>6. PICK mid \in Nat :
          /\ from + 1 <= mid /\ mid <= to /\ EndsAt(q, from + 1, mid)
          /\ ItemBehind(q, from + 1, mid, to, own) \/ ItemDone(q, from + 1, mid, to, own)
    <3>1. from + 1 \in Nat
      OBVIOUS
    <3> QED
      BY <2>2, <2>5, <3>1, ItemCases
  <2>7. mid = at
    BY <2>4, <2>6 DEF EndsAt, Literally
  <2>8. CharAt(q, from + 1) = c
    BY <2>4 DEF CharAt
  <2>9. Standing(q, mid, at', escaped')
    <3>1. mid <= Len(q.text)
      BY <2>7
    <3>2. Standing(q, mid, mid + 1, Escapes(q.text[at], escaped))
      BY <1>1, <3>1, StandingBehind
    <3> QED
      BY <2>7, <3>2
  <2>10. c = Newline => may_match_lf'
    <3>1. r = "NORMAL_CHAR" => q.text[at] # Newline
      BY <1>1, <1>2, ReaderAnswers
    <3> QED
      BY <3>1 DEF Literally
  <2>11. ASSUME NEW CONSTANT u \in words
         PROVE  /\ Fits(u \o <<c>>, fragments, Append(fragment, c), length_known, max_length + 1, may_match_lf', has_literal_prefix)
                /\ Fits(u, fragments, fragment, length_known, max_length + 1, may_match_lf', has_literal_prefix)
    <3>1. Fits(u, fragments, fragment, length_known, max_length, may_match_lf, has_literal_prefix)
      BY <2>3 DEF ReadSoFar
    <3>2. u \in Seq(Letter) /\ fragments \in Seq(Seq(Letter)) /\ fragment \in Seq(Letter) /\ max_length \in Nat
      BY <2>2 DEF ParserTypes, Text
    <3>3. may_match_lf => may_match_lf'
      OBVIOUS
    <3>4. Fits(u \o <<c>>, fragments, Append(fragment, c), length_known, max_length + 1, may_match_lf', has_literal_prefix)
      BY <1>3, <2>10, <3>1, <3>2, <3>3, PlainFits
    <3>5. Len(u) \in Nat
      BY <3>2
    <3>6. Fits(u, fragments, fragment, length_known, max_length + 1, may_match_lf', has_literal_prefix)
      BY <3>1, <3>2, <3>3, <3>5 DEF Fits
    <3> QED
      BY <3>4, <3>6
  <2>12. CASE ItemDone(q, from + 1, mid, to, own)
    <3>1. mid = to /\ own = {<<c>>}
      BY <2>4, <2>8, <2>12 DEF ItemDone, MeansOnce
    <3>2. ASSUME NEW CONSTANT w \in q.items[n + 1].words
          PROVE  Fits(w, fragments, Append(fragment, c), length_known, max_length + 1, may_match_lf', has_literal_prefix)
      <4>1. PICK u \in words, v \in own : w = u \o v
        <5>1. w \in Joined(words, own)
          BY <2>2
        <5> QED
          BY <5>1, SMTT(30) DEF Joined
      <4>2. w = u \o <<c>>
        BY <3>1, <4>1
      <4> QED
        BY <2>11, <4>2
    <3>3. ReadSoFar(q.items[n + 1].words, fragment)'
      BY <3>2 DEF ReadSoFar
    <3>4. AtItem(q, n + 1)'
      BY <2>1, <2>2, <2>9, <3>1, <3>3 DEF AtItem
    <3> QED
      BY <3>4 DEF PatternRead
  <2>13. CASE ItemBehind(q, from + 1, mid, to, own)
    <3>1. PICK g \in Text : g = fragment
      BY DEF ParserTypes
    <3>2. ReadSoFar(words, g)'
      BY <2>11, <3>1 DEF ReadSoFar
    <3>3. PendingFragment(q, from + 1, words)'
      BY <2>4, <2>8, <3>1, <3>2 DEF PendingFragment
    <3>4. MatchesLf(q, from + 1) => may_match_lf'
      BY <2>4 DEF MatchesLf, Literally
    <3>5. BehindAtom(q, n, mid)'
      BY <2>1, <2>2, <2>6, <2>9, <2>13, <3>3, <3>4 DEF BehindAtom, words, own
    <3> QED
      BY <3>5 DEF PatternRead
  <2> QED
    BY <2>6, <2>12, <2>13
<1>6. ASSUME NEW CONSTANT n \in Nat, NEW CONSTANT mid \in Nat, BehindAtom(q, n, mid) PROVE FALSE
  <2>1. Standing(q, mid, at, escaped)
    BY <1>6 DEF BehindAtom
  <2>2. HeadAt(q.text, mid + 1) = at /\ AnswerAt(q, mid + 1) = r
    BY <1>4, <2>1
  <2>3. ~ StopsAt(q, mid + 1, q.items[n + 1].length)
    BY <2>2 DEF StopsAt, Unclosed, Literally
  <2>4. AnswerAt(q, mid + 1) \in Repetitions
    BY <1>6, <2>3 DEF BehindAtom, ItemBehind, Repeats
  <2> QED
    BY <2>2, <2>4 DEF Literally, Repetitions
<1> QED
  BY <1>5, <1>6 DEF PatternRead

(* The words of what was read fit when the string g is the end of them and f   *)
(* is put to the fragments, in front of what own means.                      *)
Pushes(f) ==
  /\ fragments' = IF f = <<>> THEN fragments ELSE Append(fragments, f)
  /\ has_literal_prefix' = (has_literal_prefix /\ (f # <<>> \/ fragments # <<>>))
  /\ fragment' = <<>>

LEMMA PushFits ==
  ASSUME ParserTypes, NEW CONSTANT f \in Text, Pushes(f), NEW CONSTANT g \in Text,
         NEW CONSTANT words \in SUBSET Text, ReadSoFar(words, g), NEW CONSTANT own \in SUBSET Text,
         NEW CONSTANT max2 \in Nat, max2 = max_length',
         \A v \in own : /\ length_known' => length_known /\ max_length + Len(v) <= max2
                        /\ HasNewline(v) => may_match_lf',
         may_match_lf => may_match_lf',
         \A u \in words, v \in own : f # <<>> => Lies(f, u \o v, Len(u) - Len(g))
  PROVE  \A u \in words, v \in own : Fits(u \o v, fragments', <<>>, length_known', max2, may_match_lf', has_literal_prefix')
<1> SUFFICES ASSUME NEW CONSTANT u \in words, NEW CONSTANT v \in own
             PROVE  Fits(u \o v, fragments', <<>>, length_known', max2, may_match_lf', has_literal_prefix')
  OBVIOUS
<1>1. fragments \in Seq(Seq(Letter)) /\ g \in Seq(Letter) /\ f \in Seq(Letter) /\ u \in Seq(Letter) /\ v \in Seq(Letter)
      /\ max_length \in Nat
  BY DEF ParserTypes, Text
<1>2. Fits(u, fragments, g, length_known, max_length, may_match_lf, has_literal_prefix)
  BY DEF ReadSoFar
<1>3. length_known' => length_known /\ max_length + Len(v) <= max2
  OBVIOUS
<1>4. /\ HasNewline(v) => may_match_lf'
      /\ has_literal_prefix' => has_literal_prefix /\ (f # <<>> \/ fragments # <<>>)
      /\ f # <<>> => Lies(f, u \o v, Len(u) - Len(g))
  BY DEF Pushes
<1>5. Fits(u \o v, fragments', <<>>, length_known', max2, may_match_lf', has_literal_prefix')
  <2>1. PICK fs, known, lf, start, max :
          fs = fragments /\ known = length_known /\ lf = may_match_lf /\ start = has_literal_prefix /\ max = max_length
    BY <1>1
  <2>2. PICK all, known2, lf2, start2 :
          all = fragments' /\ known2 = length_known' /\ lf2 = may_match_lf' /\ start2 = has_literal_prefix'
    OBVIOUS
  <2>3. Fits(u, fs, g, known, max, lf, start)
    BY <1>2, <2>1
  <2>4. known2 => known /\ max + Len(v) <= max2
    BY <1>3, <2>1, <2>2
  <2>5. (HasNewline(v) => lf2) /\ (lf => lf2)
    BY <1>4, <2>1, <2>2
  <2>6. start2 => start /\ (f # <<>> \/ fs # <<>>)
    BY <1>4, <2>1, <2>2
  <2>7. all = IF f = <<>> THEN fs ELSE Append(fs, f)
    BY <2>1, <2>2 DEF Pushes
  <2>8. Fits(u \o v, all, <<>>, known2, max2, lf2, start2)
    <3>1. fs \in Seq(Text) /\ max \in Nat /\ g \in Text /\ f \in Text /\ u \in Text /\ v \in Text
      BY <1>1, <2>1 DEF Text
    <3>2. f # <<>> => Lies(f, u \o v, Len(u) - Len(g))
      BY <1>4
    <3>3. Pushing(u, g, v, fs, f, all, known, max, lf, start, known2, max2, lf2, start2)
      BY <3>1, <3>2, <2>3, <2>4, <2>5, <2>6, <2>7 DEF Pushing
    <3> QED
      BY <3>3, PushedFits
  <2> QED
    BY <2>2, <2>8
<1> QED
  BY <1>5

(* A special character that nothing is wrong with, and what it opens. *)
SpecialEnd(q, r, to) ==
  /\ r \notin Plain \cup {"BAD_PATTERN", "SPEC_PIPE"} /\ ~ Unclosed(r, q.text, at)
  /\ to = CASE r = "SPEC_BRACKET" -> BracketEnd(q.text, at)
            [] r \in {"SPEC_PAREN", "SPEC_CURLYBRACE"} -> EnclosureEnd(q.text, at)
            [] OTHER -> at

SpecialMatchesLf(q, r) ==
  \/ r = "SPEC_DOT"
  \/ r = "SPEC_BRACKET" /\ BracketMatchesLf(q.text, at)
  \/ r = "SPEC_PAREN" /\ EnclosureMatchesLf(q.text, at)

Ends(q, r, to, f) ==
  /\ at <= Len(q.text) /\ r = Reads(q.text[at], escaped, q.extended)
  /\ SpecialEnd(q, r, to)
  /\ escaped' = Escapes(q.text[at], escaped) /\ at' = to + 1
  /\ f = IF r \in {"SPEC_CURLYBRACE", "SPEC_ASTERISK", "SPEC_QMARK"}
         THEN SubSeq(fragment, 1, MaxOf(0, Len(fragment) - 1)) ELSE fragment
  /\ Pushes(f)
  /\ length_known' = (length_known /\ r \notin VariableLength)
  /\ max_length' \in Nat /\ max_length' >= max_length /\ (r \in OneOfMany => max_length' >= max_length + 1)
  /\ may_match_lf' \in BOOLEAN /\ (may_match_lf => may_match_lf')
  /\ SpecialMatchesLf(q, r) => may_match_lf'

LEMMA EndsHere ==
  ASSUME ParserTypes, NEW CONSTANT q, RightPattern(q), NEW CONSTANT r, NEW CONSTANT to, NEW CONSTANT f, Ends(q, r, to, f),
         NEW CONSTANT from \in Nat, Standing(q, from, at, escaped)
  PROVE  /\ HeadAt(q.text, from + 1) = at /\ from + 1 <= at /\ AnswerAt(q, from + 1) = r
         /\ \A end : ~ StopsAt(q, from + 1, end)
         /\ \A end : EndsAt(q, from + 1, end) => end = to
         /\ MatchesLf(q, from + 1) => may_match_lf'
<1>1. at \in Nat /\ escaped \in BOOLEAN /\ at <= Len(q.text) /\ Reads(q.text[at], escaped, q.extended) # "SHOULD_SKIP"
  BY DEF ParserTypes, Ends, SpecialEnd, Plain
<1>2. HeadAt(q.text, from + 1) = at /\ from + 1 <= at /\ AnswerAt(q, from + 1) = r
  BY <1>1, HeadIsRead DEF Ends
<1>3. r \notin Plain \cup {"BAD_PATTERN", "SPEC_PIPE"} /\ ~ Unclosed(r, q.text, at)
  BY DEF Ends, SpecialEnd
<1>4. ASSUME NEW CONSTANT end PROVE ~ StopsAt(q, from + 1, end)
  BY <1>2, <1>3 DEF StopsAt
<1>5. ASSUME NEW CONSTANT end, EndsAt(q, from + 1, end) PROVE end = to
  BY <1>2, <1>5 DEF EndsAt, Ends, SpecialEnd
<1>6. ASSUME MatchesLf(q, from + 1) PROVE may_match_lf'
  <2>1. SpecialMatchesLf(q, r)
    BY <1>2, <1>3, <1>6 DEF MatchesLf, SpecialMatchesLf, Plain
  <2> QED
    BY <2>1 DEF Ends
<1> QED
  BY <1>2, <1>4, <1>5, <1>6

(* An item that begins with a special character ends the fragment... *)
LEMMA ItemEnds ==
  ASSUME ParserTypes, NEW CONSTANT q, Readable(q), NEW CONSTANT r, NEW CONSTANT to \in Nat, NEW CONSTANT f, Ends(q, r, to, f),
         NEW CONSTANT n \in Nat, AtItem(q, n)
  PROVE  PatternRead(q)'
<1> DEFINE words == q.items[n].words
           own == q.items[n + 1].own
<1>1. PICK from \in Nat, last \in Nat : from = q.items[n].length /\ last = q.items[n + 1].length
  BY OneMoreItem DEF Ends
<1>2. /\ n \in 1 .. Len(q.items) - 1 /\ n + 1 \in 1 .. Len(q.items)
      /\ words \subseteq Text /\ own \subseteq Text /\ q.items[n + 1].words = Joined(words, own)
      /\ ItemMeans(q, from + 1, last, own) /\ last <= Len(q.text)
  BY <1>1, OneMoreItem DEF Ends
<1>3. Standing(q, from, at, escaped) /\ ReadSoFar(words, fragment)
  BY <1>1 DEF AtItem
<1> HIDE DEF words, own
<1>4. RightPattern(q)
  BY DEF Readable
<1>5. /\ HeadAt(q.text, from + 1) = at /\ from + 1 <= at /\ AnswerAt(q, from + 1) = r
      /\ \A end : ~ StopsAt(q, from + 1, end)
      /\ \A end : EndsAt(q, from + 1, end) => end = to
      /\ MatchesLf(q, from + 1) => may_match_lf'
  BY <1>3, <1>4, EndsHere
<1>6. PICK mid \in Nat :
        /\ from + 1 <= mid /\ mid <= last /\ EndsAt(q, from + 1, mid)
        /\ r \in Literally \cup OneOfMany \cup Anchors \cup {"SPEC_PAREN"}
        /\ ItemBehind(q, from + 1, mid, last, own) \/ ItemDone(q, from + 1, mid, last, own)
  <2>1. from + 1 \in Nat
    OBVIOUS
  <2> QED
    BY <1>2, <1>5, <2>1, ItemCases
<1>7. mid = to /\ r \in OneOfMany \cup Anchors \cup {"SPEC_PAREN"}
  BY <1>5, <1>6 DEF Ends, SpecialEnd, Plain, Literally
<1>8. Standing(q, mid, at', escaped')
  <2>1. mid <= Len(q.text)
    <3>1. Len(q.text) \in Nat
      BY <1>4, ItemsAre
    <3> QED
      BY <1>2, <1>6, <3>1
  <2>2. Reads(q.text[at], escaped, q.extended) # "SHOULD_SKIP" /\ escaped \in BOOLEAN
    BY DEF Ends, SpecialEnd, Plain, ParserTypes
  <2>3. Standing(q, mid, mid + 1, Escapes(q.text[at], escaped))
    BY <1>4, <2>1, <2>2, StandingBehind
  <2> QED
    BY <1>7, <2>3 DEF Ends
<1>9. f = fragment /\ f \in Text /\ Pushes(f)
  BY <1>7 DEF Ends, OneOfMany, Anchors, ParserTypes
<1>10. PICK max2 \in Nat : max2 = max_length'
  BY DEF Ends
<1>11. max2 >= max_length /\ (r \in OneOfMany => max2 >= max_length + 1) /\ max_length \in Nat
  BY <1>10 DEF Ends, ParserTypes
<1>12. ASSUME NEW CONSTANT some \in SUBSET Text,
              \A v \in some : /\ r \in OneOfMany => Len(v) <= 1
                              /\ r \in Anchors => v = <<>>
                              /\ HasNewline(v) => MatchesLf(q, from + 1)
       PROVE  \A u \in words, v \in some : Fits(u \o v, fragments', <<>>, length_known', max2, may_match_lf', has_literal_prefix')
  <2>1. ASSUME NEW CONSTANT v \in some
        PROVE  /\ length_known' => length_known /\ max_length + Len(v) <= max2
               /\ HasNewline(v) => may_match_lf'
    <3>1. PICK l \in Nat : l = Len(v)
      BY DEF Text
    <3>2. CASE r \in OneOfMany
      <4>1. l <= 1 /\ max2 >= max_length + 1
        BY <1>11, <1>12, <3>1, <3>2
      <4>2. max_length + l <= max2
        BY <1>11, <4>1
      <4> QED
        BY <1>5, <1>12, <3>1, <4>2 DEF Ends
    <3>3. CASE r \in Anchors
      <4>1. l = 0
        BY <1>12, <3>1, <3>3, EmptySeq
      <4>2. max_length + l <= max2
        BY <1>11, <4>1
      <4> QED
        BY <1>5, <1>12, <3>1, <4>2 DEF Ends
    <3>4. CASE r = "SPEC_PAREN"
      <4>1. ~ length_known'
        BY <3>4 DEF Ends, VariableLength
      <4> QED
        BY <1>5, <1>12, <4>1
    <3> QED
      BY <1>7, <3>2, <3>3, <3>4
  <2>2. ASSUME NEW CONSTANT u \in words, NEW CONSTANT v \in some PROVE Lies(f, u \o v, Len(u) - Len(f))
    <3>1. Fits(u, fragments, f, length_known, max_length, may_match_lf, has_literal_prefix)
      BY <1>3, <1>9 DEF ReadSoFar
    <3>2. u \in Seq(Letter) /\ v \in Seq(Letter) /\ f \in Seq(Letter)
      BY <1>2, <1>9 DEF Text
    <3> QED
      BY <3>1, <3>2, EndOfWordLies DEF Fits, Embedded
  <2>3. may_match_lf => may_match_lf'
    BY DEF Ends
  <2>4. ReadSoFar(words, f)
    BY <1>3, <1>9
  <2> QED
    BY <1>2, <1>9, <1>10, <2>1, <2>2, <2>3, <2>4, PushFits
<1>13. fragment' = <<>> /\ max_length' = max2
  BY <1>9, <1>10 DEF Pushes
<1>14. CASE ItemDone(q, from + 1, mid, last, own)
  <2>1. mid = last
    BY <1>14 DEF ItemDone
  <2>2. ASSUME NEW CONSTANT v \in own
        PROVE  /\ r \in OneOfMany => Len(v) <= 1
               /\ r \in Anchors => v = <<>>
               /\ HasNewline(v) => MatchesLf(q, from + 1)
    <3>1. (r \in OneOfMany => Len(v) = 1) /\ (r \in Anchors => v = <<>>)
      BY <1>5, <1>14 DEF ItemDone, MeansOnce
    <3>2. HasNewline(v) => MatchesLf(q, from + 1)
      BY <1>14 DEF ItemDone
    <3>3. PICK l \in Nat : l = Len(v)
      BY <1>2 DEF Text
    <3>4. r \in OneOfMany => Len(v) <= 1
      BY <3>1, <3>3
    <3> QED
      BY <3>1, <3>2, <3>4
  <2>3. \A u \in words, v \in own : Fits(u \o v, fragments', <<>>, length_known', max2, may_match_lf', has_literal_prefix')
    BY <1>2, <1>12, <2>2
  <2>4. ReadSoFar(q.items[n + 1].words, fragment)'
    <3>1. ASSUME NEW CONSTANT w \in q.items[n + 1].words
          PROVE  Fits(w, fragments', <<>>, length_known', max2, may_match_lf', has_literal_prefix')
      <4>1. w \in Joined(words, own)
        BY <1>2
      <4>2. PICK u \in words, v \in own : w = u \o v
        BY <4>1, JoinedAre
      <4> QED
        BY <2>3, <4>2
    <3> QED
      BY <1>13, <3>1 DEF ReadSoFar
  <2>5. AtItem(q, n + 1)'
    BY <1>1, <1>2, <1>8, <2>1, <2>4 DEF AtItem
  <2> QED
    BY <1>2, <2>5 DEF PatternRead
<1>15. CASE ItemBehind(q, from + 1, mid, last, own)
  <2>1. \A u \in words, v \in {<<>>} : Fits(u \o v, fragments', <<>>, length_known', max2, may_match_lf', has_literal_prefix')
    <3> DEFINE some == {<<>>}
    <3>1. some \in SUBSET Text
      BY EmptySeq DEF Text
    <3>2. ASSUME NEW CONSTANT v \in some
          PROVE  /\ r \in OneOfMany => Len(v) <= 1
                 /\ r \in Anchors => v = <<>>
                 /\ HasNewline(v) => MatchesLf(q, from + 1)
      <4>1. v = <<>> /\ Len(<<>>) = 0
        BY EmptySeq
      <4>2. DOMAIN <<>> = {}
        OBVIOUS
      <4> QED
        BY <4>1, <4>2 DEF HasNewline
    <3> HIDE DEF some
    <3>3. \A u \in words, v \in some : Fits(u \o v, fragments', <<>>, length_known', max2, may_match_lf', has_literal_prefix')
      BY <1>12, <3>1, <3>2
    <3> QED
      BY <3>3 DEF some
  <2>2. ASSUME NEW CONSTANT u \in words
        PROVE  Fits(u, fragments', <<>>, length_known', max2, may_match_lf', has_literal_prefix')
    <3>1. u \o <<>> = u
      BY <1>2, ConcatEmptySeq DEF Text
    <3>2. Fits(u \o <<>>, fragments', <<>>, length_known', max2, may_match_lf', has_literal_prefix')
      BY <2>1
    <3> QED
      BY <3>1, <3>2
  <2>3. PendingFragment(q, from + 1, words)'
    <3>1. ReadSoFar(words, <<>>)'
      BY <1>13, <2>2 DEF ReadSoFar
    <3>2. AnswerAt(q, from + 1) \notin Literally
      BY <1>5, <1>7 DEF OneOfMany, Anchors, Literally
    <3> QED
      BY <1>13, <3>1, <3>2 DEF PendingFragment
  <2>4. BehindAtom(q, n, mid)'
    BY <1>1, <1>2, <1>5, <1>6, <1>8, <1>15, <2>3 DEF BehindAtom, words, own
  <2> QED
    BY <2>4 DEF PatternRead
<1> QED
  BY <1>6, <1>14, <1>15

(* Append(g, c) without its last character is g. *)
LEMMA FrontOfMore ==
  ASSUME NEW S, NEW g \in Seq(S), NEW c \in S
  PROVE  SubSeq(Append(g, c), 1, MaxOf(0, Len(Append(g, c)) - 1)) = g
<1> DEFINE f == Append(g, c)
<1>1. PICK l \in Nat : l = Len(g)
  OBVIOUS
<1>2. f \in Seq(S) /\ Len(f) = l + 1 /\ \A x \in 1 .. l : f[x] = g[x]
  BY <1>1, AppendProperties
<1> HIDE DEF f
<1>3. MaxOf(0, Len(f) - 1) = l
  BY <1>2 DEF MaxOf
<1>4. \A x \in 1 .. l : f[x] \in S
  BY <1>1, <1>2
<1>5. SubSeq(f, 1, l) \in Seq(S) /\ Len(SubSeq(f, 1, l)) = l
  <2>1. 1 \in Int /\ l \in Int /\ (IF 1 <= l THEN l - 1 + 1 ELSE 0) = l
    OBVIOUS
  <2> QED
    BY <1>4, <2>1, SubSeqProperties
<1>6. \A x \in 1 .. l : SubSeq(f, 1, l)[x] = g[x]
  <2>1. ASSUME NEW x \in 1 .. l PROVE SubSeq(f, 1, l)[x] = f[x]
    BY <1>2
  <2> QED
    BY <1>2, <2>1
<1>7. SubSeq(f, 1, l) = g
  BY <1>1, <1>5, <1>6, SeqEqual
<1> QED
  BY <1>3, <1>7 DEF f

(* ...and the repetition of one takes the last character off it, but for '+'. *)
LEMMA RepetitionEnds ==
  ASSUME ParserTypes, NEW CONSTANT q, Readable(q), NEW CONSTANT r, NEW CONSTANT to \in Nat, NEW CONSTANT f, Ends(q, r, to, f),
         NEW CONSTANT n \in Nat, NEW CONSTANT mid \in Nat, BehindAtom(q, n, mid)
  PROVE  PatternRead(q)'
<1> DEFINE words == q.items[n].words
           own == q.items[n + 1].own
<1>1. n \in 1 .. Len(q.items) - 1 /\ n \in 1 .. Len(q.items) /\ n + 1 \in 1 .. Len(q.items)
  <2>1. n \in 1 .. Len(q.items) - 1
    BY DEF BehindAtom
  <2>2. Len(q.items) \in Nat
    BY ItemsAre DEF Readable
  <2> QED
    BY <2>1, <2>2
<1>2. /\ q.items[n].length \in Nat /\ q.items[n + 1].length \in Nat
      /\ words \in SUBSET Text /\ own \in SUBSET Text
  BY <1>1, ItemsAre DEF Readable
<1>3. PICK a \in Nat, last \in Nat : a = q.items[n].length + 1 /\ last = q.items[n + 1].length
  BY <1>2
<1>4. q.items[n + 1].words = Joined(words, own) /\ last <= Len(q.text)
  BY <1>1, <1>3, ItemOrder
<1>5. /\ Standing(q, mid, at, escaped) /\ ItemBehind(q, a, mid, last, own)
      /\ MatchesLf(q, a) => may_match_lf
      /\ PendingFragment(q, a, words)
  BY <1>3 DEF BehindAtom
<1> HIDE DEF words, own
<1>6. RightPattern(q)
  BY DEF Readable
<1>7. /\ AnswerAt(q, mid + 1) = r
      /\ \A end : ~ StopsAt(q, mid + 1, end)
      /\ \A end : EndsAt(q, mid + 1, end) => end = to
  BY <1>5, <1>6, EndsHere
<1>8. Repeats(q, a, mid, last, own)
  BY <1>5, <1>7 DEF ItemBehind
<1>9. last = to /\ r \in Repetitions
  BY <1>7, <1>8 DEF Repeats
<1>10. Standing(q, last, at', escaped')
  <2>1. Reads(q.text[at], escaped, q.extended) # "SHOULD_SKIP" /\ escaped \in BOOLEAN
    BY DEF Ends, SpecialEnd, Plain, ParserTypes
  <2>2. Standing(q, last, last + 1, Escapes(q.text[at], escaped))
    BY <1>4, <1>6, <2>1, StandingBehind
  <2> QED
    BY <1>9, <2>2 DEF Ends
<1>11. ~ length_known' /\ Pushes(f)
  BY <1>9 DEF Ends, VariableLength, Repetitions
<1>12. ASSUME NEW CONSTANT v \in own
       PROVE  /\ length_known' => FALSE
              /\ HasNewline(v) => may_match_lf'
              /\ r = "SPEC_PLUS" /\ AnswerAt(q, a) \in Literally => v # <<>> /\ Head(v) = CharAt(q, a)
  <2>1. HasNewline(v) => MatchesLf(q, a)
    BY <1>8 DEF Repeats
  <2>2. may_match_lf => may_match_lf'
    BY DEF Ends
  <2>3. r = "SPEC_PLUS" /\ AnswerAt(q, a) \in Literally => v # <<>> /\ Head(v) = CharAt(q, a)
    BY <1>7, <1>8 DEF Repeats, MeansRepeated
  <2> QED
    BY <1>5, <1>11, <2>1, <2>2, <2>3
<1>13. PICK max2 \in Nat : max2 = max_length'
  BY DEF Ends
<1>14. PICK g \in Text :
         /\ ReadSoFar(words, g) /\ f \in Text
         /\ \A u \in words, v \in own : f # <<>> => Lies(f, u \o v, Len(u) - Len(g))
  <2>1. CASE AnswerAt(q, a) \in Literally
    <3>1. PICK g \in Text : fragment = Append(g, CharAt(q, a)) /\ ReadSoFar(words, g)
      BY <1>5, <2>1 DEF PendingFragment
    <3>2. PICK c : c = CharAt(q, a)
      OBVIOUS
    <3>3. g \in Seq(Letter) /\ fragment \in Seq(Letter) /\ fragment = Append(g, c)
      BY <3>1, <3>2 DEF ParserTypes, Text
    <3>4. c \in Letter
      <4>1. PICK l \in Nat : l = Len(g)
        BY <3>3
      <4>2. Len(fragment) = l + 1 /\ fragment[l + 1] = c
        BY <3>3, <4>1
      <4>3. l + 1 \in 1 .. Len(fragment)
        BY <4>1, <4>2
      <4> QED
        BY <3>3, <4>2, <4>3, ElementOfSeq
    <3>5. ASSUME NEW CONSTANT u \in words
          PROVE  u \in Seq(Letter) /\ Lies(g, u, Len(u) - Len(g))
      <4>1. Fits(u, fragments, g, length_known, max_length, may_match_lf, has_literal_prefix)
        BY <3>1 DEF ReadSoFar
      <4> QED
        BY <1>2, <4>1 DEF Fits, Embedded, Text
    <3>6. CASE r = "SPEC_PLUS"
      <4>1. f = Append(g, c)
        BY <3>3, <3>6 DEF Ends
      <4>2. ASSUME NEW CONSTANT u \in words, NEW CONSTANT v \in own PROVE Lies(f, u \o v, Len(u) - Len(g))
        <5>1. v \in Seq(Letter) /\ v # <<>> /\ Head(v) = c
          BY <1>2, <1>12, <2>1, <3>2, <3>6 DEF Text
        <5> QED
          BY <3>3, <3>4, <3>5, <4>1, <5>1, RepeatedLies
      <4> QED
        BY <3>1, <3>3, <4>1, <4>2 DEF Text
    <3>7. CASE r # "SPEC_PLUS"
      <4>1. f = SubSeq(Append(g, c), 1, MaxOf(0, Len(Append(g, c)) - 1))
        BY <1>9, <3>3, <3>7 DEF Ends, Repetitions
      <4>2. f = g
        BY <3>3, <3>4, <4>1, FrontOfMore
      <4>3. ASSUME NEW CONSTANT u \in words, NEW CONSTANT v \in own PROVE Lies(f, u \o v, Len(u) - Len(g))
        <5>1. v \in Seq(Letter)
          BY <1>2 DEF Text
        <5> QED
          BY <3>3, <3>5, <4>2, <5>1, EndOfWordLies
      <4> QED
        BY <3>1, <4>2, <4>3
    <3> QED
      BY <3>6, <3>7
  <2>2. CASE AnswerAt(q, a) \notin Literally
    <3>1. fragment = <<>> /\ ReadSoFar(words, <<>>)
      BY <1>5, <2>2 DEF PendingFragment
    <3>2. SubSeq(<<>>, 1, MaxOf(0, Len(<<>>) - 1)) = <<>>
      <4>1. Len(<<>>) = 0
        BY EmptySeq
      <4>2. MaxOf(0, Len(<<>>) - 1) = 0
        BY <4>1 DEF MaxOf
      <4> QED
        BY <4>2, SubSeqEmpty
    <3>3. f = <<>>
      BY <3>1, <3>2 DEF Ends
    <3>4. <<>> \in Text
      BY EmptySeq DEF Text
    <3> QED
      BY <3>1, <3>3, <3>4
  <2> QED
    BY <2>1, <2>2
<1>15. \A u \in words, v \in own : Fits(u \o v, fragments', <<>>, length_known', max2, may_match_lf', has_literal_prefix')
  <2>1. \A v \in own : /\ length_known' => length_known /\ max_length + Len(v) <= max2
                       /\ HasNewline(v) => may_match_lf'
    BY <1>11, <1>12
  <2>2. may_match_lf => may_match_lf'
    BY DEF Ends
  <2> QED
    BY <1>2, <1>11, <1>13, <1>14, <2>1, <2>2, PushFits
<1>16. ReadSoFar(q.items[n + 1].words, fragment)'
  <2>1. ASSUME NEW CONSTANT w \in q.items[n + 1].words
        PROVE  Fits(w, fragments', <<>>, length_known', max2, may_match_lf', has_literal_prefix')
    <3>1. w \in Joined(words, own)
      BY <1>4
    <3>2. PICK u \in words, v \in own : w = u \o v
      BY <3>1, JoinedAre
    <3> QED
      BY <1>15, <3>2
  <2>2. fragment' = <<>> /\ max_length' = max2
    BY <1>11, <1>13 DEF Pushes
  <2> QED
    BY <2>1, <2>2 DEF ReadSoFar
<1>17. AtItem(q, n + 1)'
  BY <1>1, <1>3, <1>10, <1>16 DEF AtItem
<1> QED
  BY <1>1, <1>17 DEF PatternRead
-----------------------------------------------------------------------------
(* What holds of the parser besides: no fragment is empty, none is longer than *)
(* the bound; nothing is collected at the start of a pattern, and behind an    *)
(* anchor there is no literal prefix.                                       *)
SizeInv ==
  /\ \A n \in 1 .. Len(fragments) : fragments[n] # <<>>
  /\ length_known => /\ Len(fragment) <= max_length
                     /\ \A n \in 1 .. Len(fragments) : Len(fragments[n]) <= max_length

StartInv(q) ==
  /\ at = 1 => fragment = <<>> /\ fragments = <<>>
  /\ q.bol /\ at > 1 => ~ has_literal_prefix

ParserInv == ParserTypes /\ SizeInv

(* A pattern is read, and it was read. *)
ReadInv ==
  pc = "preprocess" => Readable(p) /\ ~ is_literal(p) /\ PatternRead(p) /\ StartInv(p)
BuildInv ==
  pc = "build_heuristic" =>
    Readable(p) /\ ~ is_literal(p) /\ ReadSoFar(Words(p), <<>>) /\ StartInv(p) /\ (p.text # <<>> => at > 1)

(* A special character pushes some of the fragment, or all. *)
LEMMA RequiredIs ==
  ASSUME NEW S, NEW g \in Seq(S), NEW f, f \in {g, SubSeq(g, 1, MaxOf(0, Len(g) - 1))}
  PROVE  f \in Seq(S) /\ Len(f) <= Len(g) /\ (g = <<>> => f = <<>>)
<1>1. PICK l \in Nat : l = Len(g)
  OBVIOUS
<1>2. CASE f = g
  BY <1>1, <1>2
<1>3. CASE f = SubSeq(g, 1, MaxOf(0, Len(g) - 1))
  <2>1. PICK e \in Nat : e = MaxOf(0, Len(g) - 1) /\ e <= l /\ (l = 0 => e = 0)
    <3>1. MaxOf(0, l - 1) \in Nat /\ MaxOf(0, l - 1) <= l /\ (l = 0 => MaxOf(0, l - 1) = 0)
      BY DEF MaxOf
    <3> QED
      BY <1>1, <3>1
  <2>2. \A x \in 1 .. e : g[x] \in S
    BY <1>1, <2>1
  <2>3. SubSeq(g, 1, e) \in Seq(S) /\ Len(SubSeq(g, 1, e)) = IF 1 <= e THEN e - 1 + 1 ELSE 0
    <3>1. 1 \in Int /\ e \in Int
      OBVIOUS
    <3> QED
      BY <2>2, <3>1, SubSeqProperties
  <2>4. Len(f) = e /\ f \in Seq(S)
    BY <1>3, <2>1, <2>3
  <2>5. g = <<>> => f = <<>>
    BY <1>1, <2>1, <2>4
  <2> QED
    BY <1>1, <2>1, <2>4, <2>5
<1> QED
  BY <1>2, <1>3

LEMMA MoreFragments ==
  ASSUME NEW fs \in Seq(Text), NEW f \in Text, NEW max \in Nat, NEW known,
         \A n \in 1 .. Len(fs) : fs[n] # <<>>,
         known => Len(f) <= max /\ \A n \in 1 .. Len(fs) : Len(fs[n]) <= max,
         NEW all, all = IF f = <<>> THEN fs ELSE Append(fs, f)
  PROVE  /\ all \in Seq(Text)
         /\ \A n \in 1 .. Len(all) : all[n] # <<>>
         /\ known => \A n \in 1 .. Len(all) : Len(all[n]) <= max
<1>1. CASE f = <<>>
  BY <1>1
<1>2. CASE f # <<>>
  <2>1. PICK l \in Nat : l = Len(fs)
    OBVIOUS
  <2>2. /\ Append(fs, f) \in Seq(Text) /\ Len(Append(fs, f)) = l + 1 /\ Append(fs, f)[l + 1] = f
        /\ \A n \in 1 .. l : Append(fs, f)[n] = fs[n]
    BY <2>1, AppendProperties
  <2>3. all \in Seq(Text) /\ Len(all) = l + 1 /\ all[l + 1] = f /\ \A n \in 1 .. l : all[n] = fs[n]
    BY <1>2, <2>2
  <2>4. ASSUME NEW n \in 1 .. l + 1 PROVE all[n] # <<>> /\ (known => Len(all[n]) <= max)
    <3>1. CASE n = l + 1
      BY <1>2, <2>3, <3>1
    <3>2. CASE n # l + 1
      <4>1. n \in 1 .. l
        BY <3>2
      <4> QED
        BY <2>1, <2>3, <4>1
    <3> QED
      BY <3>1, <3>2
  <2> QED
    BY <2>3, <2>4
<1> QED
  BY <1>1, <1>2

LEMMA BracketEndIs ==
  ASSUME NEW s, Len(s) \in Nat, NEW a \in Nat, a <= Len(s)
  PROVE  BracketEnd(s, a) \in Nat /\ a <= BracketEnd(s, a)
<1>1. \A n \in BracketEnds(s, a) : n \in Nat /\ a <= n
  BY DEF BracketEnds, Inside
<1>2. CASE BracketEnds(s, a) = {}
  BY <1>2 DEF BracketEnd
<1>3. CASE BracketEnds(s, a) # {}
  <2>1. \E x \in BracketEnds(s, a) : \A y \in BracketEnds(s, a) : x <= y
    BY <1>1, <1>3, LeastNumber
  <2>2. BracketEnd(s, a) \in BracketEnds(s, a)
    BY <1>3, <2>1 DEF BracketEnd
  <2> QED
    BY <1>1, <2>2
<1> QED
  BY <1>2, <1>3

LEMMA EnclosureEndIs ==
  ASSUME NEW s, Len(s) \in Nat, NEW a \in Nat, EnclosureEnds(s, a) # {}
  PROVE  EnclosureEnd(s, a) \in Nat /\ a <= EnclosureEnd(s, a)
<1>1. \A n \in EnclosureEnds(s, a) : n \in Nat /\ a <= n
  BY DEF EnclosureEnds
<1>2. \E x \in EnclosureEnds(s, a) : \A y \in EnclosureEnds(s, a) : x <= y
  BY <1>1, LeastNumber
<1>3. EnclosureEnd(s, a) \in EnclosureEnds(s, a)
  BY <1>2 DEF EnclosureEnd
<1> QED
  BY <1>1, <1>3

(* A pattern with an anchor in front is first read there. *)
LEMMA CaretIsRead ==
  ASSUME ParserTypes, NEW CONSTANT q, Readable(q), PatternRead(q), q.bol, at = 1
  PROVE  Reads(q.text[at], escaped, q.extended) = "SPEC_CARET"
<1>1. ASSUME NEW CONSTANT from \in Nat, Standing(q, from, at, escaped) PROVE ~ escaped
  <2>1. from + 2 # 1
    OBVIOUS
  <2> QED
    BY <1>1, <2>1 DEF Standing
<1>2. ~ escaped
  <2>1. ASSUME NEW CONSTANT n \in Nat, AtItem(q, n) PROVE ~ escaped
    <3>1. q.items[n].length \in Nat
      BY <2>1, ItemsAre DEF AtItem, Readable
    <3> QED
      BY <1>1, <2>1, <3>1 DEF AtItem
  <2>2. ASSUME NEW CONSTANT n \in Nat, NEW CONSTANT mid \in Nat, BehindAtom(q, n, mid) PROVE ~ escaped
    BY <1>1, <2>2 DEF BehindAtom
  <2> QED
    BY <2>1, <2>2 DEF PatternRead
<1>3. q.text[1] = "^" /\ q.extended \in BOOLEAN
  BY ItemsAre DEF Readable, RightPattern, PatternMeans
<1>4. Reads("^", FALSE, q.extended) = "SPEC_CARET"
  BY DEF Reads, AlwaysSpecial, SyntaxSpecial, Backslash, Newline
<1>5. escaped = FALSE
  BY <1>2 DEF ParserTypes
<1> QED
  BY <1>3, <1>4, <1>5

(* The end of a fragment, wherever the reader stands. *)
LEMMA EndsReads ==
  ASSUME ParserInv, NEW CONSTANT q, Readable(q), PatternRead(q), StartInv(q),
         NEW CONSTANT r, NEW CONSTANT to, NEW CONSTANT f, Ends(q, r, to, f)
  PROVE  PatternRead(q)' /\ ParserInv' /\ StartInv(q)'
<1>1. ParserTypes /\ at \in Nat \ {0} /\ at <= Len(q.text) /\ Len(q.text) \in Nat
  BY ItemsAre DEF ParserInv, ParserTypes, Ends, Readable
<1>2. to \in Nat /\ at <= to
  <2>1. CASE r = "SPEC_BRACKET"
    <3>1. to = BracketEnd(q.text, at)
      BY <2>1 DEF Ends, SpecialEnd
    <3> QED
      BY <1>1, <3>1, BracketEndIs
  <2>2. CASE r \in {"SPEC_PAREN", "SPEC_CURLYBRACE"}
    <3>1. to = EnclosureEnd(q.text, at) /\ EnclosureEnds(q.text, at) # {}
      BY <2>2 DEF Ends, SpecialEnd, Unclosed
    <3> QED
      BY <1>1, <3>1, EnclosureEndIs
  <2>3. CASE r \notin {"SPEC_BRACKET", "SPEC_PAREN", "SPEC_CURLYBRACE"}
    <3>1. to = at
      BY <2>3 DEF Ends, SpecialEnd
    <3> QED
      BY <1>1, <3>1
  <2> QED
    BY <2>1, <2>2, <2>3
<1>3. PatternRead(q)'
  BY <1>1, <1>2, ItemEnds, RepetitionEnds DEF PatternRead
<1>4. f \in Text /\ Len(f) <= Len(fragment) /\ (fragment = <<>> => f = <<>>)
  <2>1. f \in {fragment, SubSeq(fragment, 1, MaxOf(0, Len(fragment) - 1))}
    BY DEF Ends
  <2> QED
    BY <1>1, <2>1, RequiredIs DEF ParserTypes, Text
<1>5. PICK max2 \in Nat : max2 = max_length' /\ max_length <= max2 /\ max_length \in Nat
  BY <1>1 DEF Ends, ParserTypes
<1>6. /\ fragments' = IF f = <<>> THEN fragments ELSE Append(fragments, f)
      /\ fragment' = <<>>
      /\ has_literal_prefix' = (has_literal_prefix /\ (f # <<>> \/ fragments # <<>>))
  BY DEF Ends, Pushes
<1>7. /\ fragments' \in Seq(Text)
      /\ \A n \in 1 .. Len(fragments') : fragments'[n] # <<>>
      /\ length_known' => \A n \in 1 .. Len(fragments') : Len(fragments'[n]) <= max2
  <2>1. PICK fs, known : fs = fragments /\ fs \in Seq(Text) /\ known = length_known'
    BY <1>1 DEF ParserTypes
  <2>2. \A n \in 1 .. Len(fs) : fs[n] # <<>>
    BY <2>1 DEF ParserInv, SizeInv
  <2>3. ASSUME known PROVE Len(f) <= max2 /\ \A n \in 1 .. Len(fs) : Len(fs[n]) <= max2
    <3>1. length_known
      BY <2>1, <2>3 DEF Ends
    <3>2. Len(fragment) <= max_length /\ \A n \in 1 .. Len(fs) : Len(fs[n]) <= max_length
      BY <2>1, <3>1 DEF ParserInv, SizeInv
    <3>3. PICK a \in Nat, b \in Nat : a = Len(f) /\ b = Len(fragment)
      BY <1>1, <1>4 DEF ParserTypes, Text
    <3>4. Len(f) <= max2
      BY <1>4, <1>5, <3>2, <3>3
    <3>5. ASSUME NEW n \in 1 .. Len(fs) PROVE Len(fs[n]) <= max2
      <4>1. PICK l \in Nat : l = Len(fs[n])
        BY <2>1 DEF Text
      <4>2. l <= max_length
        BY <3>2, <4>1
      <4> QED
        BY <1>5, <4>1, <4>2
    <3> QED
      BY <3>4, <3>5
  <2>4. PICK all : all = fragments'
    OBVIOUS
  <2>5. all = IF f = <<>> THEN fs ELSE Append(fs, f)
    BY <1>6, <2>1, <2>4
  <2>6. /\ all \in Seq(Text)
        /\ \A n \in 1 .. Len(all) : all[n] # <<>>
        /\ known => \A n \in 1 .. Len(all) : Len(all[n]) <= max2
    BY <1>4, <1>5, <2>1, <2>2, <2>3, <2>5, MoreFragments
  <2> QED
    BY <2>1, <2>4, <2>6
<1>8. <<>> \in Text /\ Len(<<>>) = 0
  BY EmptySeq DEF Text
<1>9. at' \in Nat /\ at' > 1
  <2>1. to + 1 \in Nat /\ to + 1 > 1
    BY <1>1, <1>2
  <2> QED
    BY <2>1 DEF Ends
<1>10. ParserTypes'
  <2>1. escaped' \in BOOLEAN /\ length_known' \in BOOLEAN /\ may_match_lf' \in BOOLEAN
    BY DEF Ends, Escapes
  <2>2. has_literal_prefix' \in BOOLEAN
    BY <1>6
  <2>3. at' \in Nat \ {0}
    BY <1>9
  <2> QED
    BY <1>5, <1>6, <1>7, <1>8, <2>1, <2>2, <2>3 DEF ParserTypes
<1>11. SizeInv'
  BY <1>5, <1>6, <1>7, <1>8 DEF SizeInv
<1>12. StartInv(q)'
  <2>1. ASSUME q.bol PROVE ~ has_literal_prefix'
    <3>1. CASE at = 1
      <4>1. f = <<>> /\ fragments = <<>>
        BY <1>4, <3>1 DEF StartInv
      <4> QED
        BY <1>6, <4>1
    <3>2. CASE at # 1
      <4>1. ~ has_literal_prefix
        BY <1>1, <2>1, <3>2 DEF StartInv
      <4> QED
        BY <1>6, <4>1
    <3> QED
      BY <3>1, <3>2
  <2>2. at' # 1
    BY <1>9
  <2> QED
    BY <2>1, <2>2 DEF StartInv
<1> QED
  BY <1>3, <1>10, <1>11, <1>12 DEF ParserInv

(* Plain characters and skipped ones leave the rest as it is, but a pattern   *)
(* with an anchor does not begin with one.                                  *)
LEMMA StartKept ==
  ASSUME ParserInv, NEW CONSTANT q, Readable(q), PatternRead(q), StartInv(q),
         Reads(q.text[at], escaped, q.extended) \in Plain,
         at' = at + 1, UNCHANGED has_literal_prefix
  PROVE  StartInv(q)' /\ at' \in Nat \ {0}
<1>1. at \in Nat \ {0} /\ ParserTypes
  BY DEF ParserInv, ParserTypes
<1>2. PICK a \in Nat : a = at' /\ a > 1
  BY <1>1
<1>3. ASSUME q.bol PROVE ~ has_literal_prefix
  <2>1. at # 1
    BY <1>1, <1>3, CaretIsRead DEF Plain
  <2>2. at > 1
    BY <1>1, <2>1
  <2> QED
    BY <1>3, <2>2 DEF StartInv
<1> QED
  BY <1>2, <1>3 DEF StartInv

LEMMA SkipKeeps ==
  ASSUME ParserInv, NEW CONSTANT q, Readable(q), PatternRead(q), StartInv(q),
         at <= Len(q.text), Reads(q.text[at], escaped, q.extended) = "SHOULD_SKIP",
         escaped' = Escapes(q.text[at], escaped), at' = at + 1,
         UNCHANGED <<fragment, fragments, max_length, length_known, may_match_lf, has_literal_prefix>>
  PROVE  PatternRead(q)' /\ ParserInv' /\ StartInv(q)'
<1>1. ParserTypes
  BY DEF ParserInv
<1>2. PatternRead(q)'
  BY <1>1, SkipReads
<1>3. StartInv(q)' /\ at' \in Nat \ {0}
  BY StartKept DEF Plain
<1>4. escaped' \in BOOLEAN
  BY DEF Escapes
<1>5. ParserTypes'
  BY <1>1, <1>3, <1>4 DEF ParserTypes
<1>6. SizeInv'
  BY DEF ParserInv, SizeInv
<1> QED
  BY <1>2, <1>3, <1>5, <1>6 DEF ParserInv

LEMMA CharKeeps ==
  ASSUME ParserInv, NEW CONSTANT q, Readable(q), PatternRead(q), StartInv(q), at <= Len(q.text),
         NEW CONSTANT r, r = Reads(q.text[at], escaped, q.extended), r \in Literally,
         escaped' = Escapes(q.text[at], escaped), at' = at + 1,
         NEW CONSTANT c, c = IF r = "NORMAL_NEWLINE" THEN Newline ELSE q.text[at],
         fragment' = Append(fragment, c), max_length' = max_length + 1,
         may_match_lf' = (may_match_lf \/ r = "NORMAL_NEWLINE"),
         UNCHANGED <<fragments, length_known, has_literal_prefix>>
  PROVE  PatternRead(q)' /\ ParserInv' /\ StartInv(q)'
<1>1. ParserTypes
  BY DEF ParserInv
<1>2. PatternRead(q)'
  BY <1>1, CharReads
<1>3. StartInv(q)' /\ at' \in Nat \ {0}
  BY StartKept DEF Plain, Literally
<1>4. c \in Letter
  <2>1. q.text \in Text /\ Len(q.text) \in Nat
    BY ItemsAre DEF Readable
  <2>2. at \in 1 .. Len(q.text)
    BY <1>1, <2>1 DEF ParserTypes
  <2>3. q.text[at] \in Letter
    BY <2>1, <2>2, ElementOfSeq DEF Text
  <2> QED
    BY <2>3 DEF Letter
<1>5. PICK g \in Seq(Letter), b \in Nat, m \in Nat : g = fragment /\ b = Len(g) /\ m = max_length
  BY <1>1 DEF ParserTypes, Text
<1>6. fragment' \in Text /\ Len(fragment') = b + 1 /\ max_length' = m + 1
  BY <1>4, <1>5, AppendProperties DEF Text
<1>7. ParserTypes'
  <2>1. escaped' \in BOOLEAN
    BY DEF Escapes
  <2>2. may_match_lf' \in BOOLEAN /\ max_length' \in Nat
    BY <1>5, <1>6
  <2> QED
    BY <1>1, <1>3, <1>6, <2>1, <2>2 DEF ParserTypes
<1>8. SizeInv'
  <2>1. fragments' = fragments /\ length_known' = length_known
    OBVIOUS
  <2>2. \A n \in 1 .. Len(fragments) : fragments[n] # <<>>
    BY DEF ParserInv, SizeInv
  <2>3. ASSUME length_known PROVE b + 1 <= m + 1 /\ \A n \in 1 .. Len(fragments) : Len(fragments[n]) <= m + 1
    <3>1. b <= m /\ \A n \in 1 .. Len(fragments) : Len(fragments[n]) <= m
      BY <1>5, <2>3 DEF ParserInv, SizeInv
    <3>2. ASSUME NEW n \in 1 .. Len(fragments) PROVE Len(fragments[n]) <= m + 1
      <4>1. PICK l \in Nat : l = Len(fragments[n])
        BY <1>1 DEF ParserTypes, Text
      <4> QED
        BY <1>5, <3>1, <4>1
    <3> QED
      BY <1>5, <3>1, <3>2
  <2> QED
    BY <1>6, <2>1, <2>2, <2>3 DEF SizeInv
<1> QED
  BY <1>2, <1>3, <1>7, <1>8 DEF ParserInv

(* A step of the parser that stays in it. *)
LEMMA ReadingGoesOn ==
  ASSUME IInv, ReadInv, pc = "preprocess", UNCHANGED <<pc, patterns, k>>,
         NEW CONSTANT q, q = p, PatternRead(q)', StartInv(q)'
  PROVE  ReadInv' /\ BuildInv'
<1>1. p' = q /\ pc' = "preprocess"
  BY DEF p
<1>2. Readable(q) /\ ~ is_literal(q)
  BY DEF ReadInv
<1>3. PatternRead(p)' /\ StartInv(p)'
  BY <1>1
<1> QED
  BY <1>1, <1>2, <1>3 DEF ReadInv, BuildInv

LEMMA EndKeeps ==
  ASSUME IInv, ParserInv, ReadInv, Reading,
         NEW CONSTANT to, NEW CONSTANT width \in Nat, NEW CONSTANT lf \in BOOLEAN, EndFragment(to, width, lf),
         NEW CONSTANT q, q = p, NEW CONSTANT r, r = Result, SpecialEnd(q, r, to),
         SpecialMatchesLf(q, r) => lf, r \in OneOfMany => width >= 1
  PROVE  ParserInv' /\ ReadInv' /\ BuildInv'
<1>1. pc = "preprocess" /\ at <= Len(q.text) /\ UNCHANGED <<pc, patterns, k>>
  BY DEF Reading, EndFragment
<1>2. Readable(q) /\ PatternRead(q) /\ StartInv(q)
  BY <1>1 DEF ReadInv
<1>3. r = Reads(q.text[at], escaped, q.extended)
  BY DEF Result, Char
<1>4. PICK f : f = Required
  OBVIOUS
<1>5. PICK m \in Nat : m = max_length
  BY DEF ParserInv, ParserTypes
<1>6. Ends(q, r, to, f)
  <2>1. escaped' = Escapes(q.text[at], escaped) /\ at' = to + 1
    BY DEF EndFragment, Advance, Char
  <2>2. f = IF r \in {"SPEC_CURLYBRACE", "SPEC_ASTERISK", "SPEC_QMARK"}
            THEN SubSeq(fragment, 1, MaxOf(0, Len(fragment) - 1)) ELSE fragment
    BY <1>4 DEF Required
  <2>3. Pushes(f)
    BY <1>4 DEF EndFragment, Push, Pushes
  <2>4. length_known' = (length_known /\ r \notin VariableLength)
    BY DEF EndFragment
  <2>5. max_length' = m + width
    BY <1>5 DEF EndFragment
  <2>6. max_length' \in Nat /\ max_length' >= max_length /\ (r \in OneOfMany => max_length' >= max_length + 1)
    BY <1>5, <2>5
  <2>7. may_match_lf' = (may_match_lf \/ lf)
    BY DEF EndFragment
  <2> QED
    BY <1>1, <1>3, <2>1, <2>2, <2>3, <2>4, <2>6, <2>7 DEF Ends
<1>7. PatternRead(q)' /\ ParserInv' /\ StartInv(q)'
  BY <1>2, <1>6, EndsReads
<1> QED
  BY <1>1, <1>7, ReadingGoesOn

(* The characters of a pattern, each read in its way. *)
LEMMA ReadingKeeps ==
  ASSUME IInv, ParserInv, ReadInv, Skip \/ NormalChar \/ Special \/ Dot \/ Bracket \/ Enclosure
  PROVE  ParserInv' /\ ReadInv' /\ BuildInv'
<1>1. PICK q : q = p
  OBVIOUS
<1>2. PICK r : r = Result
  OBVIOUS
<1>3. /\ Reading /\ pc = "preprocess" /\ at <= Len(q.text) /\ UNCHANGED <<pc, patterns, k>>
      /\ r = Reads(q.text[at], escaped, q.extended)
  BY <1>1, <1>2 DEF Skip, NormalChar, Special, Dot, Bracket, Enclosure, EndFragment, Reading, Result, Char
<1>4. Readable(q) /\ PatternRead(q) /\ StartInv(q)
  BY <1>1, <1>3 DEF ReadInv
<1>5. CASE Skip
  <2>1. /\ r = "SHOULD_SKIP" /\ escaped' = Escapes(q.text[at], escaped) /\ at' = at + 1
        /\ UNCHANGED <<fragment, fragments, max_length, length_known, may_match_lf, has_literal_prefix>>
    BY <1>1, <1>2, <1>5 DEF Skip, Advance, Char
  <2>2. PatternRead(q)' /\ ParserInv' /\ StartInv(q)'
    BY <1>3, <1>4, <2>1, SkipKeeps
  <2> QED
    BY <1>1, <1>3, <2>2, ReadingGoesOn
<1>6. CASE NormalChar
  <2>1. PICK c : c = IF r = "NORMAL_NEWLINE" THEN Newline ELSE q.text[at]
    OBVIOUS
  <2>2. /\ r \in Literally /\ escaped' = Escapes(q.text[at], escaped) /\ at' = at + 1
        /\ fragment' = Append(fragment, c) /\ max_length' = max_length + 1
        /\ may_match_lf' = (may_match_lf \/ r = "NORMAL_NEWLINE")
        /\ UNCHANGED <<fragments, length_known, has_literal_prefix>>
    BY <1>1, <1>2, <1>6, <2>1 DEF NormalChar, Advance, Char, Literally
  <2>3. PatternRead(q)' /\ ParserInv' /\ StartInv(q)'
    BY <1>3, <1>4, <2>1, <2>2, CharKeeps
  <2> QED
    BY <1>1, <1>3, <2>3, ReadingGoesOn
<1>7. CASE Special
  <2>1. r \in {"SPEC_ASTERISK", "SPEC_QMARK", "SPEC_PLUS", "SPEC_CARET", "SPEC_DOLLAR"}
    BY <1>2, <1>7 DEF Special
  <2>2. PICK to : to = at
    OBVIOUS
  <2>3. PICK lf \in BOOLEAN, width \in Nat : lf = FALSE /\ width = 0
    OBVIOUS
  <2>4. EndFragment(to, width, lf)
    BY <1>7, <2>2, <2>3 DEF Special
  <2>5. SpecialEnd(q, r, to) /\ ~ SpecialMatchesLf(q, r) /\ r \notin OneOfMany
    BY <2>1, <2>2 DEF SpecialEnd, SpecialMatchesLf, OneOfMany, Plain, Unclosed
  <2> QED
    BY <1>1, <1>2, <1>3, <2>4, <2>5, EndKeeps
<1>8. CASE Dot
  <2>1. r = "SPEC_DOT"
    BY <1>2, <1>8 DEF Dot
  <2>2. PICK to : to = at
    OBVIOUS
  <2>3. PICK lf \in BOOLEAN, width \in Nat : lf = TRUE /\ width = 1
    OBVIOUS
  <2>4. EndFragment(to, width, lf)
    BY <1>8, <2>2, <2>3 DEF Dot
  <2>5. SpecialEnd(q, r, to) /\ width >= 1
    BY <2>1, <2>2, <2>3 DEF SpecialEnd, Plain, Unclosed
  <2> QED
    BY <1>1, <1>2, <1>3, <2>3, <2>4, <2>5, EndKeeps
<1>9. CASE Bracket
  <2>1. r = "SPEC_BRACKET" /\ ~ BracketOpensAnother(q.text, at)
    BY <1>1, <1>2, <1>9 DEF Bracket
  <2>2. PICK to : to = BracketEnd(q.text, at)
    OBVIOUS
  <2>3. PICK lf \in BOOLEAN, width \in Nat : (lf = BracketMatchesLf(q.text, at)) /\ width = 1
    <3>1. BracketMatchesLf(q.text, at) \in BOOLEAN
      BY DEF BracketMatchesLf
    <3> QED
      BY <3>1
  <2>4. EndFragment(to, width, lf)
    BY <1>1, <1>9, <2>2, <2>3 DEF Bracket
  <2>5. SpecialEnd(q, r, to) /\ width >= 1
    BY <2>1, <2>2, <2>3 DEF SpecialEnd, Plain, Unclosed
  <2>6. SpecialMatchesLf(q, r) => lf
    BY <2>1, <2>3 DEF SpecialMatchesLf
  <2> QED
    BY <1>1, <1>2, <1>3, <2>4, <2>5, <2>6, EndKeeps
<1>10. CASE Enclosure
  <2>1. r \in {"SPEC_PAREN", "SPEC_CURLYBRACE"} /\ EnclosureEnds(q.text, at) # {}
    BY <1>1, <1>2, <1>10 DEF Enclosure
  <2>2. PICK to : to = EnclosureEnd(q.text, at)
    OBVIOUS
  <2>3. PICK lf \in BOOLEAN, width \in Nat : (lf = EnclosureMatchesLf(q.text, at)) /\ width = 0
    <3>1. EnclosureMatchesLf(q.text, at) \in BOOLEAN
      BY DEF EnclosureMatchesLf
    <3> QED
      BY <3>1
  <2>4. EndFragment(to, width, lf)
    BY <1>1, <1>10, <2>2, <2>3 DEF Enclosure
  <2>5. SpecialEnd(q, r, to) /\ r \notin OneOfMany
    BY <2>1, <2>2 DEF SpecialEnd, Plain, Unclosed, OneOfMany
  <2>6. SpecialMatchesLf(q, r) => lf
    BY <2>1, <2>3 DEF SpecialMatchesLf
  <2> QED
    BY <1>1, <1>2, <1>3, <2>4, <2>5, <2>6, EndKeeps
<1> QED
  BY <1>5, <1>6, <1>7, <1>8, <1>9, <1>10
-----------------------------------------------------------------------------
(* The reader is at the end of an item and all that was read fits, or it is    *)
(* between the ends of two items.                                           *)
Between(q, n) ==
  n \in 1 .. Len(q.items) - 1 /\ q.items[n].length + 1 < at /\ at <= q.items[n + 1].length

LEMMA WhereTheReaderIs ==
  ASSUME ParserTypes, NEW CONSTANT q, Readable(q), PatternRead(q)
  PROVE  \/ \E n \in 1 .. Len(q.items) : at = q.items[n].length + 1 /\ ReadSoFar(q.items[n].words, fragment)
         \/ \E n \in Nat : Between(q, n)
<1>1. PICK N \in Nat \ {0}, len \in Nat, x \in Nat : N = Len(q.items) /\ len = Len(q.text) /\ x = at
  BY ItemsAre DEF Readable, ParserTypes
<1>2. ASSUME NEW CONSTANT n \in Nat, AtItem(q, n), ~ escaped
      PROVE  \E m \in 1 .. N : at = q.items[m].length + 1 /\ ReadSoFar(q.items[m].words, fragment)
  <2>1. n \in 1 .. N /\ at = q.items[n].length + 1 /\ ReadSoFar(q.items[n].words, fragment)
    BY <1>1, <1>2 DEF AtItem, Standing
  <2> QED
    BY <2>1
<1>3. ASSUME NEW CONSTANT n \in Nat, AtItem(q, n), escaped PROVE Between(q, n)
  <2>1. n \in 1 .. N
    BY <1>1, <1>3 DEF AtItem
  <2>2. PICK from \in Nat : from = q.items[n].length
    BY <1>1, <2>1, ItemsAre DEF Readable
  <2>3. from < len /\ q.text[from + 1] = Backslash /\ x = from + 2
    BY <1>1, <1>3, <2>2 DEF AtItem, Standing
  <2>4. n \in 1 .. N - 1
    <3>1. q.items[N].length = len
      BY <1>1 DEF Readable, RightPattern
    <3> QED
      BY <2>1, <2>2, <2>3, <3>1
  <2>5. PICK to \in Nat : to = q.items[n + 1].length
    BY <1>1, <2>4, ItemsAre DEF Readable
  <2>6. ItemMeans(q, from + 1, to, q.items[n + 1].own)
    BY <1>1, <2>2, <2>4, <2>5, ItemOrder
  <2>7. HeadAt(q.text, from + 1) = from + 2
    <3>1. HeadAt(q.text, from + 1) = (from + 1) + 1
      BY <2>3 DEF HeadAt
    <3> QED
      BY <3>1
  <2>8. from + 2 <= to
    <3>1. from + 1 \in Nat /\ from + 2 \in Nat
      OBVIOUS
    <3>2. HeadAt(q.text, from + 1) <= to
      BY <2>6, <2>7, <3>1, HeadInItem
    <3> QED
      BY <2>7, <3>2
  <2>9. from + 1 < x /\ x <= to
    BY <2>3, <2>8
  <2> QED
    BY <1>1, <2>2, <2>4, <2>5, <2>9, Zenon DEF Between
<1>4. ASSUME NEW CONSTANT n \in Nat, NEW CONSTANT mid \in Nat, BehindAtom(q, n, mid) PROVE Between(q, n)
  <2>1. n \in 1 .. N - 1 /\ n \in 1 .. N /\ n + 1 \in 1 .. N
    <3>1. n \in 1 .. N - 1
      BY <1>1, <1>4 DEF BehindAtom
    <3> QED
      BY <3>1
  <2>2. PICK from \in Nat, to \in Nat : from = q.items[n].length /\ to = q.items[n + 1].length
    BY <1>1, <2>1, ItemsAre DEF Readable
  <2>3. from + 1 <= mid /\ Standing(q, mid, at, escaped) /\ ItemBehind(q, from + 1, mid, to, q.items[n + 1].own)
    BY <1>4, <2>2 DEF BehindAtom
  <2>4. mid < to
    BY <2>3 DEF ItemBehind
  <2>5. CASE escaped
    <3>1. q.text[mid + 1] = Backslash /\ x = mid + 2
      BY <1>1, <2>3, <2>5 DEF Standing
    <3>2. HeadAt(q.text, mid + 1) = (mid + 1) + 1
      BY <3>1 DEF HeadAt
    <3>3. HeadAt(q.text, mid + 1) <= to
      BY <2>3, HeadBehind
    <3>4. mid + 2 <= to
      BY <3>2, <3>3
    <3>5. from + 1 < x /\ x <= to
      BY <2>3, <3>1, <3>4
    <3> QED
      BY <1>1, <2>1, <2>2, <3>5, Zenon DEF Between
  <2>6. CASE ~ escaped
    <3>1. x = mid + 1
      BY <1>1, <2>3, <2>6 DEF Standing
    <3>2. from + 1 < x /\ x <= to
      BY <2>3, <2>4, <3>1
    <3> QED
      BY <1>1, <2>1, <2>2, <3>2, Zenon DEF Between
  <2> QED
    BY <2>5, <2>6
<1> QED
  BY <1>1, <1>2, <1>3, <1>4, Zenon DEF PatternRead

(* It is at the end of item n, and so what was read are its words. *)
LEMMA WordsRead ==
  ASSUME ParserTypes, NEW CONSTANT q, Readable(q), PatternRead(q),
         NEW CONSTANT n \in 1 .. Len(q.items), q.items[n].length = at - 1
  PROVE  ReadSoFar(q.items[n].words, fragment)
<1>1. PICK N \in Nat \ {0}, x \in Nat : N = Len(q.items) /\ x = at
  BY ItemsAre DEF Readable, ParserTypes
<1>2. \A i \in 1 .. N : q.items[i].length \in Nat
  BY <1>1, ItemsAre DEF Readable
<1>3. \A i, j \in 1 .. N : i < j => q.items[i].length < q.items[j].length
  BY <1>1, ItemOrder
<1>4. ASSUME NEW CONSTANT m \in 1 .. N, at = q.items[m].length + 1, ReadSoFar(q.items[m].words, fragment)
      PROVE  ReadSoFar(q.items[n].words, fragment)
  <2>1. PICK l \in Nat, j \in Nat : l = q.items[m].length /\ j = q.items[n].length
    BY <1>1, <1>2
  <2>2. x = l + 1 /\ j = x - 1
    BY <1>1, <1>4, <2>1, Zenon
  <2>3. ~ (l < j) /\ ~ (j < l)
    BY <2>2
  <2>4. ~ (m < n) /\ ~ (n < m) /\ n \in 1 .. N
    BY <1>1, <1>3, <2>1, <2>3
  <2>5. m = n
    BY <2>4
  <2> QED
    BY <1>4, <2>5
<1>5. ASSUME NEW CONSTANT m \in Nat, Between(q, m) PROVE FALSE
  <2>1. m \in 1 .. N - 1 /\ m \in 1 .. N /\ m + 1 \in 1 .. N
    <3>1. m \in 1 .. N - 1
      BY <1>1, <1>5 DEF Between
    <3> QED
      BY <3>1
  <2>2. PICK from \in Nat, to \in Nat, l \in Nat :
          from = q.items[m].length /\ to = q.items[m + 1].length /\ l = q.items[n].length
    BY <1>1, <1>2, <2>1
  <2>3. from < l /\ l < to
    <3>1. from + 1 < x /\ x <= to /\ l = x - 1
      BY <1>1, <1>5, <2>2, Zenon DEF Between
    <3> QED
      BY <3>1
  <2>4. CASE n <= m
    <3>1. n < m => l < from
      BY <1>1, <1>3, <2>1, <2>2
    <3>2. n = m => l = from
      BY <2>2
    <3> QED
      BY <1>1, <2>1, <2>3, <2>4, <3>1, <3>2
  <2>5. CASE n > m
    <3>1. n > m + 1 => to < l
      BY <1>1, <1>3, <2>1, <2>2
    <3>2. n = m + 1 => l = to
      BY <2>2
    <3> QED
      BY <1>1, <2>1, <2>3, <2>5, <3>1, <3>2
  <2> QED
    BY <1>1, <2>1, <2>4, <2>5
<1> QED
  BY <1>1, <1>4, <1>5, WhereTheReaderIs

LEMMA AllWordsRead ==
  ASSUME ParserTypes, NEW CONSTANT q, Readable(q), PatternRead(q), at > Len(q.text)
  PROVE  ReadSoFar(Words(q), fragment)
<1>1. PICK N \in Nat \ {0}, len \in Nat, x \in Nat : N = Len(q.items) /\ len = Len(q.text) /\ x = at
  BY ItemsAre DEF Readable, ParserTypes
<1>2. N \in 1 .. N /\ q.items[N].length = len
  BY <1>1 DEF Readable, RightPattern
<1>3. \A n \in 1 .. N : q.items[n].length \in Nat /\ q.items[n].length <= len
  BY <1>1, ItemsAre, ItemOrder DEF Readable
<1>4. ~ (\E n \in Nat : Between(q, n))
  <2>1. ASSUME NEW CONSTANT n \in Nat, Between(q, n) PROVE FALSE
    <3>1. n \in 1 .. N - 1 /\ at <= q.items[n + 1].length
      BY <1>1, <2>1 DEF Between
    <3>2. n + 1 \in 1 .. N
      BY <3>1
    <3>3. PICK l \in Nat : l = q.items[n + 1].length /\ l <= len
      BY <1>3, <3>2
    <3> QED
      BY <1>1, <3>1, <3>3
  <2> QED
    BY <2>1
<1>5. PICK n \in 1 .. N : at = q.items[n].length + 1
  BY <1>1, <1>4, WhereTheReaderIs
<1>6. PICK l \in Nat : l = q.items[n].length /\ l <= len
  BY <1>3
<1>7. len = x - 1
  <2>1. x = l + 1
    BY <1>1, <1>5, <1>6, Zenon
  <2>2. x > len
    BY <1>1, Zenon
  <2> QED
    BY <1>6, <2>1, <2>2
<1>8. q.items[N].length = at - 1
  BY <1>1, <1>2, <1>7
<1>9. N \in 1 .. Len(q.items)
  BY <1>1
<1>10. ReadSoFar(q.items[N].words, fragment)
  BY <1>8, <1>9, WordsRead
<1> QED
  BY <1>1, <1>10 DEF Words

(* The pattern is left, for the next one or for the choice of a matcher. *)
LEMMA LeavingKeeps ==
  ASSUME ParserInv, UNCHANGED parser, pc' \notin {"preprocess", "build_heuristic"}
  PROVE  ParserInv' /\ ReadInv' /\ BuildInv'
BY DEF ParserInv, ParserTypes, SizeInv, ReadInv, BuildInv, parser

LEMMA CompiledLeaves ==
  ASSUME ParserInv, NEW kind, NEW lit, NEW max, Compiled(kind, lit, max), UNCHANGED parser
  PROVE  ParserInv' /\ ReadInv' /\ BuildInv'
<1>1. pc' \notin {"preprocess", "build_heuristic"}
  BY DEF Compiled
<1> QED
  BY <1>1, LeavingKeeps

(* At the end of the pattern the last fragment is one like the others. *)
LEMMA LastFits ==
  ASSUME NEW fs \in Seq(Text), NEW g \in Text, g # <<>>, NEW w \in Text, NEW known, NEW max \in Nat, NEW lf, NEW start,
         Fits(w, fs, g, known, max, lf, start)
  PROVE  Fits(w, Append(fs, g), <<>>, known, max, lf, start)
<1>1. PICK v : v = <<>> /\ v \in Text /\ Len(v) = 0
  BY EmptySeq DEF Text
<1>2. w \o v = w
  BY <1>1, ConcatEmptySeq DEF Text
<1>3. max + Len(v) <= max
  BY <1>1
<1>4. ~ HasNewline(v)
  <2>1. DOMAIN <<>> = {}
    OBVIOUS
  <2> QED
    BY <1>1, <2>1 DEF HasNewline
<1>5. Lies(g, w \o v, Len(w) - Len(g))
  BY <1>2 DEF Fits, Embedded
<1>6. PICK all : all = Append(fs, g)
  OBVIOUS
<1>7. Pushing(w, g, v, fs, g, all, known, max, lf, start, known, max, lf, start)
  BY <1>1, <1>3, <1>4, <1>5, <1>6 DEF Pushing
<1>8. Fits(w \o v, all, <<>>, known, max, lf, start)
  BY <1>7, PushedFits
<1> QED
  BY <1>2, <1>6, <1>8

LEMMA LastFragmentKeeps ==
  ASSUME IInv, ParserInv, ReadInv, LastFragment
  PROVE  ParserInv' /\ ReadInv' /\ BuildInv'
<1>1. CASE ~ CanPush(fragment)
  BY <1>1, CompiledLeaves DEF LastFragment, GiveUp
<1>2. CASE CanPush(fragment)
  <2>1. PICK q : q = p
    OBVIOUS
  <2>2. /\ pc = "preprocess" /\ at > Len(q.text) /\ pc' = "build_heuristic"
        /\ fragments' = IF fragment = <<>> THEN fragments ELSE Append(fragments, fragment)
        /\ UNCHANGED <<patterns, k, at, escaped, fragment, max_length, length_known, may_match_lf, has_literal_prefix>>
    BY <1>2, <2>1 DEF LastFragment
  <2>3. Readable(q) /\ ~ is_literal(q) /\ PatternRead(q) /\ StartInv(q) /\ ParserTypes
    BY <2>1, <2>2 DEF ReadInv, ParserInv
  <2>4. ReadSoFar(Words(q), fragment)
    BY <2>2, <2>3, AllWordsRead
  <2>5. PICK g \in Text, m \in Nat : g = fragment /\ m = max_length
    BY <2>3 DEF ParserTypes
  <2>6. fragments \in Seq(Text)
    BY <2>3 DEF ParserTypes
  <2>7. /\ fragments' \in Seq(Text)
        /\ \A n \in 1 .. Len(fragments') : fragments'[n] # <<>>
        /\ length_known => \A n \in 1 .. Len(fragments') : Len(fragments'[n]) <= m
    <3>1. PICK fs, all, known : fs = fragments /\ all = fragments' /\ known = length_known
      OBVIOUS
    <3>2. all = IF g = <<>> THEN fs ELSE Append(fs, g)
      BY <2>2, <2>5, <3>1
    <3>3. \A n \in 1 .. Len(fs) : fs[n] # <<>>
      BY <3>1 DEF ParserInv, SizeInv
    <3>4. known => Len(g) <= m /\ \A n \in 1 .. Len(fs) : Len(fs[n]) <= m
      BY <2>5, <3>1 DEF ParserInv, SizeInv
    <3>5. fs \in Seq(Text)
      BY <2>6, <3>1
    <3>6. /\ all \in Seq(Text)
          /\ \A n \in 1 .. Len(all) : all[n] # <<>>
          /\ known => \A n \in 1 .. Len(all) : Len(all[n]) <= m
      BY <2>5, <3>2, <3>3, <3>4, <3>5, MoreFragments
    <3> QED
      BY <3>1, <3>6
  <2>8. ParserTypes'
    BY <2>2, <2>3, <2>7 DEF ParserTypes
  <2>9. SizeInv'
    BY <2>2, <2>5, <2>7 DEF SizeInv, ParserInv
  <2>10. ReadSoFar(Words(q), <<>>)'
    <3>1. ASSUME NEW CONSTANT w \in Words(q)
          PROVE  Fits(w, fragments', <<>>, length_known, m, may_match_lf, has_literal_prefix)
      <4>1. Fits(w, fragments, g, length_known, m, may_match_lf, has_literal_prefix)
        BY <2>4, <2>5 DEF ReadSoFar
      <4>2. CASE g = <<>>
        BY <2>2, <2>5, <4>1, <4>2
      <4>3. CASE g # <<>>
        <5>1. w \in Text
          BY <2>3, ItemsAre DEF Readable
        <5>2. Fits(w, Append(fragments, g), <<>>, length_known, m, may_match_lf, has_literal_prefix)
          BY <2>5, <2>6, <4>1, <4>3, <5>1, LastFits
        <5> QED
          BY <2>2, <2>5, <4>3, <5>2
      <4> QED
        BY <4>2, <4>3
    <3> QED
      BY <2>2, <2>5, <3>1 DEF ReadSoFar
  <2>11. StartInv(q)' /\ (q.text # <<>> => at > 1)
    <3>1. PICK len \in Nat, x \in Nat : len = Len(q.text) /\ x = at
      BY <2>3, ItemsAre DEF Readable, ParserTypes
    <3>2. x > len
      BY <2>2, <3>1, Zenon
    <3>3. q.text # <<>> => len > 0
      <4>1. q.text \in Seq(Letter)
        BY <2>3, ItemsAre DEF Readable, Text
      <4> QED
        BY <3>1, <4>1, EmptySeq
    <3>4. at = 1 => fragment = <<>> /\ fragments = <<>>
      BY <2>3 DEF StartInv
    <3>5. at = 1 => fragment' = <<>> /\ fragments' = <<>>
      BY <2>2, <3>4
    <3>6. q.text # <<>> => at > 1
      BY <3>1, <3>2, <3>3
    <3> QED
      BY <2>2, <2>3, <3>5, <3>6 DEF StartInv
  <2>12. p' = q
    BY <2>1, <2>2 DEF p
  <2>13. ReadSoFar(Words(p), <<>>)' /\ StartInv(p)'
    BY <2>10, <2>11, <2>12
  <2>14. (p.text # <<>> => at > 1)'
    BY <2>2, <2>11, <2>12
  <2> QED
    BY <2>2, <2>3, <2>8, <2>9, <2>12, <2>13, <2>14 DEF ReadInv, BuildInv, ParserInv
<1> QED
  BY <1>1, <1>2

(* At the start of a pattern nothing was collected: that fits the empty word.  *)
LEMMA NothingFits == Fits(<<>>, <<>>, <<>>, TRUE, 0, FALSE, TRUE)
<1>1. Len(<<>>) = 0 /\ DOMAIN <<>> = {} /\ 0 - 0 = 0
  BY EmptySeq
<1>2. Lies(<<>>, <<>>, Len(<<>>) - Len(<<>>))
  BY <1>1 DEF Lies
<1>3. Embedded(<<>>, <<>>, <<>>)
  <2> DEFINE ends == [n \in 0 .. 0 |-> 0]
  <2>1. ends \in [0 .. 0 -> 0 .. 0] /\ ends[0] = 0
    OBVIOUS
  <2> HIDE DEF ends
  <2>2. ends \in [0 .. Len(<<>>) -> 0 .. Len(<<>>)] /\ ends[Len(<<>>)] <= Len(<<>>) - Len(<<>>)
    BY <1>1, <2>1
  <2>3. \A n \in 1 .. Len(<<>>) : FALSE
    BY <1>1
  <2> QED
    BY <1>2, <2>2, <2>3 DEF Embedded
<1>4. ~ HasNewline(<<>>)
  BY <1>1 DEF HasNewline
<1> QED
  BY <1>1, <1>3, <1>4 DEF Fits

LEMMA CompileHeuristicKeeps ==
  ASSUME IInv, patterns \in PatternLists, CompileHeuristic
  PROVE  ParserInv' /\ ReadInv' /\ BuildInv'
<1>1. PICK q : q = p
  OBVIOUS
<1>2. /\ pc = "frec_compile" /\ q.valid /\ ~ is_literal(q) /\ pc' = "preprocess"
      /\ at' = 1 /\ escaped' = FALSE /\ fragment' = <<>>
      /\ fragments' = <<>> /\ max_length' = 0 /\ length_known' = TRUE
      /\ may_match_lf' = FALSE /\ has_literal_prefix' = TRUE
      /\ UNCHANGED <<patterns, k>>
  BY <1>1 DEF CompileHeuristic
<1>3. Readable(q)
  <2>1. k \in 1 .. Len(patterns)
    BY <1>2 DEF IInv, ListInv, Compiling
  <2>2. RightPattern(q)
    BY <1>1, <2>1, PatternsAreRight DEF p
  <2> QED
    BY <1>2, <2>2 DEF Readable, is_literal
<1>4. <<>> \in Text /\ <<>> \in Seq(Text) /\ Len(<<>>) = 0
  BY EmptySeq DEF Text
<1>5. ParserInv'
  <2>1. ParserTypes'
    <3>1. fragment' \in Text /\ fragments' \in Seq(Text)
      BY <1>2, <1>4, Zenon
    <3>2. /\ at' \in Nat \ {0} /\ escaped' \in BOOLEAN /\ max_length' \in Nat
          /\ length_known' \in BOOLEAN /\ may_match_lf' \in BOOLEAN /\ has_literal_prefix' \in BOOLEAN
      <4>1. 1 \in Nat \ {0} /\ 0 \in Nat
        OBVIOUS
      <4> QED
        BY <1>2, <4>1, Zenon
    <3> QED
      BY <3>1, <3>2, Zenon DEF ParserTypes
  <2>2. Len(fragments') = 0 /\ Len(fragment') = 0 /\ max_length' = 0 /\ \A n \in 1 .. 0 : FALSE
    BY <1>2, <1>4
  <2>3. SizeInv'
    BY <2>2 DEF SizeInv
  <2> QED
    BY <2>1, <2>3 DEF ParserInv
<1>6. PatternRead(q)'
  <2>1. 1 \in 1 .. Len(q.items) /\ q.items[1].length = 0 /\ q.items[1].words = {<<>>} /\ Len(q.text) \in Nat
    <3>1. Len(q.items) \in Nat \ {0} /\ Len(q.text) \in Nat
      BY <1>3, ItemsAre DEF Readable
    <3>2. q.items[1].length = 0 /\ q.items[1].words = {<<>>}
      BY <1>3 DEF Readable, RightPattern
    <3> QED
      BY <3>1, <3>2
  <2>2. Standing(q, 0, 1, FALSE)
    BY <2>1 DEF Standing
  <2>3. ReadSoFar({<<>>}, <<>>)'
    BY <1>2, NothingFits DEF ReadSoFar
  <2>4. AtItem(q, 1)'
    BY <1>2, <2>1, <2>2, <2>3 DEF AtItem
  <2> QED
    BY <2>4 DEF PatternRead
<1>7. StartInv(q)'
  BY <1>2 DEF StartInv
<1>8. p' = q
  BY <1>1, <1>2 DEF p
<1>9. PatternRead(p)' /\ StartInv(p)'
  BY <1>6, <1>7, <1>8
<1> QED
  BY <1>2, <1>3, <1>5, <1>8, <1>9 DEF ReadInv, BuildInv
-----------------------------------------------------------------------------
(* What was compiled of a pattern is right, if the promise covers it.         *)
Covers(f, q) ==
  /\ f.lit \notin Uninitialized
  /\ f.kind = "literal" => q.reg_literal \/ \A m \in DOMAIN q.text : q.text[m] \notin {Backslash, "^"}
  /\ q.reg_newline => \A w \in Words(q) : ~ HasNewline(w)

PregOf(f, q) ==
  [kind |-> f.kind, lit |-> f.lit, max |-> f.max, words |-> Words(q), bol |-> q.bol, eol |-> q.eol]

RightFrec(f, q) ==
  /\ f.kind \in {"literal", "longest", "prefix", "none"}
  /\ is_literal(q) => f.kind = "literal" /\ f.lit = q.text
  /\ Covers(f, q) => /\ KeepsPromise(PregOf(f, q), Newline)
                     /\ f.kind = "literal" => is_literal(q)
                     /\ f.kind = "prefix" => f.lit \in Text

FrecsInv == \A n \in 1 .. Len(frecs) : RightFrec(frecs[n], patterns[n])

(* The list for Wu-Manber is that of the patterns or that of their literals.  *)
WmInv ==
  pc \in {"wm_compile", "compiled"} =>
    /\ type = "MHEUR_LITERAL" => Len(patterns) > 1 /\ are_literal /\ wu_manber = PatternTexts
    /\ type = "MHEUR_LONGEST" => Len(patterns) > 1 /\ wu_manber = PatRefs

(* Plain characters without a backslash stand for themselves. *)
LEMMA PlainAnswers ==
  ASSUME NEW s, Len(s) \in Nat, DOMAIN s = 1 .. Len(s), \A n \in 1 .. Len(s) : s[n] # Backslash, NEW extended,
         IsPatternLiteral(s, extended)
  PROVE  \A n \in 1 .. Len(s) : Reads(s[n], FALSE, extended) \in Plain
<1> DEFINE esc == [n \in 1 .. Len(s) + 1 |-> FALSE]
<1>1. ASSUME NEW e, e = [n \in 1 .. Len(s) + 1 |-> n > 1 /\ Escapes(s[n - 1], e[n - 1])]
      PROVE  \A n \in 1 .. Len(s) : e[n] = FALSE
  <2> SUFFICES ASSUME NEW n \in 1 .. Len(s) PROVE e[n] = FALSE
    OBVIOUS
  <2>1. n \in 1 .. Len(s) + 1
    OBVIOUS
  <2>2. e[n] = (n > 1 /\ Escapes(s[n - 1], e[n - 1]))
    BY <1>1, <2>1, Zenon
  <2>3. ~ (n > 1 /\ Escapes(s[n - 1], e[n - 1]))
    <3>1. ASSUME n > 1 PROVE s[n - 1] # Backslash
      <4>1. n - 1 \in 1 .. Len(s)
        BY <3>1
      <4> QED
        BY <4>1
    <3> QED
      BY <3>1 DEF Escapes
  <2> QED
    BY <2>2, <2>3
<1>2. esc = [n \in 1 .. Len(s) + 1 |-> n > 1 /\ Escapes(s[n - 1], esc[n - 1])]
  <2>1. ASSUME NEW n \in 1 .. Len(s) + 1 PROVE ~ (n > 1 /\ Escapes(s[n - 1], esc[n - 1]))
    <3>1. ASSUME n > 1 PROVE s[n - 1] # Backslash
      <4>1. n - 1 \in 1 .. Len(s)
        BY <3>1
      <4> QED
        BY <4>1
    <3> QED
      BY <3>1 DEF Escapes
  <2>2. \A n \in 1 .. Len(s) + 1 : (n > 1 /\ Escapes(s[n - 1], esc[n - 1])) = FALSE
    BY <2>1
  <2> QED
    BY <2>2, Zenon
<1>3. EscapedAt(s) = CHOOSE e : e = [n \in 1 .. Len(s) + 1 |-> n > 1 /\ Escapes(s[n - 1], e[n - 1])]
  BY DEF EscapedAt
<1> HIDE DEF esc
<1>4. PICK e : e = EscapedAt(s) /\ e = [n \in 1 .. Len(s) + 1 |-> n > 1 /\ Escapes(s[n - 1], e[n - 1])]
  BY <1>2, <1>3, Zenon
<1>5. \A n \in 1 .. Len(s) : e[n] = FALSE
  BY <1>1, <1>4
<1>6. ASSUME NEW n \in 1 .. Len(s) PROVE Reads(s[n], FALSE, extended) \in Plain
  <2>1. Answers(s, extended)[n] \in Plain
    BY DEF IsPatternLiteral
  <2>2. Answers(s, extended)[n] = Reads(s[n], EscapedAt(s)[n], extended)
    BY DEF Answers
  <2>3. EscapedAt(s)[n] = FALSE
    BY <1>4, <1>5
  <2> QED
    BY <2>1, <2>2, <2>3
<1> QED
  BY <1>6

(* A pattern of plain characters without a backslash: each is an item of its   *)
(* own, and the pattern stands for its text.                                *)
PlainText(q) ==
  \A n \in 1 .. Len(q.text) :
    /\ q.text[n] # Backslash /\ q.text[n] # "^"
    /\ Reads(q.text[n], FALSE, q.extended) \in Plain

LEMMA PlainItem ==
  ASSUME NEW q, Readable(q), PlainText(q), NEW n \in 1 .. Len(q.text)
  PROVE  /\ HeadAt(q.text, n) = n /\ AnswerAt(q, n) \in Literally /\ CharAt(q, n) = q.text[n]
         /\ \A end : ~ StopsAt(q, n, end)
         /\ \A end : EndsAt(q, n, end) => end = n
<1>1. q.extended \in BOOLEAN /\ q.text[n] # Backslash /\ Reads(q.text[n], FALSE, q.extended) \in Plain
  BY ItemsAre DEF Readable, PlainText
<1>2. HeadAt(q.text, n) = n
  BY <1>1 DEF HeadAt
<1>3. (q.text[n] = Backslash) = FALSE
  BY <1>1
<1>4. AnswerAt(q, n) = Reads(q.text[n], FALSE, q.extended)
  BY <1>2, <1>3, Zenon DEF AnswerAt
<1>5. Reads(q.text[n], FALSE, q.extended) # "SHOULD_SKIP"
  BY <1>1, ReaderAnswers
<1>6. AnswerAt(q, n) \in Literally
  BY <1>1, <1>4, <1>5 DEF Plain, Literally
<1>7. Reads(q.text[n], FALSE, q.extended) = "NORMAL_NEWLINE" => q.text[n] = Newline
  BY <1>1, ReaderAnswers
<1>8. CharAt(q, n) = q.text[n]
  BY <1>2, <1>4, <1>7 DEF CharAt
<1>9. ASSUME NEW end PROVE ~ StopsAt(q, n, end)
  BY <1>6 DEF StopsAt, Unclosed, Literally
<1>10. ASSUME NEW end, EndsAt(q, n, end) PROVE end = n
  BY <1>2, <1>6, <1>10 DEF EndsAt, Literally
<1> QED
  BY <1>2, <1>6, <1>8, <1>9, <1>10

LEMMA JoinedOne ==
  ASSUME NEW u, NEW v
  PROVE  Joined({u}, {v}) = {u \o v}
<1> DEFINE w == u \o v
<1>1. ASSUME NEW x \in Joined({u}, {v}) PROVE x = w
  BY <1>1, JoinedAre
<1>2. w \in Joined({u}, {v})
  BY SMT DEF Joined
<1> HIDE DEF w
<1>3. Joined({u}, {v}) = {w}
  BY <1>1, <1>2
<1> QED
  BY <1>3 DEF w

LEMMA NextPlainItem ==
  ASSUME NEW q, Readable(q), PlainText(q), NEW n \in 1 .. Len(q.items) - 1,
         q.items[n].length = n - 1, q.items[n].words = {SubSeq(q.text, 1, n - 1)}
  PROVE  q.items[n + 1].length = n /\ q.items[n + 1].words = {SubSeq(q.text, 1, n)}
<1>1. PICK N \in Nat \ {0}, len \in Nat : N = Len(q.items) /\ len = Len(q.text)
  BY ItemsAre DEF Readable
<1>2. n \in 1 .. N - 1 /\ n \in 1 .. N /\ n + 1 \in 1 .. N /\ n \in Nat /\ (n - 1) + 1 = n
  BY <1>1
<1>3. PICK to, own : to \in Nat /\ to = q.items[n + 1].length /\ own = q.items[n + 1].own
  BY <1>1, <1>2, ItemsAre DEF Readable
<1>4. to <= len /\ n - 1 < to
  <2>1. q.items[n].length < q.items[n + 1].length
    BY <1>1, <1>2, ItemOrder
  <2>2. q.items[n + 1].length <= Len(q.text)
    BY <1>1, <1>2, ItemOrder
  <2> QED
    BY <1>1, <1>3, <2>1, <2>2
<1>5. ItemMeans(q, n, to, own) /\ q.items[n + 1].words = Joined(q.items[n].words, own)
  <2>1. ItemMeans(q, q.items[n].length + 1, q.items[n + 1].length, q.items[n + 1].own)
    BY <1>1, <1>2, ItemOrder
  <2>2. q.items[n + 1].words = Joined(q.items[n].words, q.items[n + 1].own)
    BY <1>1, <1>2, ItemOrder
  <2> QED
    BY <1>2, <1>3, <2>1, <2>2
<1>6. n \in 1 .. len
  BY <1>2, <1>3, <1>4
<1>7. PICK mid \in Nat :
        /\ mid <= to /\ EndsAt(q, n, mid)
        /\ ItemBehind(q, n, mid, to, own) \/ ItemDone(q, n, mid, to, own)
  <2>1. ~ StopsAt(q, n, to)
    BY <1>1, <1>6, PlainItem
  <2> QED
    BY <1>2, <1>3, <1>5, <2>1, ItemCases
<1>8. mid = n
  BY <1>1, <1>6, <1>7, PlainItem
<1>9. ~ ItemBehind(q, n, mid, to, own)
  <2> SUFFICES ASSUME ItemBehind(q, n, mid, to, own) PROVE FALSE
    OBVIOUS
  <2>1. n < to
    BY <1>8 DEF ItemBehind
  <2>2. n + 1 \in 1 .. len
    BY <1>2, <1>3, <1>4, <2>1
  <2>3. ~ StopsAt(q, n + 1, to) /\ AnswerAt(q, n + 1) \in Literally
    BY <1>1, <2>2, PlainItem
  <2>4. AnswerAt(q, n + 1) \in Repetitions
    BY <1>8, <2>3 DEF ItemBehind, Repeats
  <2> QED
    BY <2>3, <2>4 DEF Literally, Repetitions
<1>10. to = n /\ own = {<<q.text[n]>>}
  <2>1. MeansOnce(q, n, own) /\ to = n
    BY <1>7, <1>8, <1>9 DEF ItemDone
  <2>2. AnswerAt(q, n) \in Literally /\ CharAt(q, n) = q.text[n]
    BY <1>1, <1>6, PlainItem
  <2> QED
    BY <2>1, <2>2 DEF MeansOnce
<1>11. SubSeq(q.text, 1, n - 1) \o <<q.text[n]>> = SubSeq(q.text, 1, n)
  <2>1. q.text \in Seq(Letter)
    BY ItemsAre DEF Readable, Text
  <2>2. 1 \in 1 .. Len(q.text) /\ n \in 1 .. Len(q.text)
    BY <1>1, <1>6
  <2> QED
    BY <2>1, <2>2, SubSeqRecursiveSecond
<1>12. Joined({SubSeq(q.text, 1, n - 1)}, {<<q.text[n]>>}) = {SubSeq(q.text, 1, n - 1) \o <<q.text[n]>>}
  BY JoinedOne
<1> QED
  BY <1>3, <1>5, <1>10, <1>11, <1>12

LEMMA LiteralMeans ==
  ASSUME NEW q, RightPattern(q), q.valid, is_literal(q),
         q.reg_literal \/ \A m \in DOMAIN q.text : q.text[m] \notin {Backslash, "^"}
  PROVE  Words(q) = {q.text} /\ ~ q.bol /\ ~ q.eol
<1>1. CASE q.reg_literal
  BY <1>1 DEF RightPattern, PatternMeans
<1>2. CASE ~ q.reg_literal
  <2>1. Readable(q)
    BY <1>2 DEF Readable
  <2>2. PICK N \in Nat \ {0}, len \in Nat : N = Len(q.items) /\ len = Len(q.text)
    BY ItemsAre
  <2>3. DOMAIN q.text = 1 .. Len(q.text)
    BY ItemsAre DEF Text
  <2>4. PlainText(q)
    <3>1. \A n \in 1 .. Len(q.text) : q.text[n] # Backslash /\ q.text[n] # "^"
      BY <1>2, <2>3
    <3>2. IsPatternLiteral(q.text, q.extended)
      BY <1>2 DEF is_literal
    <3>3. \A n \in 1 .. Len(q.text) : Reads(q.text[n], FALSE, q.extended) \in Plain
      BY <2>2, <2>3, <3>1, <3>2, PlainAnswers
    <3> QED
      BY <3>1, <3>3 DEF PlainText
  <2>5. ~ q.bol
    <3> SUFFICES ASSUME q.bol PROVE FALSE
      OBVIOUS
    <3>1. q.text # <<>> /\ q.text[1] = "^"
      BY DEF RightPattern, PatternMeans
    <3>2. q.text \in Seq(Letter)
      BY ItemsAre DEF Text
    <3>3. 1 \in 1 .. Len(q.text)
      BY <3>1, <3>2
    <3> QED
      BY <2>4, <3>1, <3>3 DEF PlainText
  <2>6. ~ q.eol
    <3> SUFFICES ASSUME q.eol PROVE FALSE
      OBVIOUS
    <3>1. q.text # <<>> /\ q.text[Len(q.text)] = "$"
      BY DEF RightPattern, PatternMeans
    <3>2. q.text \in Seq(Letter)
      BY ItemsAre DEF Text
    <3>3. Len(q.text) \in 1 .. Len(q.text)
      BY <3>1, <3>2
    <3>4. Reads("$", FALSE, q.extended) = "SPEC_DOLLAR"
      BY DEF Reads, AlwaysSpecial, SyntaxSpecial, Backslash, Newline
    <3>5. Reads("$", FALSE, q.extended) \in Plain
      BY <2>4, <3>1, <3>3 DEF PlainText
    <3> QED
      BY <3>4, <3>5 DEF Plain
  <2> DEFINE T == {n \in Nat : n + 1 <= N => q.items[n + 1].length = n /\ q.items[n + 1].words = {SubSeq(q.text, 1, n)}}
  <2>7. 0 \in T
    <3>1. q.items[1].length = 0 /\ q.items[1].words = {<<>>}
      BY DEF RightPattern
    <3>2. SubSeq(q.text, 1, 0) = <<>>
      BY SubSeqEmpty
    <3>3. 0 + 1 = 1
      OBVIOUS
    <3> QED
      BY <3>1, <3>2, <3>3
  <2>8. ASSUME NEW n \in Nat, n \in T PROVE n + 1 \in T
    <3> SUFFICES ASSUME (n + 1) + 1 <= N
                 PROVE  q.items[(n + 1) + 1].length = n + 1 /\ q.items[(n + 1) + 1].words = {SubSeq(q.text, 1, n + 1)}
      OBVIOUS
    <3>1. PICK m \in Nat : m = n + 1
      OBVIOUS
    <3>2. m \in 1 .. N - 1 /\ m - 1 = n
      BY <3>1
    <3>3. q.items[m].length = m - 1 /\ q.items[m].words = {SubSeq(q.text, 1, m - 1)}
      BY <2>8, <3>1, <3>2
    <3>4. q.items[m + 1].length = m /\ q.items[m + 1].words = {SubSeq(q.text, 1, m)}
      BY <2>1, <2>2, <2>4, <3>2, <3>3, NextPlainItem
    <3> QED
      BY <3>1, <3>4
  <2>9. \A n \in Nat : n \in T
    <3> HIDE DEF T
    <3> QED
      BY <2>7, <2>8, AllNumbers
  <2>10. q.items[N].length = N - 1 /\ q.items[N].words = {SubSeq(q.text, 1, N - 1)}
    <3>1. N - 1 \in Nat /\ (N - 1) + 1 = N
      OBVIOUS
    <3>2. N - 1 \in T
      BY <2>9, <3>1
    <3> QED
      BY <3>1, <3>2
  <2>11. q.items[N].length = len
    BY <2>2 DEF RightPattern
  <2>12. SubSeq(q.text, 1, Len(q.text)) = q.text
    BY ItemsAre, SubSeqFull DEF Text
  <2>13. Words(q) = {q.text}
    BY <2>2, <2>10, <2>11, <2>12 DEF Words
  <2> QED
    BY <2>5, <2>6, <2>13
<1> QED
  BY <1>1, <1>2

LEMMA LiteralRight ==
  ASSUME NEW q, RightPattern(q), q.valid, is_literal(q), NEW f, f = [kind |-> "literal", lit |-> q.text, max |-> -1]
  PROVE  RightFrec(f, q)
<1>1. f.kind = "literal" /\ f.lit = q.text
  OBVIOUS
<1>2. ASSUME Covers(f, q) PROVE KeepsPromise(PregOf(f, q), Newline)
  <2>1. Words(q) = {q.text} /\ ~ q.bol /\ ~ q.eol
    BY <1>1, <1>2, LiteralMeans DEF Covers
  <2> QED
    BY <1>1, <2>1 DEF KeepsPromise, PregOf
<1> QED
  BY <1>1, <1>2 DEF RightFrec

(* What only bm_compile_full takes for a literal has a leading '^'.           *)
LEMMA FullRight ==
  ASSUME NEW q, RightPattern(q), ~ is_literal(q), CompilesFull(q), NEW f, f.kind = "literal"
  PROVE  RightFrec(f, q)
<1>1. ASSUME Covers(f, q) PROVE FALSE
  <2>1. \A m \in DOMAIN q.text : q.text[m] # "^"
    BY <1>1 DEF Covers, is_literal
  <2>2. ~ StepsOverCaret(q.text)
    <3> SUFFICES ASSUME q.text # <<>>, Head(q.text) = "^" PROVE FALSE
      BY DEF StepsOverCaret
    <3>1. q.text \in Seq(Letter)
      BY ItemsAre DEF Text
    <3>2. 1 \in DOMAIN q.text /\ q.text[1] = "^"
      BY <3>1
    <3> QED
      BY <2>1, <3>2
  <2>3. Stripped(q.text) = q.text
    BY <2>2 DEF Stripped
  <2> QED
    BY <2>3 DEF CompilesFull, is_literal
<1> QED
  BY <1>1 DEF RightFrec

LEMMA NoneRight ==
  ASSUME NEW q, ~ is_literal(q), NEW f, f.kind = "none"
  PROVE  RightFrec(f, q)
<1>1. KeepsPromise(PregOf(f, q), Newline)
  BY DEF KeepsPromise, PregOf
<1> QED
  BY <1>1 DEF RightFrec

LEMMA LongestIsThere ==
  ASSUME NEW L \in Nat \ {0}, NEW l \in [1 .. L -> Nat]
  PROVE  \E n \in 1 .. L : \A m \in 1 .. L : l[n] > l[m] \/ (l[n] = l[m] /\ n <= m)
<1> DEFINE Best(x) == \E n \in 1 .. x : \A m \in 1 .. x : l[n] > l[m] \/ (l[n] = l[m] /\ n <= m)
           T == {x \in Nat : x + 1 <= L => Best(x + 1)}
<1>1. 0 \in T
  <2>1. 0 + 1 = 1 /\ 1 \in 1 .. 1 /\ 1 \in 1 .. L /\ \A m \in 1 .. 1 : m = 1
    OBVIOUS
  <2>2. Best(1)
    BY <2>1
  <2> QED
    BY <2>1, <2>2
<1>2. ASSUME NEW x \in Nat, x \in T PROVE x + 1 \in T
  <2> SUFFICES ASSUME (x + 1) + 1 <= L PROVE Best((x + 1) + 1)
    OBVIOUS
  <2>1. PICK y \in Nat : y = (x + 1) + 1 /\ y \in 1 .. L /\ \A m \in 1 .. y : m \in 1 .. L /\ (m = y \/ m \in 1 .. x + 1)
    OBVIOUS
  <2>2. PICK n \in 1 .. x + 1 : \A m \in 1 .. x + 1 : l[n] > l[m] \/ (l[n] = l[m] /\ n <= m)
    BY <1>2
  <2>3. n \in 1 .. y /\ n \in 1 .. L /\ n <= y
    BY <2>1
  <2>4. CASE l[y] > l[n]
    <3>1. ASSUME NEW m \in 1 .. y PROVE l[y] > l[m] \/ (l[y] = l[m] /\ y <= m)
      <4>1. CASE m = y
        BY <2>1, <4>1
      <4>2. CASE m \in 1 .. x + 1
        <5>1. l[n] \in Nat /\ l[m] \in Nat /\ l[y] \in Nat
          BY <2>1, <2>3
        <5>2. l[n] >= l[m]
          BY <2>2, <4>2, <5>1
        <5> QED
          BY <2>4, <5>1, <5>2
      <4> QED
        BY <2>1, <4>1, <4>2
    <3>2. y \in 1 .. y
      BY <2>1
    <3>3. Best(y)
      BY <3>1, <3>2
    <3> QED
      BY <2>1, <3>3
  <2>5. CASE ~ (l[y] > l[n])
    <3>1. ASSUME NEW m \in 1 .. y PROVE l[n] > l[m] \/ (l[n] = l[m] /\ n <= m)
      <4>1. CASE m = y
        <5>1. l[n] \in Nat /\ l[y] \in Nat
          BY <2>1, <2>3
        <5> QED
          BY <2>3, <2>5, <4>1, <5>1
      <4>2. CASE m \in 1 .. x + 1
        BY <2>2, <4>2
      <4> QED
        BY <2>1, <4>1, <4>2
    <3>2. Best(y)
      BY <2>3, <3>1
    <3> QED
      BY <2>1, <3>2
  <2> QED
    BY <2>4, <2>5
<1>3. \A x \in Nat : x \in T
  <2> HIDE DEF T
  <2> QED
    BY <1>1, <1>2, AllNumbers
<1>4. L - 1 \in T
  <2>1. L - 1 \in Nat
    OBVIOUS
  <2> HIDE DEF T
  <2> QED
    BY <1>3, <2>1
<1>5. (L - 1) + 1 = L
  OBVIOUS
<1>6. Best(L)
  BY <1>4, <1>5
<1> QED
  BY <1>6

(* A fragment lies in each word. *)
LEMMA FragmentIsInfix ==
  ASSUME NEW S, NEW fs \in Seq(Seq(S)), NEW w \in Seq(S), NEW last, Embedded(fs, w, last), NEW i \in 1 .. Len(fs)
  PROVE  IsInfix(fs[i], w)
<1>1. PICK u, len : u = fs[i] /\ len = Len(fs)
  OBVIOUS
<1>2. u \in Seq(S) /\ len \in Nat /\ i \in 0 .. len
  BY <1>1
<1>3. PICK ends \in [0 .. len -> 0 .. Len(w)] : Lies(u, w, ends[i] - Len(u))
  BY <1>1 DEF Embedded
<1>4. PICK e \in Nat, a \in Nat, b \in Nat : e = ends[i] /\ a = Len(u) /\ b = Len(w)
  BY <1>2, <1>3
<1>5. Lies(u, w, e - a)
  BY <1>3, <1>4
<1>6. PICK n \in Nat : n = e - a
  BY <1>4, <1>5 DEF Lies
<1>7. n + Len(u) <= Len(w) /\ SubSeq(w, n + 1, n + Len(u)) = u
  BY <1>2, <1>5, <1>6, LiesIs
<1>8. n \in 0 .. Len(w) - Len(u)
  BY <1>4, <1>7
<1> QED
  BY <1>1, <1>7, <1>8 DEF IsInfix

(* The literal of a heuristic is a fragment, the first one if a match is to    *)
(* begin with it.                                                          *)
LEMMA BestIsFragment ==
  ASSUME ParserInv, fragments # <<>>, NEW lit \in BestFragments
  PROVE  \E i \in 1 .. Len(fragments) : lit = fragments[i] /\ (HeurType = "prefix" => i = 1)
<1>1. PICK fs \in Seq(Text) : fs = fragments
  BY DEF ParserInv, ParserTypes
<1>2. PICK L \in Nat \ {0} : L = Len(fs) /\ DOMAIN fs = 1 .. L
  BY <1>1
<1>3. Longest \in 1 .. L
  <2> DEFINE l == [n \in 1 .. L |-> Len(fs[n])]
  <2>1. ASSUME NEW n \in 1 .. L PROVE Len(fs[n]) \in Nat
    BY <1>2 DEF Text
  <2>2. l \in [1 .. L -> Nat] /\ \A n \in 1 .. L : l[n] = Len(fs[n])
    BY <2>1
  <2> HIDE DEF l
  <2>3. \E n \in 1 .. L : \A m \in 1 .. L : l[n] > l[m] \/ (l[n] = l[m] /\ n <= m)
    BY <2>2, LongestIsThere
  <2>4. \E n \in 1 .. L : \A m \in 1 .. L : Len(fs[n]) > Len(fs[m]) \/ (Len(fs[n]) = Len(fs[m]) /\ n <= m)
    BY <2>2, <2>3
  <2> QED
    BY <1>1, <1>2, <2>4, Zenon DEF Longest
<1>4. lit = fragments[IF HeurType = "prefix" THEN 1 ELSE Longest]
  BY DEF BestFragments
<1>5. 1 \in 1 .. L
  BY <1>2
<1>6. CASE HeurType = "prefix"
  BY <1>1, <1>2, <1>4, <1>5, <1>6
<1>7. CASE HeurType # "prefix"
  BY <1>1, <1>2, <1>3, <1>4, <1>7
<1> QED
  BY <1>6, <1>7

LEMMA HeuristicRight ==
  ASSUME ParserInv, NEW CONSTANT q, Readable(q), ~ is_literal(q), ReadSoFar(Words(q), <<>>), StartInv(q),
         q.text # <<>> => at > 1, q = p,
         HeurType # "none", NEW lit \in BestFragments,
         NEW f, f = [kind |-> HeurType, lit |-> lit, max |-> IF length_known THEN max_length ELSE -1]
  PROVE  RightFrec(f, q)
<1>1. /\ f.kind = HeurType /\ f.lit = lit /\ f.max = IF length_known THEN max_length ELSE -1
      /\ HeurType \in {"longest", "prefix"}
  BY DEF HeurType
<1> SUFFICES ASSUME Covers(f, q) PROVE KeepsPromise(PregOf(f, q), Newline) /\ lit \in Text
  BY <1>1 DEF RightFrec
<1>2. fragments # <<>>
  <2> SUFFICES ASSUME fragments = <<>> PROVE FALSE
    OBVIOUS
  <2>1. lit \in Uninitialized
    BY DEF BestFragments
  <2> QED
    BY <1>1, <2>1 DEF Covers
<1>3. PICK fs, known, lf, start : fs = fragments /\ known = length_known /\ lf = may_match_lf /\ start = has_literal_prefix
  OBVIOUS
<1>4. PICK max \in Nat : max = max_length
  BY DEF ParserInv, ParserTypes
<1>5. PICK i \in 1 .. Len(fs) : lit = fs[i] /\ (HeurType = "prefix" => i = 1)
  BY <1>2, <1>3, BestIsFragment
<1>6. /\ fs \in Seq(Seq(Letter)) /\ fs # <<>> /\ lit # <<>> /\ lit \in Text
      /\ known => Len(lit) <= max
  BY <1>2, <1>3, <1>4, <1>5 DEF ParserInv, ParserTypes, SizeInv, Text
<1>7. ASSUME NEW w \in Words(q)
      PROVE  /\ IsInfix(lit, w)
             /\ known => Len(w) <= max
             /\ HasNewline(w) => lf
             /\ start => IsStart(fs[1], w)
  <2>1. Fits(w, fs, <<>>, known, max, lf, start)
    BY <1>3, <1>4 DEF ReadSoFar
  <2>2. w \in Seq(Letter)
    BY ItemsAre DEF Readable, Text
  <2>3. IsInfix(lit, w)
    BY <1>5, <1>6, <2>1, <2>2, FragmentIsInfix DEF Fits
  <2> QED
    BY <1>6, <2>1, <2>3 DEF Fits
<1>8. CASE HeurType = "longest"
  <2>1. ASSUME ~ known PROVE \A w \in Words(q) : \A n \in DOMAIN w : w[n] # Newline
    <3>1. q.reg_newline \/ ~ lf
      BY <1>3, <1>8, <2>1 DEF HeurType
    <3>2. \A w \in Words(q) : ~ HasNewline(w)
      BY <1>7, <3>1 DEF Covers
    <3> QED
      BY <3>2 DEF HasNewline
  <2>2. f.kind = "longest" /\ f.max = IF known THEN max ELSE -1
    BY <1>1, <1>3, <1>4, <1>8
  <2>3. max # -1
    OBVIOUS
  <2> QED
    BY <1>1, <1>6, <1>7, <2>1, <2>2, <2>3 DEF KeepsPromise, PregOf
<1>9. CASE HeurType = "prefix"
  <2>1. ~ known /\ start
    BY <1>3, <1>9 DEF HeurType
  <2>2. ~ q.bol
    <3> SUFFICES ASSUME q.bol PROVE FALSE
      OBVIOUS
    <3>1. q.text # <<>>
      BY DEF Readable, RightPattern, PatternMeans
    <3> QED
      BY <1>3, <2>1, <3>1 DEF StartInv
  <2>3. \A w \in Words(q) : IsStart(lit, w)
    BY <1>5, <1>7, <1>9, <2>1
  <2>4. f.kind = "prefix" /\ f.max = -1
    BY <1>1, <1>3, <1>9, <2>1
  <2> QED
    BY <1>1, <1>6, <2>2, <2>3, <2>4 DEF KeepsPromise, PregOf
<1> QED
  BY <1>1, <1>8, <1>9
-----------------------------------------------------------------------------
(* All of it holds in every state. *)
CompileInv ==
  patterns \in PatternLists /\ IInv /\ ParserInv /\ ReadInv /\ BuildInv /\ FrecsInv /\ WmInv

LEMMA InitCompileInv == Init => CompileInv
<1> SUFFICES ASSUME Init PROVE CompileInv
  OBVIOUS
<1>1. <<>> \in Text /\ <<>> \in Seq(Text) /\ Len(<<>>) = 0
  BY EmptySeq DEF Text
<1>2. ParserTypes
  <2>1. 1 \in Nat \ {0} /\ 0 \in Nat
    OBVIOUS
  <2> QED
    BY <1>1, <2>1, Zenon DEF Init, ParserTypes
<1>3. SizeInv
  <2>1. Len(fragments) = 0 /\ Len(fragment) = 0 /\ max_length = 0 /\ \A n \in 1 .. 0 : FALSE
    BY <1>1 DEF Init
  <2> QED
    BY <2>1 DEF SizeInv
<1>4. FrecsInv
  <2>1. Len(frecs) = 0 /\ \A n \in 1 .. 0 : FALSE
    BY <1>1 DEF Init
  <2> QED
    BY <2>1 DEF FrecsInv
<1> QED
  BY <1>2, <1>3, <1>4, InitIInv DEF Init, CompileInv, ParserInv, ReadInv, BuildInv, WmInv

(* One more pattern is compiled, rightly. *)
LEMMA CompiledKeepsFrecs ==
  ASSUME IInv, Compiling, FrecsInv, NEW kind, NEW lit, NEW max, Compiled(kind, lit, max),
         NEW CONSTANT f, f = [kind |-> kind, lit |-> lit, max |-> max],
         NEW CONSTANT q, q = p, RightFrec(f, q)
  PROVE  FrecsInv' /\ WmInv'
<1>1. PICK S : frecs \in Seq(S)
  BY DEF IInv, ListInv
<1>2. PICK l \in Nat : l = Len(frecs) /\ k = l + 1
  BY <1>1 DEF IInv, ListInv
<1>3. frecs' = Append(frecs, f) /\ patterns' = patterns /\ pc' \notin {"wm_compile", "compiled"}
  BY DEF Compiled
<1>4. frecs \in Seq(S \cup {f}) /\ f \in S \cup {f}
  BY <1>1
<1>5. Len(frecs') = l + 1 /\ frecs'[l + 1] = f /\ \A n \in 1 .. l : frecs'[n] = frecs[n]
  BY <1>2, <1>3, <1>4, AppendProperties
<1>6. ASSUME NEW CONSTANT n \in 1 .. l + 1 PROVE RightFrec(frecs'[n], patterns[n])
  <2>1. CASE n = l + 1
    <3>1. patterns[n] = q
      BY <1>2, <2>1 DEF p
    <3> QED
      BY <1>5, <2>1, <3>1
  <2>2. CASE n # l + 1
    <3>1. n \in 1 .. l
      BY <2>2
    <3> QED
      BY <1>2, <1>5, <3>1 DEF FrecsInv
  <2> QED
    BY <2>1, <2>2
<1>7. FrecsInv'
  <2>1. \A n \in 1 .. l + 1 : RightFrec(frecs'[n], patterns'[n])
    BY <1>3, <1>6
  <2> QED
    BY <1>5, <2>1 DEF FrecsInv
<1> QED
  BY <1>3, <1>7 DEF WmInv

(* Where the pattern that is compiled is right, so is what is given up. *)
LEMMA GivingUpKeeps ==
  ASSUME CompileInv, pc = "preprocess", GiveUp
  PROVE  ParserInv' /\ ReadInv' /\ BuildInv' /\ FrecsInv' /\ WmInv'
<1>1. IInv /\ Compiling /\ FrecsInv /\ ParserInv /\ ~ is_literal(p)
  BY DEF CompileInv, Compiling, ReadInv
<1>2. PICK f : f = [kind |-> "none", lit |-> <<>>, max |-> -1]
  OBVIOUS
<1>3. PICK q : q = p
  OBVIOUS
<1>4. f.kind = "none"
  BY <1>2
<1>5. RightFrec(f, q)
  BY <1>1, <1>3, <1>4, NoneRight
<1>6. FrecsInv' /\ WmInv'
  BY <1>1, <1>2, <1>3, <1>5, CompiledKeepsFrecs DEF GiveUp
<1> QED
  BY <1>1, <1>6, CompiledLeaves DEF GiveUp

LEMMA BuildHeuristicKeeps ==
  ASSUME CompileInv, BuildHeuristic
  PROVE  ParserInv' /\ ReadInv' /\ BuildInv' /\ FrecsInv' /\ WmInv'
<1>1. pc = "build_heuristic" /\ UNCHANGED parser
  BY DEF BuildHeuristic
<1>2. PICK q : q = p
  OBVIOUS
<1>3. IInv /\ Compiling /\ FrecsInv /\ ParserInv
  BY <1>1 DEF CompileInv, Compiling
<1>4. /\ Readable(q) /\ ~ is_literal(q) /\ ReadSoFar(Words(q), <<>>) /\ StartInv(q)
      /\ q.text # <<>> => at > 1
  BY <1>1, <1>2 DEF CompileInv, BuildInv
<1>5. CASE HeurType = "none"
  <2>1. Compiled("none", <<>>, -1)
    BY <1>5 DEF BuildHeuristic
  <2>2. PICK f : f = [kind |-> "none", lit |-> <<>>, max |-> -1]
    OBVIOUS
  <2>3. f.kind = "none"
    BY <2>2
  <2>4. RightFrec(f, q)
    BY <1>4, <2>3, NoneRight
  <2>5. FrecsInv' /\ WmInv'
    BY <1>2, <1>3, <2>1, <2>2, <2>4, CompiledKeepsFrecs
  <2> QED
    BY <1>1, <1>3, <2>1, <2>5, CompiledLeaves
<1>6. CASE HeurType # "none"
  <2>1. PICK lit \in BestFragments : Compiled(HeurType, lit, IF length_known THEN max_length ELSE -1)
    BY <1>6 DEF BuildHeuristic
  <2>2. PICK kind, max : kind = HeurType /\ max = IF length_known THEN max_length ELSE -1
    OBVIOUS
  <2>3. PICK f : f = [kind |-> kind, lit |-> lit, max |-> max]
    OBVIOUS
  <2>4. RightFrec(f, q)
    BY <1>2, <1>3, <1>4, <1>6, <2>2, <2>3, HeuristicRight
  <2>5. Compiled(kind, lit, max)
    BY <2>1, <2>2
  <2>6. FrecsInv' /\ WmInv'
    BY <1>2, <1>3, <2>3, <2>4, <2>5, CompiledKeepsFrecs
  <2> QED
    BY <1>1, <1>3, <2>5, <2>6, CompiledLeaves
<1> QED
  BY <1>5, <1>6

LEMMA LiteralKeeps ==
  ASSUME CompileInv, CompileLiteral \/ CompileFull
  PROVE  ParserInv' /\ ReadInv' /\ BuildInv' /\ FrecsInv' /\ WmInv'
<1>1. PICK q : q = p
  OBVIOUS
<1>2. pc = "frec_compile" /\ q.valid /\ UNCHANGED parser
  BY <1>1 DEF CompileLiteral, CompileFull
<1>3. IInv /\ Compiling /\ FrecsInv /\ ParserInv /\ patterns \in PatternLists
  BY <1>2 DEF CompileInv, Compiling
<1>4. RightPattern(q)
  <2>1. k \in 1 .. Len(patterns)
    BY <1>3 DEF IInv, ListInv
  <2> QED
    BY <1>1, <1>3, <2>1, PatternsAreRight DEF p
<1>5. CASE CompileLiteral
  <2>1. is_literal(q) /\ Compiled("literal", q.text, -1)
    BY <1>1, <1>5 DEF CompileLiteral
  <2>2. PICK f : f = [kind |-> "literal", lit |-> q.text, max |-> -1]
    OBVIOUS
  <2>3. RightFrec(f, q)
    BY <1>2, <1>4, <2>1, <2>2, LiteralRight
  <2>4. FrecsInv' /\ WmInv'
    BY <1>1, <1>3, <2>1, <2>2, <2>3, CompiledKeepsFrecs
  <2> QED
    BY <1>2, <1>3, <2>1, <2>4, CompiledLeaves
<1>6. CASE CompileFull
  <2>1. PICK lit : lit = StandsFor(Stripped(q.text), q.extended)
    OBVIOUS
  <2>2. ~ is_literal(q) /\ CompilesFull(q) /\ Compiled("literal", lit, -1)
    BY <1>1, <1>6, <2>1 DEF CompileFull
  <2>3. PICK f : f = [kind |-> "literal", lit |-> lit, max |-> -1]
    OBVIOUS
  <2>4. f.kind = "literal"
    BY <2>3
  <2>5. RightFrec(f, q)
    BY <1>4, <2>2, <2>4, FullRight
  <2>6. FrecsInv' /\ WmInv'
    BY <1>1, <1>3, <2>2, <2>3, <2>5, CompiledKeepsFrecs
  <2> QED
    BY <1>2, <1>3, <2>2, <2>6, CompiledLeaves
<1> QED
  BY <1>5, <1>6

LEMMA PreprocessKeeps ==
  ASSUME CompileInv, Preprocess
  PROVE  ParserInv' /\ ReadInv' /\ BuildInv' /\ FrecsInv' /\ WmInv'
<1>1. IInv /\ ParserInv /\ ReadInv /\ BuildInv /\ FrecsInv
  BY DEF CompileInv
<1>2. ASSUME UNCHANGED <<patterns, frecs>>, pc' \in {"preprocess", "build_heuristic"} PROVE FrecsInv' /\ WmInv'
  BY <1>1, <1>2 DEF FrecsInv, WmInv
<1>3. CASE Skip \/ NormalChar \/ Special \/ Dot \/ Bracket \/ Enclosure
  <2>1. UNCHANGED <<patterns, frecs>> /\ pc' = "preprocess"
    BY <1>3 DEF Skip, NormalChar, Special, Dot, Bracket, Enclosure, EndFragment, Reading
  <2> QED
    BY <1>1, <1>2, <1>3, <2>1, ReadingKeeps
<1>4. CASE Unsupported \/ TooManyFragments \/ NotClosed
  BY <1>4, GivingUpKeeps DEF Unsupported, TooManyFragments, NotClosed, Reading
<1>5. CASE LastFragment
  <2>1. CASE CanPush(fragment)
    <3>1. UNCHANGED <<patterns, frecs>> /\ pc' = "build_heuristic"
      BY <1>5, <2>1 DEF LastFragment
    <3> QED
      BY <1>1, <1>2, <1>5, <3>1, LastFragmentKeeps
  <2>2. CASE ~ CanPush(fragment)
    BY <1>5, <2>2, GivingUpKeeps DEF LastFragment
  <2> QED
    BY <2>1, <2>2
<1>6. CASE BuildHeuristic
  BY <1>6, BuildHeuristicKeeps
<1> QED
  BY <1>3, <1>4, <1>5, <1>6 DEF Preprocess

LEMMA OthersKeep ==
  ASSUME CompileInv, BadPattern \/ Choose \/ WmCompiles \/ WmCompileFails
  PROVE  ParserInv' /\ ReadInv' /\ BuildInv' /\ FrecsInv' /\ WmInv'
<1>1. UNCHANGED <<patterns, frecs, parser>> /\ pc' \in {"failed", "wm_compile", "compiled"}
  BY DEF BadPattern, Choose, ChooseSingle, ChooseLiteral, ChooseNone, ChooseLongest, WmCompiles, WmCompileFails
<1>2. ParserInv' /\ ReadInv' /\ BuildInv'
  BY <1>1, LeavingKeeps DEF CompileInv
<1>3. FrecsInv'
  BY <1>1 DEF CompileInv, FrecsInv
<1>4. WmInv'
  <2>1. CASE BadPattern \/ WmCompileFails
    BY <2>1 DEF BadPattern, WmCompileFails, WmInv
  <2>2. CASE ChooseSingle \/ ChooseNone
    BY <2>2 DEF ChooseSingle, ChooseNone, WmInv
  <2>3. CASE ChooseLiteral
    BY <2>3 DEF ChooseLiteral, WmInv, are_literal, PatternTexts
  <2>4. CASE ChooseLongest
    BY <2>4 DEF ChooseLongest, WmInv, PatRefs
  <2>5. CASE WmCompiles
    BY <2>5 DEF WmCompiles, CompileInv, WmInv, mfrec, are_literal, PatternTexts, PatRefs
  <2> QED
    BY <2>1, <2>2, <2>3, <2>4, <2>5 DEF Choose
<1> QED
  BY <1>2, <1>3, <1>4

LEMMA NextCompileInv == CompileInv /\ [Next]_vars => CompileInv'
<1> SUFFICES ASSUME CompileInv, [Next]_vars PROVE CompileInv'
  OBVIOUS
<1>1. IInv'
  BY NextIInv DEF CompileInv
<1>2. CASE UNCHANGED vars
  <2>1. UNCHANGED <<patterns, pc, k, frecs, type, wu_manber, parser>>
    BY <1>2 DEF vars, mfrec
  <2>2. ParserInv'
    BY <2>1 DEF CompileInv, ParserInv, ParserTypes, SizeInv, parser
  <2>3. ASSUME NEW CONSTANT q, PatternRead(q) PROVE PatternRead(q)'
    BY <2>1, <2>3 DEF PatternRead, AtItem, BehindAtom, PendingFragment, ReadSoFar, parser
  <2>4. ASSUME NEW CONSTANT q, StartInv(q) PROVE StartInv(q)'
    BY <2>1, <2>4 DEF StartInv, parser
  <2>5. PICK q : q = p
    OBVIOUS
  <2>6. p' = q
    BY <2>1, <2>5 DEF p
  <2>7. ReadInv'
    <3> SUFFICES ASSUME pc = "preprocess" PROVE (Readable(p) /\ ~ is_literal(p) /\ PatternRead(p) /\ StartInv(p))'
      BY <2>1 DEF ReadInv
    <3>1. Readable(q) /\ ~ is_literal(q) /\ PatternRead(q)' /\ StartInv(q)'
      BY <2>3, <2>4, <2>5 DEF CompileInv, ReadInv
    <3> QED
      BY <2>6, <3>1
  <2>8. BuildInv'
    <3> SUFFICES ASSUME pc = "build_heuristic"
                 PROVE  (Readable(p) /\ ~ is_literal(p) /\ ReadSoFar(Words(p), <<>>) /\ StartInv(p) /\ (p.text # <<>> => at > 1))'
      BY <2>1 DEF BuildInv
    <3>1. Readable(q) /\ ~ is_literal(q) /\ ReadSoFar(Words(q), <<>>) /\ StartInv(q)' /\ (q.text # <<>> => at > 1)
      BY <2>4, <2>5 DEF CompileInv, BuildInv
    <3>2. ReadSoFar(Words(q), <<>>)' /\ (q.text # <<>> => at' > 1)
      BY <2>1, <3>1 DEF ReadSoFar, parser
    <3> QED
      BY <2>6, <3>1, <3>2
  <2>9. FrecsInv' /\ WmInv'
    BY <2>1 DEF CompileInv, FrecsInv, WmInv, are_literal, PatternTexts, PatRefs
  <2> QED
    BY <1>1, <2>1, <2>2, <2>7, <2>8, <2>9 DEF CompileInv
<1>3. CASE Next
  <2>1. patterns' = patterns
    BY <1>3 DEF Next, CompileLiteral, CompileFull, CompileHeuristic, BadPattern, Preprocess, Compiled, Skip, NormalChar,
                Unsupported, TooManyFragments, Special, Dot, Bracket, Enclosure, EndFragment, NotClosed, GiveUp,
                LastFragment, BuildHeuristic, Choose, ChooseSingle, ChooseLiteral, ChooseNone, ChooseLongest,
                WmCompiles, WmCompileFails
  <2>2. ParserInv' /\ ReadInv' /\ BuildInv' /\ FrecsInv' /\ WmInv'
    <3>1. CASE CompileHeuristic
      <4>1. FrecsInv' /\ WmInv'
        BY <3>1 DEF CompileHeuristic, CompileInv, FrecsInv, WmInv
      <4> QED
        BY <3>1, <4>1, CompileHeuristicKeeps DEF CompileInv
    <3> QED
      BY <1>3, <3>1, LiteralKeeps, PreprocessKeeps, OthersKeep DEF Next
  <2> QED
    BY <1>1, <2>1, <2>2 DEF CompileInv
<1> QED
  BY <1>2, <1>3

THEOREM CompileInvariance == Spec => []CompileInv
BY InitCompileInv, NextCompileInv, PTL DEF Spec

(* Wherever frec_preprocess_heur is at the end of an item, for every pattern   *)
(* of the kind described: all fragments that it has collected are in each word *)
(* of what it read, in their order and apart, the open one at the end, and the *)
(* bound, the line feed and the literal prefix are right.  No repetition,      *)
(* bracket or escape makes it require what a match may lack.                 *)
THEOREM FragmentsCorrect == Spec => []FragmentsInEveryWord
<1>1. ASSUME CompileInv PROVE FragmentsInEveryWord
  <2> SUFFICES ASSUME pc = "preprocess", NEW n \in ItemsRead, NEW w \in p.items[n].words
               PROVE  /\ OccurIn(fragments, w, fragment)
                      /\ length_known => Len(w) <= max_length
                      /\ HasNewline(w) => may_match_lf
                      /\ has_literal_prefix => IsStart(IF fragments = <<>> THEN fragment ELSE fragments[1], w)
    BY DEF FragmentsInEveryWord
  <2>1. PICK q : q = p
    OBVIOUS
  <2>2. Readable(q) /\ PatternRead(q) /\ ParserTypes
    BY <1>1, <2>1 DEF CompileInv, ReadInv, ParserInv
  <2>3. q.items \in Seq([length : Nat, own : SUBSET Seq(STRING), words : SUBSET Seq(STRING)])
    BY <2>2 DEF Readable, RightPattern, Pattern
  <2>4. n \in 1 .. Len(q.items) /\ q.items[n].length = at - 1 /\ w \in q.items[n].words
    BY <2>1, <2>3 DEF ItemsRead
  <2>5. ReadSoFar(q.items[n].words, fragment)
    BY <2>2, <2>4, WordsRead
  <2>6. Fits(w, fragments, fragment, length_known, max_length, may_match_lf, has_literal_prefix)
    BY <2>4, <2>5 DEF ReadSoFar
  <2>7. w \in Seq(Letter)
    BY <2>2, <2>4, ItemsAre DEF Readable, Text
  <2>8. fragments \in Seq(Seq(Letter)) /\ fragment \in Seq(Letter)
    BY <2>2 DEF ParserTypes, Text
  <2>9. OccurIn(fragments, w, fragment)
    BY <2>6, <2>7, <2>8, EmbeddedOccurs DEF Fits
  <2>10. IsStart(w, w)
    <3>1. Lies(w, w, 0)
      BY <2>7 DEF Lies
    <3> QED
      BY <2>7, <3>1, StartLies
  <2> QED
    BY <2>6, <2>9, <2>10 DEF Fits
<1> QED
  BY <1>1, CompileInvariance, PTL

(* frec_mcompile promises what the matchers take for granted, of every pattern *)
(* that it compiles and for which Covered holds: Match relies on that, and     *)
(* assumes it of the patterns it is given.                                  *)
THEOREM PromiseKept == Spec => []Promise
<1>1. ASSUME CompileInv PROVE Promise
  <2> SUFFICES ASSUME NEW n \in DOMAIN frecs, Covered(n) PROVE KeepsPromise(Preg(n), Newline)
    BY DEF Promise
  <2>1. PICK S : frecs \in Seq(S)
    BY <1>1 DEF CompileInv, IInv, ListInv
  <2>2. RightFrec(frecs[n], patterns[n])
    BY <1>1, <2>1 DEF CompileInv, FrecsInv
  <2>3. Covers(frecs[n], patterns[n])
    BY DEF Covered, Covers
  <2>4. KeepsPromise(PregOf(frecs[n], patterns[n]), Newline)
    BY <2>2, <2>3 DEF RightFrec
  <2> QED
    BY <2>4 DEF Preg, PregOf
<1> QED
  BY <1>1, CompileInvariance, PTL

LEMMA StartIsInfix ==
  ASSUME NEW S, NEW u \in Seq(S), NEW w \in Seq(S), IsStart(u, w)
  PROVE  IsInfix(u, w)
<1>1. PICK a \in Nat, b \in Nat : a = Len(u) /\ b = Len(w)
  OBVIOUS
<1>2. a <= b /\ SubSeq(w, 1, a) = u
  BY <1>1 DEF IsStart
<1>3. 0 \in 0 .. b - a /\ 0 + 1 = 1 /\ 0 + a = a
  BY <1>1, <1>2
<1>4. SubSeq(w, 0 + 1, 0 + a) = u
  BY <1>2, <1>3
<1> QED
  BY <1>1, <1>3, <1>4, Zenon DEF IsInfix

(* No pattern can match where Wu-Manber reports none of its literals: each one *)
(* is in the list, under its number, and every word of the pattern has it.     *)
THEOREM CandidatesFound == Spec => []CandidatesComplete
<1>1. ASSUME CompileInv PROVE CandidatesComplete
  <2> SUFFICES ASSUME pc = "compiled", type \in {"MHEUR_LITERAL", "MHEUR_LONGEST"}
               PROVE  /\ DOMAIN wu_manber = DOMAIN patterns
                      /\ \A n \in DOMAIN patterns : Covered(n) =>
                           wu_manber[n] # <<>> /\ \A w \in Words(patterns[n]) : IsInfix(wu_manber[n], w)
    BY DEF CandidatesComplete
  <2>1. DOMAIN wu_manber = DOMAIN patterns /\ (type = "MHEUR_LONGEST" => \A n \in DOMAIN frecs : frecs[n].kind # "none")
    BY <1>1 DEF CompileInv, IInv, EveryPatternListed
  <2>2. /\ type = "MHEUR_LITERAL" => are_literal /\ wu_manber = PatternTexts
        /\ type = "MHEUR_LONGEST" => wu_manber = PatRefs
        /\ Len(patterns) > 1
    BY <1>1 DEF CompileInv, WmInv
  <2>3. PICK S : frecs \in Seq(S)
    BY <1>1 DEF CompileInv, IInv, ListInv
  <2>4. patterns \in Seq(Pattern) /\ \A n \in 1 .. Len(patterns) : RightPattern(patterns[n]) /\ patterns[n].text # <<>>
    BY <1>1, <2>2, PatternsAreRight DEF CompileInv
  <2>5. DOMAIN frecs = 1 .. Len(frecs) /\ DOMAIN patterns = 1 .. Len(patterns) /\ Len(frecs) = Len(patterns)
    <3>1. Len(frecs) = k - 1 /\ k = Len(patterns) + 1 /\ Len(patterns) \in Nat
      BY <1>1, <2>4 DEF CompileInv, IInv, ListInv, Choosing
    <3>2. Len(frecs) = Len(patterns)
      BY <3>1
    <3> QED
      BY <2>3, <2>4, <3>2
  <2>6. ASSUME NEW n \in DOMAIN patterns, Covered(n)
        PROVE  wu_manber[n] # <<>> /\ \A w \in Words(patterns[n]) : IsInfix(wu_manber[n], w)
    <3>1. PICK f, q : f = frecs[n] /\ q = patterns[n]
      OBVIOUS
    <3>2. RightFrec(f, q)
      BY <1>1, <2>5, <3>1 DEF CompileInv, FrecsInv
    <3>3. Covers(f, q)
      BY <2>6, <3>1 DEF Covered, Covers
    <3>4. KeepsPromise(PregOf(f, q), Newline) /\ (f.kind = "literal" => is_literal(q))
      BY <3>2, <3>3 DEF RightFrec
    <3>5. RightPattern(q) /\ q.text # <<>>
      BY <2>4, <2>5, <3>1
    <3>6. wu_manber[n] = f.lit /\ (f.kind = "none" => FALSE)
      <4>1. CASE type = "MHEUR_LITERAL"
        <5>1. is_literal(q) /\ wu_manber[n] = q.text
          BY <2>2, <3>1, <4>1 DEF are_literal, PatternTexts
        <5>2. f.kind = "literal" /\ f.lit = q.text
          BY <3>2, <5>1 DEF RightFrec
        <5> QED
          BY <5>1, <5>2
      <4>2. CASE type = "MHEUR_LONGEST"
        BY <2>1, <2>2, <2>5, <3>1, <4>2 DEF PatRefs
      <4> QED
        BY <4>1, <4>2
    <3>7. ASSUME NEW u \in Text, NEW w \in Text, u = w PROVE IsInfix(u, w)
      <4>1. u \in Seq(Letter) /\ w \in Seq(Letter) /\ Lies(u, w, 0)
        BY <3>7 DEF Text, Lies
      <4>2. IsStart(u, w)
        BY <4>1, StartLies
      <4> QED
        BY <4>1, <4>2, StartIsInfix
    <3>8. CASE f.kind = "literal"
      <4>1. f.lit = q.text /\ Words(q) = {q.text} /\ q.text \in Text
        <5>1. f.lit = q.text
          BY <3>2, <3>4, <3>8 DEF RightFrec
        <5>2. Words(q) = {f.lit}
          BY <3>4, <3>8 DEF KeepsPromise, PregOf
        <5> QED
          BY <3>5, <5>1, <5>2, ItemsAre
      <4> QED
        BY <3>1, <3>5, <3>6, <3>7, <4>1
    <3>9. CASE f.kind = "longest"
      BY <3>1, <3>4, <3>6, <3>9 DEF KeepsPromise, PregOf
    <3>10. CASE f.kind = "prefix"
      <4>1. f.lit # <<>> /\ \A w \in Words(q) : IsStart(f.lit, w)
        BY <3>4, <3>10 DEF KeepsPromise, PregOf
      <4>2. ASSUME NEW w \in Words(q) PROVE IsInfix(f.lit, w)
        <5>1. w \in Seq(Letter) /\ f.lit \in Seq(Letter)
          BY <3>2, <3>3, <3>5, <3>10, ItemsAre DEF RightFrec, Text
        <5> QED
          BY <4>1, <5>1, StartIsInfix
      <4> QED
        BY <3>1, <3>6, <4>1, <4>2
    <3> QED
      BY <3>2, <3>6, <3>8, <3>9, <3>10 DEF RightFrec
  <2> QED
    BY <2>1, <2>6
<1> QED
  BY <1>1, CompileInvariance, PTL
=============================================================================
