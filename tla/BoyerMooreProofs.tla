--------------------------- MODULE BoyerMooreProofs ---------------------------
(***************************************************************************)
(* Theorems about BoyerMoore, for all patterns, texts and alphabets: the     *)
(* linear-time construction yields the shift tables of Boyer and Moore, the  *)
(* characters the turbo search passes over agree, a reported match is one,   *)
(* and but for the patterns for which two of its rules are wrong it is the   *)
(* first, and REG_NOMATCH is the truth.                                     *)
(***************************************************************************)
EXTENDS BoyerMoore, SequenceTheorems, WellFoundedInduction, TLAPS

Letters == Char \cup {Newline}
Searching == pc \in {"window", "compare"}
Usable == pc \in {"ready", "window", "compare", "done"}

Types ==
  /\ input \in Inputs
  /\ pc \in {"start", "badc", "suffixes", "prefixes", "inner", "ready", "failed",
             "window", "compare", "done"}
  /\ pattern \in Seq(Letters) /\ text \in Seq(Char)
  /\ has_bol \in BOOLEAN /\ has_eol \in BOOLEAN /\ has_glob \in BOOLEAN
  /\ i \in Int /\ j \in Int /\ f \in Int /\ g \in Int
  /\ srch_pos \in Nat /\ shift \in Int /\ prev_suf \in Int

(* What the stripped pattern is known to be: '$' is never accepted, and '^'   *)
(* brings the terminator along.                                            *)
PatternInv ==
  /\ pc = "start" => i = 0 /\ j = 0 /\ ~ has_bol /\ ~ has_eol
  /\ pc \notin {"start", "failed"} =>
       /\ has_glob <=> pattern = <<>>
       /\ ~ has_eol
       /\ has_bol => len >= 1 /\ PattChar(len - 1) = "NUL"
  /\ pc \in {"badc", "suffixes", "prefixes", "inner", "window", "compare"} => ~ has_glob

(* The shifts of bad characters, from the first n characters of the pattern. *)
LastBefore(n, c, x) ==
  PattChar(x) = c /\ \A y \in x + 1 .. n - 1 : PattChar(y) # c
BadTo(n) ==
  /\ bad_shifts \in [Char -> Int]
  /\ \A c \in Char :
       \/ bad_shifts[c] = len /\ \A x \in 0 .. n - 1 : PattChar(x) # c
       \/ \E x \in 0 .. n - 1 : LastBefore(n, c, x) /\ bad_shifts[c] = len - 1 - x
BadInv ==
  /\ pc = "badc" => i \in 0 .. len - 1 /\ BadTo(i)
  /\ pc \in {"suffixes", "prefixes", "inner"} => BadTo(len - 1)
  /\ Usable /\ ~ has_glob => BadTo(len - 1)

(* The pattern that ends at x has its last k characters, and no more, in     *)
(* common with the whole pattern.                                          *)
CommonSuffix(x, k) ==
  /\ k \in 0 .. x + 1
  /\ \A y \in x - k + 1 .. x : PattChar(y) = PattChar(y + len - 1 - x)
  /\ k <= x => PattChar(x - k) # PattChar(len - 1 - k)
SuffFrom(n) == DOMAIN suff = n .. len - 1 /\ \A x \in n .. len - 1 : CommonSuffix(x, suff[x])
(* The pattern from g + 1 to f is known to be that before its own end. *)
Known ==
  /\ f \in i + 1 .. len - 2
  /\ \A y \in g + 1 .. f : PattChar(y) = PattChar(y + len - 1 - f)
SuffInv ==
  /\ pc = "suffixes" => /\ i \in -1 .. len - 2 /\ g \in -1 .. len - 1
                        /\ SuffFrom(i + 1)
                        /\ i > g => Known
  /\ pc \in {"prefixes", "inner"} => SuffFrom(0)

(* The pattern meets its own end after a shift by s. *)
Border(s) == \A y \in s .. len - 1 : PattChar(y - s) = PattChar(y)
Shifts == good_shifts \in [0 .. len - 1 -> 1 .. len]

(* Of the borders up to the one for i the least is found at each place. *)
PrefixFound(x) == \* left of j
  /\ good_shifts[x] \in x + 1 .. len - 1 /\ Border(good_shifts[x])
  /\ \A s \in x + 1 .. good_shifts[x] - 1 : ~ Border(s)
PrefixOpen(x) ==
  /\ good_shifts[x] = len
  /\ \A s \in x + 1 .. len - 2 - i : s < len => ~ Border(s)
PrefixInv ==
  pc = "prefixes" =>
    /\ i \in -1 .. len - 1
    /\ Shifts
    /\ j \in 0 .. len - 1 /\ (j > 0 => j <= len - 2 - i)
    /\ \A x \in 0 .. len - 1 : IF x < j THEN PrefixFound(x) ELSE PrefixOpen(x)

(* Only shifts for places not looked at yet may be less than those found. *)
FoundTo(bound) ==
  \A x \in 0 .. len - 1 :
    /\ SuffixFits(x, good_shifts[x])
    /\ \A s \in 1 .. good_shifts[x] - 1 : SuffixFits(x, s) => s <= bound
    /\ \A s \in x + 1 .. len - 1 : Border(s) => good_shifts[x] <= s
GoodInv ==
  /\ pc = "inner" => i \in 0 .. len - 1 /\ Shifts /\ FoundTo(len - 1 - i)
  /\ Usable /\ ~ has_glob => Shifts /\ FoundTo(0)

(* What the search remembers of the last window: where it lies now, that it  *)
(* agrees, and why the shift was a good one.                               *)
Remembered(x) == x \in len - shift - prev_suf .. len - 1 - shift
MemoryInv ==
  Searching /\ prev_suf # 0 =>
    /\ prev_suf <= len - shift
    /\ \A x \in 0 .. len - 1 :
         Remembered(x) => /\ PattChar(x) = TextChar(srch_pos + x)
                          /\ PattChar(x) = PattChar(x + shift)
    /\ \/ prev_suf = len - shift /\ RemembersBeginning(shift)
       \/ /\ prev_suf < len - shift
          /\ PattChar(len - 1 - prev_suf - shift) # PattChar(len - 1 - prev_suf)
WindowInv ==
  /\ Searching => shift \in 1 .. len /\ prev_suf \in 0 .. len - 1
  /\ pc = "compare" => /\ srch_pos + len <= Len(text)
                       /\ i \in -1 .. len - 1
                       /\ \A x \in i + 1 .. len - 1 : PattChar(x) = TextChar(srch_pos + x)
                       /\ prev_suf # 0 => ~ Remembered(i)

(* What was found, in what is left of the caller's text. *)
ReportedInCut ==
  ret = "REG_OK" =>
    IF has_glob THEN result = [soffset |-> 0, eoffset |-> Len(text)]
    ELSE /\ result.soffset \in Nat /\ OccursAt(result.soffset)
         /\ result.eoffset = result.soffset + len
         /\ ShiftsAreSafe => \A q \in 0 .. result.soffset - 1 : ~ OccursAt(q)
AbsentInCut ==
  ret = "REG_NOMATCH" =>
    ~ has_glob /\ (ShiftsAreSafe => \A q \in 0 .. Len(text) : ~ OccursAt(q))
AnswerInv ==
  /\ pc \notin {"done", "failed"} => ret = "none"
  /\ pc = "failed" => ret \in {"REG_BADPAT", "REG_ESPACE"}
  /\ ReportedInCut /\ AbsentInCut

IInv ==
  /\ Types /\ PatternInv /\ BadInv /\ SuffInv /\ PrefixInv /\ GoodInv
  /\ MemoryInv /\ WindowInv /\ NothingSkipped /\ AnswerInv
-----------------------------------------------------------------------------
LEMMA LeastNumber ==
  ASSUME NEW T \in SUBSET Nat, T # {}
  PROVE  \E x \in T : \A y \in T : x <= y
<1>1. PICK x \in T : \A y \in T : ~ (<<y, x>> \in OpToRel(<, Nat))
  BY WFMin, NatLessThanWellFounded
<1>2. \A y \in T : <<y, x>> \in OpToRel(<, Nat) <=> y < x
  BY DEF OpToRel
<1>3. \A y \in T : ~ (y < x)
  BY <1>1, <1>2, Zenon
<1> QED
  BY <1>3

(* A set of numbers with 0, and with n + 1 for each of its n, has them all. *)
LEMMA AllNumbers ==
  ASSUME NEW T, 0 \in T, \A n \in Nat : n \in T => n + 1 \in T
  PROVE  \A n \in Nat : n \in T
<1> SUFFICES ASSUME NEW m \in Nat, m \notin T PROVE FALSE
  OBVIOUS
<1>1. PICK n \in Nat \ T : \A y \in Nat \ T : n <= y
  <2>1. Nat \ T \in SUBSET Nat /\ Nat \ T # {}
    OBVIOUS
  <2> QED
    BY <2>1, LeastNumber
<1>2. n # 0 /\ n - 1 \in Nat
  BY <1>1
<1>3. n - 1 \in T
  BY <1>1, <1>2
<1>4. (n - 1) + 1 \in T
  BY <1>2, <1>3
<1> QED
  BY <1>1, <1>4

(* The parser's automaton is a function: the state after a character comes   *)
(* from the character and the state before it.                             *)
LEMMA EscapedAtDef ==
  ASSUME NEW S, NEW s \in Seq(S)
  PROVE  EscapedAt(s) = [n \in 1 .. Len(s) + 1 |-> n > 1 /\ Escapes(s[n - 1], EscapedAt(s)[n - 1])]
<1> DEFINE Upto(h, k) == h = [n \in 1 .. k |-> n > 1 /\ Escapes(s[n - 1], h[n - 1])]
           T == {k \in Nat : \E h : Upto(h, k)}
<1>1. 0 \in T
  <2>1. Upto([n \in 1 .. 0 |-> FALSE], 0)
    OBVIOUS
  <2> QED
    BY <2>1, Zenon
<1>2. ASSUME NEW k \in Nat, k \in T
      PROVE  k + 1 \in T
  <2>1. PICK h : Upto(h, k)
    BY <1>2, Zenon
  <2> DEFINE e == [n \in 1 .. k + 1 |-> n > 1 /\ Escapes(s[n - 1], h[n - 1])]
  <2>2. \A n \in 1 .. k : e[n] = h[n]
    BY <2>1
  <2>3. \A n \in 1 .. k + 1 : n > 1 => h[n - 1] = e[n - 1]
    <3> SUFFICES ASSUME NEW n \in 1 .. k + 1, n > 1 PROVE h[n - 1] = e[n - 1]
      OBVIOUS
    <3>1. n - 1 \in 1 .. k
      OBVIOUS
    <3> QED
      BY <3>1, <2>2
  <2>4. Upto(e, k + 1)
    BY <2>3
  <2>5. \E d : Upto(d, k + 1)
    <3> HIDE DEF e, Upto
    <3> QED
      BY <2>4
  <2> QED
    BY <2>5
<1>3. \A k \in Nat : k \in T
  <2> HIDE DEF T
  <2> QED
    BY <1>1, <1>2, AllNumbers
<1>4. PICK h : Upto(h, Len(s) + 1)
  <2>1. Len(s) + 1 \in Nat
    OBVIOUS
  <2>2. Len(s) + 1 \in T
    BY <1>3, <2>1
  <2> QED
    BY <2>2
<1>5. h = [n \in 1 .. Len(s) + 1 |-> n > 1 /\ Escapes(s[n - 1], h[n - 1])]
  BY <1>4
<1> QED
  BY <1>5 DEF EscapedAt

(* So does strip_specials assemble the text, from what it has so far. *)
Taken(s, answer, n, before) ==
  CASE answer[n] = "NORMAL_CHAR"    -> Append(before, s[n])
    [] answer[n] = "NORMAL_NEWLINE" -> Append(before, Newline)
    [] OTHER                        -> before
Assembled(h, s, answer, k) ==
  h = [n \in 0 .. k |-> IF n = 0 THEN <<>> ELSE Taken(s, answer, n, h[n - 1])]

LEMMA AssembledExists ==
  ASSUME NEW s, NEW answer, NEW m \in Nat
  PROVE  \E h : Assembled(h, s, answer, m)
<1> DEFINE T == {k \in Nat : \E h : Assembled(h, s, answer, k)}
<1>1. 0 \in T
  <2>1. Assembled([n \in 0 .. 0 |-> <<>>], s, answer, 0)
    BY DEF Assembled
  <2> QED
    BY <2>1, Zenon
<1>2. ASSUME NEW k \in Nat, k \in T
      PROVE  k + 1 \in T
  <2>1. PICK h : Assembled(h, s, answer, k)
    BY <1>2, Zenon
  <2> DEFINE e == [n \in 0 .. k + 1 |-> IF n = 0 THEN <<>> ELSE Taken(s, answer, n, h[n - 1])]
  <2>2. \A n \in 0 .. k : e[n] = h[n]
    BY <2>1 DEF Assembled
  <2>3. \A n \in 0 .. k + 1 : n # 0 => h[n - 1] = e[n - 1]
    <3> HIDE DEF e
    <3>1. ASSUME NEW n \in 0 .. k + 1, n # 0
          PROVE  h[n - 1] = e[n - 1]
      <4>1. n - 1 \in 0 .. k
        BY <3>1
      <4> QED
        BY <2>2, <4>1
    <3> QED
      BY <3>1
  <2>4. Assembled(e, s, answer, k + 1)
    BY <2>3 DEF Assembled
  <2>5. \E d : Assembled(d, s, answer, k + 1)
    <3> HIDE DEF e
    <3> QED
      BY <2>4
  <2> QED
    BY <2>5
<1>3. \A k \in Nat : k \in T
  <2> HIDE DEF T
  <2> QED
    BY <1>1, <1>2, AllNumbers
<1>4. m \in T
  BY <1>3, Zenon
<1> QED
  BY <1>4

LEMMA StandsForDef ==
  ASSUME NEW S, NEW s \in Seq(S), NEW extended
  PROVE  \E h : /\ Assembled(h, s, Answers(s, extended), Len(s))
                /\ StandsFor(s, extended) = h[Len(s)]
<1> DEFINE a == Answers(s, extended)
<1>1. \E h : Assembled(h, s, a, Len(s))
  BY AssembledExists
<1> DEFINE out == CHOOSE h : Assembled(h, s, a, Len(s))
<1>2. Assembled(out, s, a, Len(s))
  BY <1>1
<1>3. StandsFor(s, extended) = out[Len(s)]
  BY DEF StandsFor, Assembled, Taken
<1> QED
  BY <1>2, <1>3

LEMMA AssembledStep ==
  ASSUME NEW s, NEW answer, NEW m \in Nat, NEW h, Assembled(h, s, answer, m), NEW n \in 1 .. m
  PROVE  h[n] = Taken(s, answer, n, h[n - 1])
BY DEF Assembled

LEMMA AssembledTypes ==
  ASSUME NEW S, NEW s \in Seq(S), NEW answer, NEW m \in Nat, m <= Len(s), NEW h,
         Assembled(h, s, answer, m)
  PROVE  \A n \in 0 .. m : h[n] \in Seq(S \cup {Newline})
<1> DEFINE T == {n \in Nat : n <= m => h[n] \in Seq(S \cup {Newline})}
<1>1. 0 \in T
  BY DEF Assembled
<1>2. ASSUME NEW n \in Nat, n \in T
      PROVE  n + 1 \in T
  <2> SUFFICES ASSUME n + 1 <= m PROVE h[n + 1] \in Seq(S \cup {Newline})
    OBVIOUS
  <2>1. h[n] \in Seq(S \cup {Newline})
    BY <1>2
  <2>2. h[n + 1] = Taken(s, answer, n + 1, h[n])
    BY DEF Assembled
  <2>3. s[n + 1] \in S
    OBVIOUS
  <2> QED
    BY <2>1, <2>2, <2>3 DEF Taken
<1>3. \A n \in Nat : n \in T
  <2> HIDE DEF T
  <2> QED
    BY <1>1, <1>2, AllNumbers
<1> QED
  BY <1>3

LEMMA StandsForTypes ==
  ASSUME NEW S, NEW s \in Seq(S), NEW extended
  PROVE  StandsFor(s, extended) \in Seq(S \cup {Newline})
<1>1. PICK h : /\ Assembled(h, s, Answers(s, extended), Len(s))
               /\ StandsFor(s, extended) = h[Len(s)]
  BY StandsForDef
<1>2. Len(s) \in Nat
  OBVIOUS
<1>3. h[Len(s)] \in Seq(S \cup {Newline})
  BY <1>1, <1>2, AssembledTypes
<1> QED
  BY <1>1, <1>3

(* A plain character at the end of the pattern is the end of the text. *)
LEMMA StandsForLast ==
  ASSUME NEW S, NEW s \in Seq(S), NEW extended, s # <<>>,
         Answers(s, extended)[Len(s)] = "NORMAL_CHAR"
  PROVE  LET t == StandsFor(s, extended) IN Len(t) >= 1 /\ t[Len(t)] = s[Len(s)]
<1>1. PICK h : /\ Assembled(h, s, Answers(s, extended), Len(s))
               /\ StandsFor(s, extended) = h[Len(s)]
  BY StandsForDef
<1>2. Len(s) \in Nat /\ Len(s) \in 1 .. Len(s) /\ Len(s) - 1 \in 0 .. Len(s)
  OBVIOUS
<1>3. h[Len(s)] = Taken(s, Answers(s, extended), Len(s), h[Len(s) - 1])
  BY ONLY <1>1, <1>2, AssembledStep
<1>4. h[Len(s)] = Append(h[Len(s) - 1], s[Len(s)])
  BY <1>3 DEF Taken
<1>5. h[Len(s) - 1] \in Seq(S \cup {Newline})
  <2>1. \A n \in 0 .. Len(s) : h[n] \in Seq(S \cup {Newline})
    <3>1. Len(s) <= Len(s)
      BY <1>2
    <3> DEFINE a == Answers(s, extended)
    <3>2. Assembled(h, s, a, Len(s))
      BY <1>1
    <3> HIDE DEF a
    <3> QED
      BY <1>2, <3>1, <3>2, AssembledTypes
  <2> QED
    BY <1>2, <2>1
<1> QED
  BY <1>1, <1>4, <1>5

LEMMA StrippedTypes ==
  ASSUME NEW s \in Seq(Char)
  PROVE  Stripped(s) \in Seq(Char)
<1>1. CASE StepsOverCaret(s)
  <2>1. Tail(s) \in Seq(Char) /\ "NUL" \in Char
    BY <1>1, InputsAssumption DEF StepsOverCaret
  <2> QED
    BY <1>1, <2>1 DEF Stripped
<1>2. CASE ~ StepsOverCaret(s)
  BY <1>2 DEF Stripped
<1> QED
  BY <1>1, <1>2

(* The '$' that would be an anchor is special, so that the pattern is refused. *)
LEMMA DollarIsRefused ==
  ASSUME NEW s \in Seq(Char), NEW extended, EndsWithDollar(s)
  PROVE  ~ IsPatternLiteral(Stripped(s), extended)
<1> DEFINE t == Stripped(s)
           n == Len(t)
<1>1. t \in Seq(Char)
  BY StrippedTypes
<1>2. n \in Nat /\ n >= 1 /\ t[n] = "$" /\ (n = 1 \/ t[n - 1] # Backslash)
  BY <1>1 DEF EndsWithDollar
<1>3. EscapedAt(t) = [k \in 1 .. Len(t) + 1 |-> k > 1 /\ Escapes(t[k - 1], EscapedAt(t)[k - 1])]
  BY <1>1, EscapedAtDef
<1> HIDE DEF t
<1>4. n \in 1 .. Len(t) + 1 /\ n \in DOMAIN t
  BY <1>1, <1>2
<1>5. ~ EscapedAt(t)[n]
  <2>1. EscapedAt(t)[n] = (n > 1 /\ Escapes(t[n - 1], EscapedAt(t)[n - 1]))
    BY <1>3, <1>4, Zenon
  <2>2. ~ (n > 1 /\ Escapes(t[n - 1], EscapedAt(t)[n - 1]))
    BY <1>2 DEF Escapes
  <2> QED
    BY <2>1, <2>2
<1>6. Answers(t, extended)[n] = Reads("$", EscapedAt(t)[n], extended)
  BY <1>2, <1>4 DEF Answers
<1>7. Reads("$", EscapedAt(t)[n], extended) = "SPEC_DOLLAR"
  <2>1. "$" \in DOMAIN AlwaysSpecial /\ "$" \notin DOMAIN SyntaxSpecial
    BY DEF AlwaysSpecial, SyntaxSpecial
  <2>2. AlwaysSpecial["$"] = "SPEC_DOLLAR"
    BY DEF AlwaysSpecial
  <2>3. "$" # Backslash /\ "$" # Newline
    BY DEF Backslash, Newline
  <2> QED
    BY <1>5, <2>1, <2>2, <2>3 DEF Reads
<1>8. Answers(t, extended)[n] \notin Plain
  BY <1>6, <1>7 DEF Plain
<1>9. ~ IsPatternLiteral(t, extended)
  BY <1>4, <1>8 DEF IsPatternLiteral
<1> QED
  BY <1>9 DEF t

(* Behind '^' the terminator is taken for a character of the pattern. *)
LEMMA CaretBringsTerminator ==
  ASSUME NEW s \in Seq(Char), NEW extended, StepsOverCaret(s),
         IsPatternLiteral(Stripped(s), extended)
  PROVE  LET t == StandsFor(Stripped(s), extended) IN Len(t) >= 1 /\ t[Len(t)] = "NUL"
<1> DEFINE t == Stripped(s)
           n == Len(t)
<1>1. t \in Seq(Char)
  BY StrippedTypes
<1>2. t # <<>> /\ n \in DOMAIN t /\ t[n] = "NUL"
  <2>1. Tail(s) \in Seq(Char) /\ "NUL" \in Char
    BY InputsAssumption DEF StepsOverCaret
  <2>2. t = Append(Tail(s), "NUL")
    BY DEF Stripped
  <2> QED
    BY <2>1, <2>2
<1>3. Answers(t, extended)[n] \in Plain
  BY <1>2 DEF IsPatternLiteral
<1> HIDE DEF t
<1>4. Answers(t, extended)[n] = Reads("NUL", EscapedAt(t)[n], extended)
  BY <1>2 DEF Answers
<1>5. Reads("NUL", EscapedAt(t)[n], extended) \in {"NORMAL_CHAR", "BAD_PATTERN"}
  BY DEF Reads, AlwaysSpecial, SyntaxSpecial, Backslash, Newline
<1>6. Answers(t, extended)[n] = "NORMAL_CHAR"
  BY <1>3, <1>4, <1>5 DEF Plain
<1>7. LET u == StandsFor(t, extended) IN Len(u) >= 1 /\ u[Len(u)] = t[n]
  BY <1>1, <1>2, <1>6, StandsForLast
<1>8. LET u == StandsFor(t, extended) IN Len(u) >= 1 /\ u[Len(u)] = "NUL"
  BY <1>2, <1>7
<1> QED
  BY <1>8 DEF t
-----------------------------------------------------------------------------
LEMMA PatternTypes ==
  ASSUME Types
  PROVE  /\ len \in Nat /\ Len(text) \in Nat
         /\ \A x \in 0 .. len - 1 : PattChar(x) \in Letters
         /\ \A q \in 0 .. Len(text) - 1 : TextChar(q) \in Char
<1>1. pattern \in Seq(Letters) /\ text \in Seq(Char)
  BY DEF Types
<1>2. len \in Nat /\ Len(text) \in Nat
  BY <1>1 DEF len
<1>3. \A x \in 0 .. len - 1 : x + 1 \in 1 .. Len(pattern)
  BY <1>2 DEF len
<1>4. \A q \in 0 .. Len(text) - 1 : q + 1 \in 1 .. Len(text)
  BY <1>2
<1>5. \A x \in 1 .. Len(pattern) : pattern[x] \in Letters
  BY <1>1
<1>6. \A x \in 1 .. Len(text) : text[x] \in Char
  BY <1>1
<1> QED
  BY <1>2, <1>3, <1>4, <1>5, <1>6 DEF PattChar, TextChar

LEMMA StopsAtSpec ==
  ASSUME Types, NEW from \in Int, from >= -1, NEW end
  PROVE  /\ StopsAt(from, end) \in -1 .. from
         /\ \A y \in StopsAt(from, end) + 1 .. from : PattChar(y) = PattChar(y + len - 1 - end)
         /\ StopsAt(from, end) >= 0 =>
              PattChar(StopsAt(from, end)) # PattChar(StopsAt(from, end) + len - 1 - end)
<1> DEFINE Same(y) == PattChar(y) = PattChar(y + len - 1 - end)
           Stop(x) == (\A y \in x + 1 .. from : Same(y)) /\ (x >= 0 => ~ Same(x))
           T == {k \in Nat : k <= from /\ ~ Same(from - k)}
<1> HIDE DEF Same
<1>1. ASSUME T = {}
      PROVE  \E x \in -1 .. from : Stop(x)
  <2>1. \A y \in 0 .. from : Same(y)
    <3> SUFFICES ASSUME NEW y \in 0 .. from, ~ Same(y) PROVE FALSE
      OBVIOUS
    <3>1. from - y \in Nat /\ from - y <= from /\ from - (from - y) = y
      OBVIOUS
    <3>2. from - y \in T
      BY <3>1
    <3> QED
      BY <1>1, <3>2
  <2>2. Stop(-1) /\ -1 \in -1 .. from
    BY <2>1
  <2> QED
    BY <2>2
<1>2. ASSUME T # {}
      PROVE  \E x \in -1 .. from : Stop(x)
  <2>1. PICK k \in T : \A n \in T : k <= n
    <3>1. T \in SUBSET Nat
      OBVIOUS
    <3> QED
      BY <1>2, <3>1, LeastNumber
  <2>2. from - k \in -1 .. from /\ ~ Same(from - k)
    BY <2>1
  <2>3. \A y \in from - k + 1 .. from : Same(y)
    <3> SUFFICES ASSUME NEW y \in from - k + 1 .. from, ~ Same(y) PROVE FALSE
      OBVIOUS
    <3>1. from - y \in Nat /\ from - y <= from /\ from - (from - y) = y /\ from - y < k
      BY <2>1
    <3>2. from - y \in T
      BY <3>1
    <3> QED
      BY <2>1, <3>1, <3>2
  <2>4. Stop(from - k)
    BY <2>2, <2>3
  <2> QED
    BY <2>2, <2>4
<1>3. \E x \in -1 .. from : Stop(x)
  BY <1>1, <1>2
<1> QED
  BY <1>3 DEF StopsAt, Same

(* A character's place in the pattern, and the lengths, are the pattern's. *)
LEMMA SamePattern ==
  ASSUME pattern' = pattern
  PROVE  /\ len' = len
         /\ \A x : PattChar(x)' = PattChar(x)
         /\ \A x, k : CommonSuffix(x, k)' <=> CommonSuffix(x, k)
         /\ \A s : Border(s)' <=> Border(s)
         /\ \A x, s : SuffixFits(x, s)' <=> SuffixFits(x, s)
BY DEF len, PattChar, CommonSuffix, Border, SuffixFits

LEMMA SuffixUnique ==
  ASSUME len \in Nat, NEW x \in Int, NEW k \in Int, NEW n \in Int,
         CommonSuffix(x, k), CommonSuffix(x, n)
  PROVE  k = n
<1>1. ASSUME NEW a \in Int, NEW b \in Int, CommonSuffix(x, a), CommonSuffix(x, b), a < b
      PROVE  FALSE
  <2>1. a \in 0 .. x + 1 /\ b \in 0 .. x + 1
    BY <1>1 DEF CommonSuffix
  <2>2. x - a \in x - b + 1 .. x /\ a <= x
    BY <1>1, <2>1
  <2>3. PattChar(x - a) = PattChar(x - a + len - 1 - x)
    BY <1>1, <2>2 DEF CommonSuffix
  <2>4. PattChar(x - a) # PattChar(len - 1 - a)
    BY <1>1, <2>2 DEF CommonSuffix
  <2>5. x - a + len - 1 - x = len - 1 - a
    BY <2>1
  <2> QED
    BY <2>3, <2>4, <2>5
<1> QED
  BY <1>1

(* A shift that leaves the mismatched place inside the pattern. *)
LEMMA FitsInside ==
  ASSUME len \in Nat, NEW x \in 0 .. len - 1, NEW s \in 1 .. len - 1, s <= x
  PROVE  SuffixFits(x, s) <=> CommonSuffix(len - 1 - s, len - 1 - x)
<1>1. ASSUME SuffixFits(x, s)
      PROVE  CommonSuffix(len - 1 - s, len - 1 - x)
  <2>1. len - 1 - x \in 0 .. (len - 1 - s) + 1
    OBVIOUS
  <2>2. ASSUME NEW y \in (len - 1 - s) - (len - 1 - x) + 1 .. len - 1 - s
        PROVE  PattChar(y) = PattChar(y + len - 1 - (len - 1 - s))
    <3>1. y + s \in x + 1 .. len - 1 /\ (y + s) - s = y /\ y >= 0
      OBVIOUS
    <3>2. PattChar((y + s) - s) = PattChar(y + s)
      BY <1>1, <3>1 DEF SuffixFits
    <3>3. y + len - 1 - (len - 1 - s) = y + s
      OBVIOUS
    <3> QED
      BY <3>1, <3>2, <3>3
  <2>3. PattChar((len - 1 - s) - (len - 1 - x)) # PattChar(len - 1 - (len - 1 - x))
    <3>1. (len - 1 - s) - (len - 1 - x) = x - s /\ len - 1 - (len - 1 - x) = x
      OBVIOUS
    <3>2. PattChar(x - s) # PattChar(x)
      BY <1>1 DEF SuffixFits
    <3> QED
      BY <3>1, <3>2
  <2> QED
    BY <2>1, <2>2, <2>3 DEF CommonSuffix
<1>2. ASSUME CommonSuffix(len - 1 - s, len - 1 - x)
      PROVE  SuffixFits(x, s)
  <2>1. ASSUME NEW y \in x + 1 .. len - 1
        PROVE  PattChar(y - s) = PattChar(y)
    <3>1. y - s \in (len - 1 - s) - (len - 1 - x) + 1 .. len - 1 - s
      OBVIOUS
    <3>2. PattChar(y - s) = PattChar((y - s) + len - 1 - (len - 1 - s))
      BY <1>2, <3>1 DEF CommonSuffix
    <3>3. (y - s) + len - 1 - (len - 1 - s) = y
      OBVIOUS
    <3> QED
      BY <3>2, <3>3
  <2>2. PattChar(x - s) # PattChar(x)
    <3>1. (len - 1 - s) - (len - 1 - x) = x - s /\ len - 1 - (len - 1 - x) = x
          /\ len - 1 - x <= len - 1 - s
      OBVIOUS
    <3>2. PattChar((len - 1 - s) - (len - 1 - x)) # PattChar(len - 1 - (len - 1 - x))
      BY <1>2, <3>1 DEF CommonSuffix
    <3> QED
      BY <3>1, <3>2
  <2> QED
    BY <2>1, <2>2 DEF SuffixFits
<1> QED
  BY <1>1, <1>2

(* A shift that leaves it outside. *)
LEMMA FitsOutside ==
  ASSUME len \in Nat, NEW x \in 0 .. len - 1, NEW s \in Int, s > x
  PROVE  SuffixFits(x, s) <=> Border(s)
BY DEF SuffixFits, Border

LEMMA BorderIsSuffix ==
  ASSUME len \in Nat, NEW s \in 0 .. len - 1
  PROVE  Border(s) <=> CommonSuffix(len - 1 - s, len - s)
<1>1. ASSUME Border(s)
      PROVE  CommonSuffix(len - 1 - s, len - s)
  <2>1. ASSUME NEW y \in (len - 1 - s) - (len - s) + 1 .. len - 1 - s
        PROVE  PattChar(y) = PattChar(y + len - 1 - (len - 1 - s))
    <3>1. y + s \in s .. len - 1 /\ (y + s) - s = y
      OBVIOUS
    <3>2. PattChar((y + s) - s) = PattChar(y + s)
      BY <1>1, <3>1 DEF Border
    <3>3. y + len - 1 - (len - 1 - s) = y + s
      OBVIOUS
    <3> QED
      BY <3>1, <3>2, <3>3
  <2> QED
    BY <2>1 DEF CommonSuffix
<1>2. ASSUME CommonSuffix(len - 1 - s, len - s)
      PROVE  Border(s)
  <2> SUFFICES ASSUME NEW y \in s .. len - 1 PROVE PattChar(y - s) = PattChar(y)
    BY DEF Border
  <2>1. y - s \in (len - 1 - s) - (len - s) + 1 .. len - 1 - s
    OBVIOUS
  <2>2. PattChar(y - s) = PattChar((y - s) + len - 1 - (len - 1 - s))
    BY <1>2, <2>1 DEF CommonSuffix
  <2>3. (y - s) + len - 1 - (len - 1 - s) = y
    OBVIOUS
  <2> QED
    BY <2>2, <2>3
<1> QED
  BY <1>1, <1>2

(* What is known of an earlier suffix holds for this one. *)
LEMMA KnownSuffixRight ==
  ASSUME len \in Nat, i \in 0 .. len - 2, f \in Int, g \in -1 .. len - 1, i > g, Known,
         NEW k \in Int, CommonSuffix(len - 1 + i - f, k), k < i - g
  PROVE  CommonSuffix(i, k)
<1> DEFINE e == len - 1 + i - f
<1>0. e \in i + 1 .. len - 2 /\ k \in 0 .. e + 1 /\ f \in i + 1 .. len - 2
  BY DEF Known, CommonSuffix
<1>1. ASSUME NEW y \in g + 1 .. i
      PROVE  PattChar(y) = PattChar(y - i + e)
  <2>1. PattChar(y) = PattChar(y + len - 1 - f) /\ y + len - 1 - f = y - i + e
    BY <1>0 DEF Known
  <2> QED
    BY <2>1
<1>2. ASSUME NEW y \in i - k + 1 .. i
      PROVE  PattChar(y) = PattChar(y + len - 1 - i)
  <2>1. y \in g + 1 .. i /\ y - i + e \in e - k + 1 .. e
    BY <1>0
  <2>2. PattChar(y - i + e) = PattChar((y - i + e) + len - 1 - e)
    BY <2>1 DEF CommonSuffix
  <2>3. (y - i + e) + len - 1 - e = y + len - 1 - i
    BY <1>0
  <2> QED
    BY <1>1, <2>1, <2>2, <2>3
<1>3. PattChar(i - k) # PattChar(len - 1 - k)
  <2>1. i - k \in g + 1 .. i /\ (i - k) - i + e = e - k /\ k <= e
    BY <1>0
  <2>2. PattChar(e - k) # PattChar(len - 1 - k)
    BY <2>1 DEF CommonSuffix
  <2> QED
    BY <1>1, <2>1, <2>2
<1>4. k \in 0 .. i + 1
  BY <1>0
<1> HIDE DEF e
<1> QED
  BY <1>2, <1>3, <1>4 DEF CommonSuffix

(* Another suffix is compared on from where the pattern is known. *)
LEMMA NewSuffixRight ==
  ASSUME Types, i \in 0 .. len - 2, g \in -1 .. len - 1, i > g => Known,
         NEW k \in Int, i > g => CommonSuffix(len - 1 + i - f, k) /\ k >= i - g,
         NEW x, x = StopsAt(MinOf(i, g), i)
  PROVE  /\ x \in -1 .. i
         /\ \A y \in x + 1 .. i : PattChar(y) = PattChar(y + len - 1 - i)
         /\ CommonSuffix(i, i - x)
<1>0. len \in Nat /\ i \in Int /\ f \in Int
  BY PatternTypes DEF Types
<1>1. MinOf(i, g) \in Int /\ MinOf(i, g) >= -1 /\ MinOf(i, g) <= i
      /\ \A y \in Int : y > MinOf(i, g) /\ y <= i => g < y /\ g < i
  BY DEF MinOf
<1>2. /\ x \in -1 .. MinOf(i, g)
      /\ \A y \in x + 1 .. MinOf(i, g) : PattChar(y) = PattChar(y + len - 1 - i)
      /\ x >= 0 => PattChar(x) # PattChar(x + len - 1 - i)
  BY <1>1, StopsAtSpec
<1>3. ASSUME NEW y \in x + 1 .. i
      PROVE  PattChar(y) = PattChar(y + len - 1 - i)
  <2>1. CASE y <= MinOf(i, g)
    BY <1>1, <1>2, <2>1
  <2>2. CASE y > MinOf(i, g)
    <3> DEFINE e == len - 1 + i - f
    <3>1. g < y /\ i > g /\ y \in Int /\ y <= i
      BY <1>1, <1>2, <2>2
    <3>2. Known /\ CommonSuffix(e, k) /\ k >= i - g
      BY <3>1
    <3>3. f \in i + 1 .. len - 2 /\ y \in g + 1 .. f
      BY <3>1, <3>2 DEF Known
    <3>4. PattChar(y) = PattChar(y + len - 1 - f)
      BY <3>2, <3>3 DEF Known
    <3>5. y + len - 1 - f \in e - k + 1 .. e
      BY <1>0, <3>1, <3>2, <3>3
    <3>6. PattChar(y + len - 1 - f) = PattChar((y + len - 1 - f) + len - 1 - e)
      BY <3>2, <3>5 DEF CommonSuffix
    <3>7. (y + len - 1 - f) + len - 1 - e = y + len - 1 - i
      BY <1>0, <3>1, <3>3
    <3> QED
      BY <3>4, <3>6, <3>7
  <2> QED
    BY <1>1, <2>1, <2>2
<1>4. x \in -1 .. i
  BY <1>1, <1>2
<1>5. CommonSuffix(i, i - x)
  <2>1. i - x \in 0 .. i + 1 /\ i - (i - x) + 1 = x + 1 /\ i - (i - x) = x
        /\ len - 1 - (i - x) = x + len - 1 - i /\ (i - x <= i => x >= 0)
    BY <1>0, <1>4
  <2> QED
    BY <1>2, <1>3, <2>1 DEF CommonSuffix
<1> QED
  BY <1>3, <1>4, <1>5
-----------------------------------------------------------------------------
(* While a pattern is compiled the search has nothing to keep. *)
LEMMA NoSearchYet ==
  ASSUME pc' \notin {"window", "compare", "done"}, pc' # "failed" => ret' = "none",
         pc' = "failed" => ret' \in {"REG_BADPAT", "REG_ESPACE"}
  PROVE  MemoryInv' /\ WindowInv' /\ NothingSkipped' /\ AnswerInv'
BY DEF MemoryInv, WindowInv, NothingSkipped, AnswerInv, ReportedInCut, AbsentInCut, Searching

LEMMA FailedHolds ==
  ASSUME IInv, pc' = "failed", ret' \in {"REG_BADPAT", "REG_ESPACE"}, Types'
  PROVE  IInv'
<1>1. MemoryInv' /\ WindowInv' /\ NothingSkipped' /\ AnswerInv'
  BY NoSearchYet
<1>2. PatternInv' /\ BadInv' /\ SuffInv' /\ PrefixInv' /\ GoodInv'
  BY DEF PatternInv, BadInv, SuffInv, PrefixInv, GoodInv, Usable
<1> QED
  BY <1>1, <1>2 DEF IInv

LEMMA OutOfMemoryHolds ==
  ASSUME IInv, OutOfMemory
  PROVE  IInv'
<1>1. Types'
  BY DEF IInv, Types, OutOfMemory, Return, comp
<1>2. pc' = "failed" /\ ret' = "REG_ESPACE"
  BY DEF OutOfMemory, Return
<1> QED
  BY <1>1, <1>2, FailedHolds

LEMMA LiteralHolds ==
  ASSUME IInv, pc = "start", NEW p \in Seq(Letters), CompileLiteralOf(p),
         UNCHANGED <<input, good_shifts, suff, i, j, f, g, text, srch_pos, shift, prev_suf, result>>,
         has_bol' \in BOOLEAN, has_eol' = FALSE,
         has_bol' => Len(p) >= 1 /\ p[Len(p)] = "NUL"
  PROVE  IInv'
<1>1. Types'
  BY DEF IInv, Types, CompileLiteralOf
<1>2. pc' = (IF p = <<>> THEN "ready" ELSE "badc") /\ ret' = "none" /\ pattern' = p /\ i' = 0
      /\ has_glob' = (p = <<>>) /\ bad_shifts' = [c \in Char |-> Len(p)]
  BY DEF IInv, AnswerInv, PatternInv, CompileLiteralOf
<1>3. MemoryInv' /\ WindowInv' /\ NothingSkipped' /\ AnswerInv'
  BY <1>2, NoSearchYet
<1>4. PatternInv'
  <2>1. has_glob' <=> pattern' = <<>>
    BY <1>2
  <2>2. has_bol' => (len >= 1 /\ PattChar(len - 1) = "NUL")'
    <3>1. SUFFICES ASSUME has_bol' PROVE Len(p) >= 1 /\ p[Len(p) - 1 + 1] = "NUL"
      BY <1>2 DEF len, PattChar
    <3>2. Len(p) \in Int /\ Len(p) - 1 + 1 = Len(p)
      OBVIOUS
    <3> QED
      BY <3>1, <3>2
  <2>3. pc' # "start" /\ ~ has_eol' /\ pc' \in {"ready", "badc"} /\ (pc' = "badc" => ~ has_glob')
    BY <1>2
  <2> QED
    BY <2>1, <2>2, <2>3 DEF PatternInv
<1>5. Len(p) \in Nat /\ (p # <<>> => Len(p) >= 1)
  OBVIOUS
<1>6. BadInv'
  <2>1. CASE p = <<>>
    BY <1>2, <2>1 DEF BadInv, Usable
  <2>2. CASE p # <<>>
    <3>1. BadTo(i)'
      BY <1>2, <1>5 DEF BadTo, len
    <3>2. (i \in 0 .. len - 1)' /\ pc' = "badc"
      BY <1>2, <1>5, <2>2 DEF len
    <3> QED
      BY <3>1, <3>2 DEF BadInv, Usable
  <2> QED
    BY <2>1, <2>2
<1>7. SuffInv' /\ PrefixInv' /\ GoodInv'
  BY <1>2 DEF SuffInv, PrefixInv, GoodInv, Usable
<1> QED
  BY <1>1, <1>3, <1>4, <1>6, <1>7 DEF IInv

LEMMA CompileLiteralHolds ==
  ASSUME IInv, CompileLiteral
  PROVE  IInv'
<1>1. input.pattern \in Seq(Letters)
  BY InputsAssumption DEF IInv, Types, Letters
<1>2. pc = "start" /\ CompileLiteralOf(input.pattern)
  BY DEF CompileLiteral
<1>3. UNCHANGED <<input, good_shifts, suff, i, j, f, g, text, srch_pos, shift, prev_suf, result>>
  BY DEF CompileLiteral
<1>4. has_bol' = FALSE /\ has_eol' = FALSE
  BY <1>2 DEF CompileLiteral, IInv, PatternInv, Types
<1> QED
  BY <1>1, <1>2, <1>3, <1>4, LiteralHolds

LEMMA CompileFullHolds ==
  ASSUME IInv, CompileFull
  PROVE  IInv'
<1> DEFINE s == input.pattern
           p == StandsFor(Stripped(s), input.extended)
<1>1. s \in Seq(Char)
  BY InputsAssumption DEF IInv, Types
<1>2. UNCHANGED <<input, good_shifts, suff, i, j, f, g, text, srch_pos, shift, prev_suf, result>>
  BY DEF CompileFull
<1>3. pc = "start" /\ has_bol' = StepsOverCaret(s) /\ has_eol' = EndsWithDollar(s)
  BY DEF CompileFull
<1>4. has_bol' \in BOOLEAN /\ has_eol' \in BOOLEAN
  BY <1>3 DEF StepsOverCaret, EndsWithDollar
<1>5. CASE IsPatternLiteral(Stripped(s), input.extended)
  <2>1. CompileLiteralOf(p)
    BY <1>5 DEF CompileFull
  <2>2. p \in Seq(Letters)
    BY <1>1, StrippedTypes, StandsForTypes DEF Letters
  <2>3. has_eol' = FALSE
    BY <1>1, <1>3, <1>4, <1>5, DollarIsRefused
  <2>4. has_bol' => Len(p) >= 1 /\ p[Len(p)] = "NUL"
    BY <1>1, <1>3, <1>5, CaretBringsTerminator
  <2> HIDE DEF p, s
  <2> QED
    BY <1>2, <1>3, <1>4, <2>1, <2>2, <2>3, <2>4, LiteralHolds
<1>6. CASE ~ IsPatternLiteral(Stripped(s), input.extended)
  <2>1. pc' = "failed" /\ ret' = "REG_BADPAT" /\ UNCHANGED <<pattern, has_glob, bad_shifts>>
    BY <1>6 DEF CompileFull, Return
  <2>2. Types'
    BY <1>2, <1>4, <2>1 DEF IInv, Types
  <2> QED
    BY <2>1, <2>2, FailedHolds
<1> QED
  BY <1>5, <1>6

LEMMA SameBad ==
  ASSUME pattern' = pattern, bad_shifts' = bad_shifts
  PROVE  \A n : BadTo(n)' <=> BadTo(n)
BY DEF BadTo, LastBefore, PattChar, len

LEMMA FillBadCharHolds ==
  ASSUME IInv, FillBadChar
  PROVE  IInv'
<1>1. Types /\ Types' /\ len \in Nat
  <2>1. Types /\ Types'
    BY DEF IInv, Types, FillBadChar
  <2> QED
    BY <2>1, PatternTypes
<1>2. pc = "badc" /\ pc' = "badc" /\ i \in 0 .. len - 2 /\ BadTo(i) /\ pattern' = pattern
      /\ i' = i + 1 /\ ret' = "none"
  BY <1>1 DEF IInv, BadInv, AnswerInv, FillBadChar
<1>3. len' = len /\ \A x : PattChar(x)' = PattChar(x)
  BY <1>2, SamePattern
<1>4. MemoryInv' /\ WindowInv' /\ NothingSkipped' /\ AnswerInv'
  BY <1>2, NoSearchYet
<1>5. PatternInv'
  BY <1>2, <1>3 DEF IInv, PatternInv, FillBadChar
<1>6. BadTo(i)'
  <2> DEFINE b == [bad_shifts EXCEPT ![PattChar(i)] = len - 1 - i]
  <2>1. bad_shifts' = b /\ bad_shifts \in [Char -> Int]
    BY <1>2 DEF FillBadChar, BadTo
  <2>2. b \in [Char -> Int]
    <3>1. bad_shifts \in [Char -> Int] /\ len - 1 - i \in Int
      BY <1>1, <1>2, <2>1
    <3> QED
      BY ONLY <3>1
  <2>3. ASSUME NEW c \in Char
        PROVE  \/ b[c] = len /\ \A x \in 0 .. i : PattChar(x) # c
               \/ \E x \in 0 .. i : LastBefore(i + 1, c, x) /\ b[c] = len - 1 - x
    <3>1. CASE c = PattChar(i)
      <4>1. b[c] = len - 1 - i
        BY <2>1, <3>1
      <4>2. i \in 0 .. i /\ LastBefore(i + 1, c, i)
        BY <1>2, <3>1 DEF LastBefore
      <4> QED
        BY <4>1, <4>2
    <3>2. CASE c # PattChar(i)
      <4>1. b[c] = bad_shifts[c]
        BY <2>1, <3>2
      <4>2. CASE bad_shifts[c] = len /\ \A x \in 0 .. i - 1 : PattChar(x) # c
        BY <1>2, <3>2, <4>1, <4>2
      <4>3. CASE \E x \in 0 .. i - 1 : LastBefore(i, c, x) /\ bad_shifts[c] = len - 1 - x
        <5>1. PICK x \in 0 .. i - 1 : LastBefore(i, c, x) /\ bad_shifts[c] = len - 1 - x
          BY <4>3
        <5>2. LastBefore(i + 1, c, x)
          BY <1>2, <3>2, <5>1 DEF LastBefore
        <5> QED
          BY <1>2, <4>1, <5>1, <5>2
      <4> QED
        BY <1>2, <4>2, <4>3 DEF BadTo
    <3> QED
      BY <3>1, <3>2
  <2>4. i' - 1 = i /\ i' = i + 1
    BY <1>2
  <2>5. \A n, c, x : LastBefore(n, c, x)' <=> LastBefore(n, c, x)
    BY <1>3 DEF LastBefore
  <2> HIDE DEF b
  <2> QED
    BY <1>3, <2>1, <2>2, <2>3, <2>4, <2>5 DEF BadTo
<1>7. BadInv'
  <2>1. i' \in 0 .. len' - 1
    BY <1>1, <1>2, <1>3
  <2> QED
    BY <1>2, <1>6, <2>1 DEF BadInv, Usable
<1>8. SuffInv' /\ PrefixInv' /\ GoodInv'
  BY <1>2 DEF SuffInv, PrefixInv, GoodInv, Usable
<1> QED
  BY <1>1, <1>4, <1>5, <1>7, <1>8 DEF IInv

(* What the later loops of the compiler leave alone. *)
LEMMA CompilingFrame ==
  ASSUME IInv, pc \in {"badc", "suffixes", "prefixes", "inner"},
         pc' \in {"suffixes", "prefixes", "inner"},
         UNCHANGED <<pattern, has_bol, has_eol, has_glob, bad_shifts, ret>>,
         pc = "badc" => i = len - 1
  PROVE  MemoryInv' /\ WindowInv' /\ NothingSkipped' /\ AnswerInv' /\ PatternInv' /\ BadInv'
<1>1. ret' = "none"
  BY DEF IInv, AnswerInv
<1>2. MemoryInv' /\ WindowInv' /\ NothingSkipped' /\ AnswerInv'
  BY <1>1, NoSearchYet
<1>3. len' = len /\ \A x : PattChar(x)' = PattChar(x)
  BY SamePattern
<1>4. PatternInv'
  BY <1>3 DEF IInv, PatternInv
<1>5. BadTo(len - 1)
  BY DEF IInv, BadInv
<1>6. BadTo(len - 1)'
  BY <1>5 DEF BadTo, LastBefore, len, PattChar
<1>7. BadInv'
  BY <1>6 DEF BadInv, Usable
<1> QED
  BY <1>2, <1>4, <1>7

LEMMA StartSuffixesHolds ==
  ASSUME IInv, StartSuffixes
  PROVE  IInv'
<1>1. Types /\ Types' /\ len \in Nat
  <2>1. Types
    BY DEF IInv
  <2>2. len \in Nat
    BY <2>1, PatternTypes
  <2>3. Types'
    BY <2>1, <2>2 DEF Types, StartSuffixes, comp
  <2> QED
    BY <2>1, <2>2, <2>3
<1>2. pc = "badc" /\ i = len - 1 /\ pc' = "suffixes" /\ i' = len - 2 /\ g' = len - 1 /\ len >= 1
      /\ suff' = [x \in {len - 1} |-> len] /\ pattern' = pattern
  BY <1>1 DEF StartSuffixes, IInv, BadInv, comp
<1>3. MemoryInv' /\ WindowInv' /\ NothingSkipped' /\ AnswerInv' /\ PatternInv' /\ BadInv'
  BY <1>2, CompilingFrame DEF StartSuffixes, comp
<1>4. len' = len /\ \A x, k : CommonSuffix(x, k)' <=> CommonSuffix(x, k)
  BY <1>2, SamePattern
<1>5. CommonSuffix(len - 1, len)
  BY <1>1, <1>2 DEF CommonSuffix
<1>6. SuffFrom(i + 1)'
  <2>1. i' + 1 = len - 1 /\ (len - 1) .. (len - 1) = {len - 1}
    BY <1>1, <1>2
  <2>2. suff'[len - 1] = len
    BY <1>2
  <2> QED
    BY <1>2, <1>4, <1>5, <2>1, <2>2 DEF SuffFrom
<1>7. SuffInv'
  BY <1>1, <1>2, <1>4, <1>6 DEF SuffInv
<1>8. PrefixInv' /\ GoodInv'
  BY <1>2 DEF PrefixInv, GoodInv, Usable
<1> QED
  BY <1>1, <1>3, <1>7, <1>8 DEF IInv

LEMMA NextSuffixHolds ==
  ASSUME IInv, NextSuffix
  PROVE  IInv'
<1>1. Types /\ len \in Nat
  <2>1. Types
    BY DEF IInv
  <2> QED
    BY <2>1, PatternTypes
<1>2. pc = "suffixes" /\ pc' = "suffixes" /\ i \in 0 .. len - 2 /\ g \in -1 .. len - 1
      /\ SuffFrom(i + 1) /\ (i > g => Known) /\ pattern' = pattern /\ i' = i - 1 /\ f \in Int
  BY <1>1 DEF NextSuffix, IInv, SuffInv, comp, Types
<1>3. MemoryInv' /\ WindowInv' /\ NothingSkipped' /\ AnswerInv' /\ PatternInv' /\ BadInv'
  BY <1>2, CompilingFrame DEF NextSuffix, comp
<1>4. len' = len /\ (\A x : PattChar(x)' = PattChar(x))
      /\ \A x, k : CommonSuffix(x, k)' <=> CommonSuffix(x, k)
  BY <1>2, SamePattern
<1> DEFINE e == len - 1 + i - f
<1>5. i > g => /\ e \in i + 1 .. len - 2 /\ e \in Int
               /\ suff[e] \in Int /\ CommonSuffix(e, suff[e])
  <2> SUFFICES ASSUME i > g
               PROVE  /\ e \in i + 1 .. len - 2 /\ e \in Int
                      /\ suff[e] \in Int /\ CommonSuffix(e, suff[e])
    OBVIOUS
  <2>1. e \in i + 1 .. len - 2 /\ e \in Int
    BY <1>1, <1>2 DEF Known
  <2>2. CommonSuffix(e, suff[e])
    BY <1>1, <1>2, <2>1 DEF SuffFrom
  <2>3. suff[e] \in Int
    BY <2>1, <2>2 DEF CommonSuffix
  <2> QED
    BY <2>1, <2>2, <2>3
<1>6. \E v \in Int : /\ suff' = Assoc(suff, i, v) /\ CommonSuffix(i, v)
                     /\ f' \in Int /\ g' \in -1 .. len - 1
                     /\ i - 1 > g' =>
                          /\ f' \in i .. len - 2
                          /\ \A y \in g' + 1 .. f' : PattChar(y) = PattChar(y + len - 1 - f')
  <2>1. CASE KnownSuffix
    <3>1. i > g /\ suff[e] < i - g
      BY <2>1 DEF KnownSuffix
    <3>2. suff' = Assoc(suff, i, suff[e]) /\ f' = f /\ g' = g
      BY <2>1 DEF NextSuffix
    <3>3. CommonSuffix(i, suff[e])
      BY <1>1, <1>2, <1>5, <3>1, KnownSuffixRight
    <3>4. f \in i .. len - 2 /\ \A y \in g + 1 .. f : PattChar(y) = PattChar(y + len - 1 - f)
      BY <1>1, <1>2, <3>1 DEF Known
    <3> QED
      BY <1>2, <1>5, <3>1, <3>2, <3>3, <3>4
  <2>2. CASE ~ KnownSuffix
    <3>1. f' = i /\ g' = StopsAt(MinOf(i, g), i) /\ suff' = Assoc(suff, i, i - g')
      BY <2>2 DEF NextSuffix
    <3> DEFINE x == StopsAt(MinOf(i, g), i)
               k == IF i > g THEN suff[e] ELSE 0
    <3>2. k \in Int /\ (i > g => CommonSuffix(e, k) /\ k >= i - g)
      BY <1>2, <1>5, <2>2 DEF KnownSuffix
    <3> HIDE DEF k
    <3>3. /\ x \in -1 .. i
          /\ \A y \in x + 1 .. i : PattChar(y) = PattChar(y + len - 1 - i)
          /\ CommonSuffix(i, i - x)
      BY <1>1, <1>2, <3>2, NewSuffixRight
    <3> HIDE DEF x
    <3>4. g' = x /\ x \in Int /\ i - x \in Int
      BY <1>2, <3>1, <3>3 DEF x
    <3> QED
      BY <1>1, <1>2, <3>1, <3>3, <3>4
  <2> QED
    BY <2>1, <2>2
<1>7. PICK v \in Int : /\ suff' = Assoc(suff, i, v) /\ CommonSuffix(i, v)
                       /\ f' \in Int /\ g' \in -1 .. len - 1
                       /\ i - 1 > g' =>
                            /\ f' \in i .. len - 2
                            /\ \A y \in g' + 1 .. f' : PattChar(y) = PattChar(y + len - 1 - f')
  BY <1>6
<1>8. Types'
  BY <1>1, <1>2, <1>7 DEF Types, NextSuffix, comp
<1>9. SuffFrom(i + 1)'
  <2>1. i' + 1 = i /\ i .. len - 1 = (i + 1 .. len - 1) \cup {i}
    BY <1>1, <1>2
  <2>2. DOMAIN suff' = i .. len - 1 /\ suff'[i] = v
        /\ \A x \in i + 1 .. len - 1 : suff'[x] = suff[x]
    BY <1>1, <1>2, <1>7, <2>1 DEF SuffFrom, Assoc
  <2>3. \A x \in i .. len - 1 : CommonSuffix(x, suff'[x])
    BY <1>1, <1>2, <1>7, <2>1, <2>2 DEF SuffFrom
  <2> QED
    BY <1>4, <2>1, <2>2, <2>3 DEF SuffFrom
<1>10. SuffInv'
  <2>1. i' > g' => Known'
    <3>1. \A y : PattChar(y + len - 1 - f)' = PattChar(y + len - 1 - f')
      BY <1>2 DEF PattChar, len
    <3>2. i' + 1 = i
      BY <1>2
    <3> QED
      BY <1>2, <1>4, <1>7, <3>1, <3>2 DEF Known
  <2> QED
    BY <1>1, <1>2, <1>4, <1>7, <1>9, <2>1 DEF SuffInv
<1>11. PrefixInv' /\ GoodInv'
  BY <1>2 DEF PrefixInv, GoodInv, Usable
<1> QED
  BY <1>3, <1>8, <1>10, <1>11 DEF IInv

LEMMA StartGoodShiftsHolds ==
  ASSUME IInv, StartGoodShifts
  PROVE  IInv'
<1>1. Types /\ len \in Nat
  <2>1. Types
    BY DEF IInv
  <2> QED
    BY <2>1, PatternTypes
<1>2. pc = "suffixes" /\ pc' = "prefixes" /\ i = -1 /\ SuffFrom(0) /\ len >= 1
      /\ pattern' = pattern /\ i' = len - 1 /\ j' = 0 /\ suff' = suff
      /\ good_shifts' = [x \in 0 .. len - 1 |-> len]
  BY <1>1 DEF StartGoodShifts, IInv, SuffInv
<1>3. MemoryInv' /\ WindowInv' /\ NothingSkipped' /\ AnswerInv' /\ PatternInv' /\ BadInv'
  BY <1>2, CompilingFrame DEF StartGoodShifts
<1>4. len' = len /\ \A x, k : CommonSuffix(x, k)' <=> CommonSuffix(x, k)
  BY <1>2, SamePattern
<1>5. Types'
  BY <1>1, <1>2 DEF Types, StartGoodShifts
<1>6. SuffInv'
  BY <1>2, <1>4 DEF SuffInv, SuffFrom
<1>7. PrefixInv'
  BY <1>1, <1>2, <1>4 DEF PrefixInv, Shifts, PrefixOpen
<1>8. GoodInv'
  BY <1>2 DEF GoodInv, Usable
<1> QED
  BY <1>3, <1>5, <1>6, <1>7, <1>8 DEF IInv

(* The loop over the suffixes finds the borders, and the least one first. *)
LEMMA PrefixIsBorder ==
  ASSUME len \in Nat, i \in 0 .. len - 1, SuffFrom(0)
  PROVE  suff[i] = i + 1 <=> Border(len - 1 - i)
<1>1. CommonSuffix(i, suff[i]) /\ suff[i] \in Int
  BY DEF SuffFrom, CommonSuffix
<1>2. len - 1 - (len - 1 - i) = i /\ len - (len - 1 - i) = i + 1 /\ len - 1 - i \in 0 .. len - 1
  OBVIOUS
<1>3. Border(len - 1 - i) <=> CommonSuffix(len - 1 - (len - 1 - i), len - (len - 1 - i))
  BY <1>2, BorderIsSuffix
<1>4. Border(len - 1 - i) <=> CommonSuffix(i, i + 1)
  BY <1>2, <1>3
<1>5. CommonSuffix(i, i + 1) => suff[i] = i + 1
  BY <1>1, SuffixUnique
<1> QED
  BY <1>1, <1>4, <1>5

LEMMA NextPrefixHolds ==
  ASSUME IInv, NextPrefix
  PROVE  IInv'
<1> DEFINE s == len - 1 - i
<1>1. Types /\ len \in Nat
  <2>1. Types
    BY DEF IInv
  <2> QED
    BY <2>1, PatternTypes
<1>2. /\ pc = "prefixes" /\ pc' = "prefixes" /\ i \in 0 .. len - 1 /\ i' = i - 1 /\ SuffFrom(0)
      /\ pattern' = pattern /\ suff' = suff /\ Shifts
      /\ j \in 0 .. len - 1 /\ (j > 0 => j <= s - 1)
      /\ \A x \in 0 .. len - 1 : IF x < j THEN PrefixFound(x) ELSE PrefixOpen(x)
  BY <1>1 DEF NextPrefix, IInv, SuffInv, PrefixInv
<1>3. MemoryInv' /\ WindowInv' /\ NothingSkipped' /\ AnswerInv' /\ PatternInv' /\ BadInv'
  BY <1>2, CompilingFrame DEF NextPrefix
<1>4. len' = len /\ (\A x, k : CommonSuffix(x, k)' <=> CommonSuffix(x, k))
      /\ \A n : Border(n)' <=> Border(n)
  BY <1>2, SamePattern
<1>5. suff[i] = i + 1 <=> Border(s)
  BY <1>1, <1>2, PrefixIsBorder
<1>6. s \in 0 .. len - 1 /\ len - 2 - i = s - 1 /\ len - 2 - i' = s /\ Border(0)
  BY <1>1, <1>2 DEF Border
<1>7. \E h \in [0 .. len - 1 -> 1 .. len] : \E k \in 0 .. len - 1 :
        /\ good_shifts' = h /\ j' = k /\ (k > 0 => k <= s)
        /\ \A x \in 0 .. len - 1 :
             IF x < k THEN /\ h[x] \in x + 1 .. len - 1 /\ Border(h[x])
                           /\ \A n \in x + 1 .. h[x] - 1 : ~ Border(n)
             ELSE h[x] = len /\ \A n \in x + 1 .. s : n < len => ~ Border(n)
  <2>0. good_shifts \in [0 .. len - 1 -> 1 .. len]
    BY <1>2 DEF Shifts
  <2> DEFINE h == [x \in DOMAIN good_shifts |->
                     IF x \in j .. len - 2 - i /\ good_shifts[x] = len
                     THEN len - 1 - i ELSE good_shifts[x]]
  <2>1. CASE Border(s) /\ s > 0
    <3>1. good_shifts' = h /\ j' = s
      BY <1>2, <1>5, <1>6, <2>1 DEF NextPrefix, MaxOf
    <3>2. h \in [0 .. len - 1 -> 1 .. len]
      BY <1>2, <1>6, <2>0, <2>1
    <3>3. ASSUME NEW x \in 0 .. len - 1, x < s
          PROVE  /\ h[x] \in x + 1 .. len - 1 /\ Border(h[x])
                 /\ \A n \in x + 1 .. h[x] - 1 : ~ Border(n)
      <4>1. CASE x < j
        <5>1. h[x] = good_shifts[x]
          BY <1>2, <2>0, <4>1
        <5> QED
          BY <1>2, <4>1, <5>1 DEF PrefixFound
      <4>2. CASE x >= j
        <5>1. PrefixOpen(x)
          BY <1>2, <4>2
        <5>2. h[x] = s
          BY <1>2, <1>6, <2>0, <3>3, <4>2, <5>1 DEF PrefixOpen
        <5>3. ASSUME NEW n \in x + 1 .. s - 1
              PROVE  ~ Border(n)
          <6>1. n < len /\ n \in x + 1 .. len - 2 - i
            BY <1>1, <1>2
          <6> QED
            BY <5>1, <6>1 DEF PrefixOpen
        <5>4. s \in x + 1 .. len - 1
          BY <1>6, <3>3
        <5> HIDE DEF h, s
        <5> QED
          BY <2>1, <5>2, <5>3, <5>4
      <4> QED
        BY <1>2, <4>1, <4>2
    <3>4. ASSUME NEW x \in 0 .. len - 1, x >= s
          PROVE  h[x] = len
      <4>1. PrefixOpen(x)
        BY <1>2, <1>6, <2>1, <3>4
      <4> QED
        BY <1>6, <2>0, <3>4, <4>1 DEF PrefixOpen
    <3> HIDE DEF h, s
    <3>5. ASSUME NEW x \in 0 .. len - 1
          PROVE  IF x < s THEN /\ h[x] \in x + 1 .. len - 1 /\ Border(h[x])
                               /\ \A n \in x + 1 .. h[x] - 1 : ~ Border(n)
                 ELSE h[x] = len /\ \A n \in x + 1 .. s : n < len => ~ Border(n)
      <4>1. CASE x < s
        BY <3>3, <4>1
      <4>2. CASE ~ (x < s)
        <5>1. h[x] = len /\ \A n \in x + 1 .. s : FALSE
          BY <1>6, <3>4, <4>2
        <5> QED
          BY <4>2, <5>1
      <4> QED
        BY <4>1, <4>2
    <3> QED
      BY <1>6, <3>1, <3>2, <3>5
  <2>2. CASE s = 0
    <3>1. good_shifts' = h /\ j' = MaxOf(j, 0)
      BY <1>5, <1>6, <2>2 DEF NextPrefix
    <3>2. h = good_shifts /\ j' = j /\ j = 0
      BY <1>2, <1>6, <2>0, <2>2, <3>1 DEF MaxOf
    <3>3. \A x \in 0 .. len - 1 : good_shifts[x] = len
      BY <1>2, <3>2 DEF PrefixOpen
    <3>4. \A x \in 0 .. len - 1 : ~ (x < 0) /\ \A n \in x + 1 .. s : FALSE
      BY <2>2
    <3> HIDE DEF h, s
    <3> QED
      BY <1>2, <1>6, <2>0, <3>1, <3>2, <3>3, <3>4
  <2>3. CASE ~ Border(s)
    <3>1. good_shifts' = good_shifts /\ j' = j
      BY <1>5, <2>3 DEF NextPrefix
    <3>2. ASSUME NEW x \in 0 .. len - 1
          PROVE  IF x < j THEN /\ good_shifts[x] \in x + 1 .. len - 1 /\ Border(good_shifts[x])
                               /\ \A n \in x + 1 .. good_shifts[x] - 1 : ~ Border(n)
                 ELSE good_shifts[x] = len /\ \A n \in x + 1 .. s : n < len => ~ Border(n)
      <4>1. CASE x < j
        BY <1>2, <4>1 DEF PrefixFound
      <4>2. CASE ~ (x < j)
        <5>1. PrefixOpen(x)
          BY <1>2, <4>2
        <5>2. \A n \in x + 1 .. s : n = s \/ n \in x + 1 .. len - 2 - i
          BY <1>6
        <5> QED
          BY <2>3, <4>2, <5>1, <5>2 DEF PrefixOpen
      <4> QED
        BY <4>1, <4>2
    <3>3. j > 0 => j <= s
      BY <1>2, <1>6
    <3> QED
      BY <1>2, <2>0, <3>1, <3>2, <3>3
  <2> QED
    BY <1>6, <2>1, <2>2, <2>3
<1>8. Types'
  BY <1>1, <1>2, <1>7 DEF Types, NextPrefix
<1>9. SuffInv'
  BY <1>2, <1>4 DEF SuffInv, SuffFrom
<1>10. PrefixInv'
  <2>1. i' \in -1 .. len' - 1
    BY <1>1, <1>2, <1>4
  <2>2. \A x : Border(good_shifts[x])' <=> Border(good_shifts'[x])
    BY <1>2 DEF Border, PattChar, len
  <2> HIDE DEF s
  <2> QED
    BY <1>4, <1>6, <1>7, <2>1, <2>2 DEF PrefixInv, Shifts, PrefixFound, PrefixOpen
<1>11. GoodInv'
  BY <1>2 DEF GoodInv, Usable
<1> QED
  BY <1>3, <1>8, <1>9, <1>10, <1>11 DEF IInv

LEMMA StartInnerHolds ==
  ASSUME IInv, StartInner
  PROVE  IInv'
<1>1. Types /\ len \in Nat
  <2>1. Types
    BY DEF IInv
  <2> QED
    BY <2>1, PatternTypes
<1>2. /\ pc = "prefixes" /\ pc' = "inner" /\ i = -1 /\ i' = 0 /\ SuffFrom(0) /\ Shifts /\ len >= 1
      /\ pattern' = pattern /\ suff' = suff /\ good_shifts' = good_shifts
      /\ \A x \in 0 .. len - 1 : IF x < j THEN PrefixFound(x) ELSE PrefixOpen(x)
  BY <1>1 DEF StartInner, IInv, SuffInv, PrefixInv, comp
<1>3. MemoryInv' /\ WindowInv' /\ NothingSkipped' /\ AnswerInv' /\ PatternInv' /\ BadInv'
  BY <1>2, CompilingFrame DEF StartInner, comp
<1>4. len' = len /\ (\A x, k : CommonSuffix(x, k)' <=> CommonSuffix(x, k))
  BY <1>2, SamePattern
<1>5. Types'
  BY <1>1, <1>2 DEF Types, StartInner, comp
<1>6. SuffInv'
  BY <1>2, <1>4 DEF SuffInv, SuffFrom
<1>7. FoundTo(len - 1)
  <2> SUFFICES ASSUME NEW x \in 0 .. len - 1
               PROVE  /\ SuffixFits(x, good_shifts[x])
                      /\ \A s \in 1 .. good_shifts[x] - 1 : SuffixFits(x, s) => s <= len - 1
                      /\ \A s \in x + 1 .. len - 1 : Border(s) => good_shifts[x] <= s
    BY DEF FoundTo
  <2>1. good_shifts[x] \in 1 .. len
    BY <1>2 DEF Shifts
  <2>2. \A s \in 1 .. good_shifts[x] - 1 : s <= len - 1
    BY <1>1, <2>1
  <2>3. CASE x < j
    <3>1. /\ good_shifts[x] \in x + 1 .. len - 1 /\ Border(good_shifts[x])
          /\ \A s \in x + 1 .. good_shifts[x] - 1 : ~ Border(s)
      BY <1>2, <2>3 DEF PrefixFound
    <3>2. SuffixFits(x, good_shifts[x])
      BY <1>1, <3>1, FitsOutside
    <3> QED
      BY <2>1, <2>2, <3>1, <3>2
  <2>4. CASE ~ (x < j)
    <3>1. good_shifts[x] = len /\ \A s \in x + 1 .. len - 1 : ~ Border(s)
      BY <1>1, <1>2, <2>4 DEF PrefixOpen
    <3>2. Border(len)
      BY <1>1 DEF Border
    <3>3. SuffixFits(x, len)
      BY <1>1, <3>2, FitsOutside
    <3> QED
      BY <2>2, <3>1, <3>3
  <2> QED
    BY <2>3, <2>4
<1>8. GoodInv'
  <2>1. FoundTo(len - 1 - 0)'
    BY <1>1, <1>2, <1>7 DEF FoundTo, SuffixFits, Border, PattChar, len
  <2>2. Shifts'
    BY <1>2, <1>4 DEF Shifts
  <2> QED
    BY <1>1, <1>2, <1>4, <2>1, <2>2 DEF GoodInv, Usable
<1>9. PrefixInv'
  BY <1>2 DEF PrefixInv
<1> QED
  BY <1>3, <1>5, <1>6, <1>8, <1>9 DEF IInv

LEMMA NextInnerHolds ==
  ASSUME IInv, NextInner
  PROVE  IInv'
<1> DEFINE s == len - 1 - i
           z == len - 1 - suff[i]
           h == [good_shifts EXCEPT ![z] = s]
<1>1. Types /\ len \in Nat
  <2>1. Types
    BY DEF IInv
  <2> QED
    BY <2>1, PatternTypes
<1>2. /\ pc = "inner" /\ pc' = "inner" /\ i \in 0 .. len - 2 /\ i' = i + 1 /\ SuffFrom(0) /\ Shifts
      /\ pattern' = pattern /\ suff' = suff /\ good_shifts' = h /\ FoundTo(s)
  BY <1>1 DEF NextInner, IInv, SuffInv, GoodInv
<1>3. MemoryInv' /\ WindowInv' /\ NothingSkipped' /\ AnswerInv' /\ PatternInv' /\ BadInv'
  BY <1>2, CompilingFrame DEF NextInner
<1>4. len' = len /\ (\A x, k : CommonSuffix(x, k)' <=> CommonSuffix(x, k))
  BY <1>2, SamePattern
<1>5. Types'
  BY <1>1, <1>2 DEF Types, NextInner
<1>6. SuffInv'
  BY <1>2, <1>4 DEF SuffInv, SuffFrom
<1>7. CommonSuffix(i, suff[i]) /\ suff[i] \in 0 .. i + 1 /\ i \in Int
  <2>1. CommonSuffix(i, suff[i])
    BY <1>1, <1>2 DEF SuffFrom
  <2> QED
    BY <1>2, <2>1 DEF CommonSuffix
<1>8. s \in 1 .. len - 1 /\ z \in 0 .. len - 1 /\ s <= z + 1
  BY <1>1, <1>2, <1>7
<1>9. good_shifts \in [0 .. len - 1 -> 1 .. len]
  BY <1>2 DEF Shifts
<1>10. h \in [0 .. len - 1 -> 1 .. len] /\ h[z] = s /\ \A x \in 0 .. len - 1 : x # z => h[x] = good_shifts[x]
  <2> HIDE DEF s, z
  <2> QED
    BY <1>1, <1>8, <1>9
<1>11. SuffixFits(z, s)
  <2>1. CASE s <= z
    <3>1. len - 1 - s = i /\ len - 1 - z = suff[i]
      BY <1>1, <1>7
    <3>2. CommonSuffix(len - 1 - s, len - 1 - z)
      BY <1>7, <3>1
    <3> HIDE DEF s, z
    <3> QED
      BY <1>1, <1>8, <2>1, <3>2, FitsInside
  <2>2. CASE s > z
    <3>1. len - 1 - s = i /\ len - s = suff[i]
      BY <1>1, <1>7, <1>8, <2>2
    <3>2. CommonSuffix(len - 1 - s, len - s)
      BY <1>7, <3>1
    <3>3. Border(s)
      <4> HIDE DEF s
      <4> QED
        BY <1>1, <1>8, <3>2, BorderIsSuffix
    <3>4. s \in Int
      BY <1>8
    <3> HIDE DEF s, z
    <3> QED
      BY <1>1, <1>8, <2>2, <3>3, <3>4, FitsOutside
  <2> QED
    BY <1>8, <2>1, <2>2
<1>12. ASSUME NEW x \in 0 .. len - 1
       PROVE  /\ SuffixFits(x, h[x])
              /\ \A t \in 1 .. h[x] - 1 : SuffixFits(x, t) => t <= s - 1
              /\ \A t \in x + 1 .. len - 1 : Border(t) => h[x] <= t
  <2>1. CASE x = z
    <3> HIDE DEF s, z, h
    <3> QED
      BY <1>8, <1>10, <1>11, <2>1
  <2>2. CASE x # z
    <3>1. h[x] = good_shifts[x] /\ h[x] \in 1 .. len
      BY <1>10, <2>2
    <3>2. /\ SuffixFits(x, h[x])
          /\ \A t \in 1 .. h[x] - 1 : SuffixFits(x, t) => t <= s
          /\ \A t \in x + 1 .. len - 1 : Border(t) => h[x] <= t
      BY <1>2, <3>1 DEF FoundTo
    <3>3. ASSUME s \in 1 .. h[x] - 1, SuffixFits(x, s)
          PROVE  FALSE
      <4>1. CASE s <= x
        <5>1. CommonSuffix(len - 1 - s, len - 1 - x)
          <6> HIDE DEF s
          <6> QED
            BY <1>1, <1>8, <3>3, <4>1, FitsInside
        <5>2. len - 1 - s = i /\ len - 1 - x \in Int
          BY <1>1, <1>7
        <5>3. len - 1 - x = suff[i]
          BY <1>1, <1>7, <5>1, <5>2, SuffixUnique
        <5> QED
          BY <1>1, <2>2, <5>3, <1>7
      <4>2. CASE s > x
        <5> HIDE DEF s, h
        <5>1. s \in Int /\ s \in x + 1 .. len - 1
          BY <1>8, <4>2
        <5>2. Border(s)
          BY <1>1, <3>3, <4>2, <5>1, FitsOutside
        <5> QED
          BY <3>1, <3>2, <3>3, <5>1, <5>2
      <4> QED
        BY <1>8, <4>1, <4>2
    <3> HIDE DEF s, h
    <3> QED
      BY <1>8, <3>1, <3>2, <3>3
  <2> QED
    BY <2>1, <2>2
<1>13. GoodInv'
  <2>1. FoundTo(len - 1 - i)'
    <3>1. len' - 1 - i' = s - 1
      BY <1>1, <1>2, <1>4
    <3>2. \A x, t : SuffixFits(x, t)' <=> SuffixFits(x, t)
      BY <1>2, SamePattern
    <3>3. \A x : SuffixFits(x, good_shifts[x])' <=> SuffixFits(x, good_shifts'[x])
      BY <1>2 DEF SuffixFits, PattChar, len
    <3>4. \A t : Border(t)' <=> Border(t)
      BY <1>2, SamePattern
    <3> HIDE DEF s, h
    <3> QED
      BY <1>2, <1>4, <1>12, <3>1, <3>2, <3>3, <3>4 DEF FoundTo
  <2>2. Shifts'
    BY <1>2, <1>4, <1>10 DEF Shifts
  <2> QED
    BY <1>1, <1>2, <1>4, <2>1, <2>2 DEF GoodInv, Usable
<1>14. PrefixInv'
  BY <1>2 DEF PrefixInv
<1> QED
  BY <1>3, <1>5, <1>6, <1>13, <1>14 DEF IInv

(* What the search may rely on, and does not touch. *)
LEMMA TablesFrame ==
  ASSUME IInv, pc \in {"inner", "ready", "window", "compare"},
         pc = "inner" => i = len - 1,
         pc' \in {"ready", "window", "compare", "done"}, UNCHANGED comp
  PROVE  BadInv' /\ SuffInv' /\ PrefixInv' /\ GoodInv'
<1>1. UNCHANGED <<pattern, has_bol, has_eol, has_glob, bad_shifts, good_shifts>>
  BY DEF comp
<1>2. len' = len /\ (\A x : PattChar(x)' = PattChar(x)) /\ (\A n : BadTo(n)' <=> BadTo(n))
  BY <1>1, SamePattern, SameBad
<1>3. len \in Nat
  BY PatternTypes DEF IInv
<1>4. \A n : FoundTo(n)' <=> FoundTo(n)
  BY <1>1 DEF FoundTo, SuffixFits, Border, PattChar, len
<1>5. Shifts' <=> Shifts
  BY <1>1 DEF Shifts, len
<1>6. ~ has_glob => Shifts /\ FoundTo(0) /\ BadTo(len - 1)
  BY <1>3 DEF IInv, GoodInv, BadInv, Usable
<1>7. BadInv'
  <2>1. ~ has_glob => BadTo(len - 1)'
    BY <1>1, <1>6 DEF BadTo, LastBefore, PattChar, len
  <2> QED
    BY <1>1, <2>1 DEF BadInv
<1>8. GoodInv'
  BY <1>1, <1>4, <1>5, <1>6 DEF GoodInv
<1>9. SuffInv' /\ PrefixInv'
  BY DEF SuffInv, PrefixInv
<1> QED
  BY <1>7, <1>8, <1>9

LEMMA CompiledHolds ==
  ASSUME IInv, Compiled
  PROVE  IInv'
<1>1. Types /\ len \in Nat
  <2>1. Types
    BY DEF IInv
  <2> QED
    BY <2>1, PatternTypes
<1>2. pc = "inner" /\ i = len - 1 /\ pc' = "ready" /\ UNCHANGED comp /\ ret' = "none"
  BY <1>1 DEF Compiled, IInv, GoodInv, AnswerInv
<1>3. BadInv' /\ SuffInv' /\ PrefixInv' /\ GoodInv'
  BY <1>2, TablesFrame
<1>4. Types'
  BY <1>1, <1>2 DEF Types, Compiled, comp
<1>5. PatternInv'
  BY <1>2 DEF IInv, PatternInv, PattChar, len, comp
<1>6. MemoryInv' /\ WindowInv' /\ NothingSkipped' /\ AnswerInv'
  BY <1>2, NoSearchYet
<1> QED
  BY <1>3, <1>4, <1>5, <1>6 DEF IInv
-----------------------------------------------------------------------------
(* The search changes nothing of the compiled pattern. *)
LEMMA SearchFrame ==
  ASSUME UNCHANGED comp
  PROVE  /\ len' = len
         /\ (has_bol' <=> has_bol) /\ (has_eol' <=> has_eol) /\ (has_glob' <=> has_glob)
         /\ \A x : PattChar(x)' = PattChar(x)
         /\ ShiftsAreSafe' <=> ShiftsAreSafe
         /\ \A s : RemembersBeginning(s)' <=> RemembersBeginning(s)
<1>1. UNCHANGED <<pattern, has_bol, has_eol, has_glob, bad_shifts, good_shifts>>
  BY DEF comp
<1>2. len' = len /\ \A x : PattChar(x)' = PattChar(x)
  BY <1>1, SamePattern
<1>3. \A s : RemembersBeginning(s)' <=> RemembersBeginning(s)
  BY <1>1 DEF RemembersBeginning
<1>4. OneTerminator' <=> OneTerminator
  BY <1>1 DEF OneTerminator, len, PattChar
<1>5. \A s, x, d : PassedByRule(s, x, d)' <=> PassedByRule(s, x, d)
  BY <1>1 DEF PassedByRule, BadShift, SuffixFits, len, PattChar
<1>6. Misled' <=> Misled
  BY <1>2, <1>3, <1>5 DEF Misled
<1> QED
  BY <1>1, <1>2, <1>3, <1>4, <1>6 DEF ShiftsAreSafe

LEMMA SameText ==
  ASSUME UNCHANGED comp, text' = text
  PROVE  /\ \A q : TextChar(q)' = TextChar(q)
         /\ \A q : OccursAt(q)' <=> OccursAt(q)
<1>1. UNCHANGED <<pattern, has_bol, has_eol>>
  BY DEF comp
<1> QED
  BY <1>1 DEF OccursAt, AnchorsMatch, TextChar, PattChar, len

(* What holds of the pattern wherever it is searched for. *)
LEMMA SearchFacts ==
  ASSUME IInv, pc \in {"ready", "window", "compare"}, ~ has_glob
  PROVE  /\ Types /\ len \in Nat /\ len >= 1 /\ Len(text) \in Nat /\ srch_pos \in Nat /\ i \in Int
         /\ ~ has_eol /\ ret = "none"
         /\ has_bol => PattChar(len - 1) = "NUL"
         /\ Shifts /\ FoundTo(0) /\ BadTo(len - 1)
<1>1. Types
  BY DEF IInv
<1>2. len \in Nat /\ Len(text) \in Nat
  BY <1>1, PatternTypes
<1>3. pattern # <<>> /\ ~ has_eol /\ (has_bol => PattChar(len - 1) = "NUL")
  BY DEF IInv, PatternInv
<1>4. len # 0
  BY <1>1, <1>3 DEF Types, len
<1>5. Shifts /\ FoundTo(0) /\ BadTo(len - 1) /\ ret = "none"
  BY DEF IInv, GoodInv, BadInv, Usable, AnswerInv
<1> QED
  BY <1>1, <1>2, <1>3, <1>4, <1>5 DEF Types

LEMMA WithoutTypes ==
  ASSUME NEW t \in Seq(Char), NEW fl
  PROVE  WithoutLast(WithoutFirst(t, fl), fl) \in Seq(Char)
<1>1. WithoutFirst(t, fl) \in Seq(Char)
  BY DEF WithoutFirst
<1> DEFINE u == WithoutFirst(t, fl)
<1> HIDE DEF u
<1>2. ASSUME u \in Seq(Char) PROVE WithoutLast(u, fl) \in Seq(Char)
  <2>1. CASE u = <<>>
    BY <1>2, <2>1 DEF WithoutLast
  <2>2. CASE u # <<>>
    <3>1. Len(u) - 1 \in Nat /\ \A x \in 1 .. Len(u) - 1 : u[x] \in Char
      BY <1>2, <2>2
    <3>2. SubSeq(u, 1, Len(u) - 1) \in Seq(Char)
      BY <1>2, <3>1
    <3> QED
      BY <1>2, <3>2 DEF WithoutLast
  <2> QED
    BY <2>1, <2>2
<1> QED
  BY <1>1, <1>2 DEF u

LEMMA ExecuteHolds ==
  ASSUME IInv, Execute
  PROVE  IInv'
<1>1. /\ pc = "ready" /\ UNCHANGED comp /\ srch_pos' = 0 /\ shift' = len /\ prev_suf' = 0
      /\ Types /\ ret = "none" /\ UNCHANGED <<input, suff, i, j, f, g>>
      /\ pc' \in {"done", "window"}
  BY DEF Execute, IInv, AnswerInv
<1>2. text' \in Seq(Char)
  <2>1. text' = IF has_glob THEN given' ELSE WithoutLast(WithoutFirst(given', eflags'), eflags')
    BY DEF Execute
  <2>2. given' \in Seq(Char)
    BY InputsAssumption DEF Execute
  <2> QED
    BY <2>1, <2>2, WithoutTypes
<1>3. len \in Nat /\ Len(text') \in Nat
  BY <1>1, <1>2, PatternTypes
<1>4. Types'
  BY <1>1, <1>2, <1>3 DEF Types, comp
<1>5. BadInv' /\ SuffInv' /\ PrefixInv' /\ GoodInv'
  BY <1>1, TablesFrame
<1>6. /\ len' = len
      /\ (has_bol' <=> has_bol) /\ (has_eol' <=> has_eol) /\ (has_glob' <=> has_glob)
      /\ PattChar(len - 1)' = PattChar(len - 1)
  BY <1>1 DEF comp, len, PattChar
<1>7. PatternInv'
  <2>1. pc' = "window" => ~ has_glob
    BY DEF Execute
  <2> QED
    BY <1>1, <1>6, <2>1 DEF IInv, PatternInv, comp
<1>8. MemoryInv' /\ NothingSkipped'
  BY <1>1 DEF MemoryInv, NothingSkipped
<1>9. WindowInv'
  <2>1. pc' = "window" => len >= 1
    <3>1. pc' = "window" => ~ has_glob
      BY DEF Execute
    <3> QED
      BY <1>1, <3>1, SearchFacts
  <2> QED
    BY <1>1, <1>3, <1>6, <2>1 DEF WindowInv, Searching
<1>10. AnswerInv'
  <2>1. CASE has_glob
    <3>1. pc' = "done" /\ ret' = "REG_OK" /\ result' = [soffset |-> 0, eoffset |-> Len(text')]
      BY <2>1 DEF Execute
    <3> QED
      BY <1>6, <2>1, <3>1 DEF AnswerInv, ReportedInCut, AbsentInCut
  <2>2. CASE ~ has_glob /\ len > Len(text')
    <3>1. pc' = "done" /\ ret' = "REG_NOMATCH"
      BY <2>2 DEF Execute
    <3>2. \A q \in 0 .. Len(text') : ~ OccursAt(q)'
      BY <1>3, <1>6, <2>2 DEF OccursAt
    <3> QED
      BY <1>6, <2>2, <3>1, <3>2 DEF AnswerInv, ReportedInCut, AbsentInCut
  <2>3. CASE ~ has_glob /\ ~ (len > Len(text'))
    <3>1. pc' = "window" /\ ret' = "none"
      BY <1>1, <2>3 DEF Execute
    <3> QED
      BY <3>1 DEF AnswerInv, ReportedInCut, AbsentInCut
  <2> QED
    BY <2>1, <2>2, <2>3
<1> QED
  BY <1>4, <1>5, <1>7, <1>8, <1>9, <1>10 DEF IInv

(* The steps that stay in the search. *)
LEMMA SearchingFrame ==
  ASSUME IInv, pc \in {"window", "compare"}, pc' \in {"window", "compare", "done"},
         UNCHANGED <<comp, suff, text, j, f, g, input>>, srch_pos' \in Nat, i' \in Int,
         shift' \in Int, prev_suf' \in Int
  PROVE  Types' /\ PatternInv' /\ BadInv' /\ SuffInv' /\ PrefixInv' /\ GoodInv'
<1>1. Types'
  BY DEF IInv, Types, comp
<1>2. BadInv' /\ SuffInv' /\ PrefixInv' /\ GoodInv'
  BY TablesFrame
<1>3. PatternInv'
  BY DEF IInv, PatternInv, comp, PattChar, len
<1> QED
  BY <1>1, <1>2, <1>3

LEMMA NotDone ==
  ASSUME ret' = "none", pc' # "failed"
  PROVE  AnswerInv'
BY DEF AnswerInv, ReportedInCut, AbsentInCut

LEMMA OpenWindowHolds ==
  ASSUME IInv, OpenWindow
  PROVE  IInv'
<1>1. pc = "window" /\ pc' = "compare" /\ srch_pos + len <= Len(text) /\ i' = len - 1
      /\ UNCHANGED <<comp, suff, text, j, f, g, input, srch_pos, shift, prev_suf, ret>>
      /\ ~ has_glob
  BY DEF OpenWindow, FirstCompared, IInv, PatternInv
<1>2. /\ Types /\ len \in Nat /\ len >= 1 /\ Len(text) \in Nat /\ srch_pos \in Nat
      /\ shift \in 1 .. len /\ prev_suf \in 0 .. len - 1 /\ ret = "none"
  BY <1>1, SearchFacts DEF IInv, WindowInv, Searching
<1>3. Types' /\ PatternInv' /\ BadInv' /\ SuffInv' /\ PrefixInv' /\ GoodInv'
  BY <1>1, <1>2, SearchingFrame
<1>4. len' = len /\ (ShiftsAreSafe' <=> ShiftsAreSafe) /\ (\A q : OccursAt(q)' <=> OccursAt(q))
  BY <1>1, SearchFrame, SameText
<1>5. NothingSkipped'
  BY <1>1, <1>4 DEF IInv, NothingSkipped
<1>6. MemoryInv'
  <2>1. UNCHANGED <<pattern, good_shifts>>
    BY <1>1 DEF comp
  <2>2. MemoryInv
    BY DEF IInv
  <2> QED
    BY <1>1, <2>1, <2>2
    DEF MemoryInv, Searching, Remembered, RemembersBeginning, PattChar, TextChar, len
<1>7. WindowInv'
  <2>1. prev_suf # 0 => ~ (len - 1 \in len - shift - prev_suf .. len - 1 - shift)
    BY <1>2
  <2> QED
    BY <1>1, <1>2, <1>4, <2>1 DEF WindowInv, Searching, Remembered
<1>8. AnswerInv'
  BY <1>1, <1>2, NotDone
<1> QED
  BY <1>3, <1>5, <1>6, <1>7, <1>8 DEF IInv

LEMMA EndOfTextHolds ==
  ASSUME IInv, EndOfText
  PROVE  IInv'
<1>1. pc = "window" /\ pc' = "done" /\ srch_pos + len > Len(text) /\ ret' = "REG_NOMATCH"
      /\ UNCHANGED <<comp, suff, text, j, f, g, input, srch_pos, shift, prev_suf, i>>
      /\ ~ has_glob
  BY DEF EndOfText, PastTheEnd, IInv, PatternInv
<1>2. /\ Types /\ len \in Nat /\ len >= 1 /\ Len(text) \in Nat /\ srch_pos \in Nat
      /\ shift \in 1 .. len /\ prev_suf \in 0 .. len - 1 /\ i \in Int
  BY <1>1, SearchFacts DEF IInv, WindowInv, Searching
<1>3. Types' /\ PatternInv' /\ BadInv' /\ SuffInv' /\ PrefixInv' /\ GoodInv'
  BY <1>1, <1>2, SearchingFrame
<1>4. (ShiftsAreSafe' <=> ShiftsAreSafe) /\ (\A q : OccursAt(q)' <=> OccursAt(q)) /\ ~ has_glob'
  BY <1>1, SearchFrame, SameText
<1>5. ShiftsAreSafe => \A q \in 0 .. Len(text) : ~ OccursAt(q)
  BY <1>1, <1>2 DEF IInv, NothingSkipped, OccursAt
<1>6. AnswerInv'
  BY <1>1, <1>4, <1>5 DEF AnswerInv, ReportedInCut, AbsentInCut
<1>7. MemoryInv' /\ WindowInv' /\ NothingSkipped'
  BY <1>1 DEF MemoryInv, WindowInv, NothingSkipped, Searching
<1> QED
  BY <1>3, <1>6, <1>7 DEF IInv

LEMMA FullMatchHolds ==
  ASSUME IInv, FullMatch
  PROVE  IInv'
<1>1. pc = "compare" /\ pc' = "done" /\ i < 0 /\ AnchorsMatch(srch_pos) /\ ret' = "REG_OK"
      /\ result' = [soffset |-> srch_pos, eoffset |-> srch_pos + len]
      /\ UNCHANGED <<comp, suff, text, j, f, g, input, srch_pos, shift, prev_suf, i>>
      /\ ~ has_glob
  BY DEF FullMatch, IInv, PatternInv
<1>2. /\ Types /\ len \in Nat /\ len >= 1 /\ Len(text) \in Nat /\ srch_pos \in Nat
      /\ shift \in 1 .. len /\ prev_suf \in 0 .. len - 1 /\ i \in Int
  BY <1>1, SearchFacts DEF IInv, WindowInv, Searching
<1>3. Types' /\ PatternInv' /\ BadInv' /\ SuffInv' /\ PrefixInv' /\ GoodInv'
  BY <1>1, <1>2, SearchingFrame
<1>4. (ShiftsAreSafe' <=> ShiftsAreSafe) /\ (\A q : OccursAt(q)' <=> OccursAt(q)) /\ len' = len
      /\ (has_glob' <=> has_glob)
  BY <1>1, SearchFrame, SameText
<1>5. OccursAt(srch_pos)
  <2>1. srch_pos + len <= Len(text) /\ i \in -1 .. len - 1
        /\ \A x \in i + 1 .. len - 1 : PattChar(x) = TextChar(srch_pos + x)
    BY <1>1 DEF IInv, WindowInv
  <2> QED
    BY <1>1, <1>2, <2>1 DEF OccursAt
<1>6. ShiftsAreSafe => \A q \in 0 .. srch_pos - 1 : ~ OccursAt(q)
  BY <1>1 DEF IInv, NothingSkipped
<1>7. AnswerInv'
  <2>1. OccursAt(result.soffset)'
    BY <1>1, <1>5 DEF OccursAt, AnchorsMatch, comp, len, PattChar, TextChar
  <2>2. result'.soffset = srch_pos /\ result'.eoffset = srch_pos + len
    BY <1>1
  <2>3. ReportedInCut'
    BY <1>1, <1>2, <1>4, <1>6, <2>1, <2>2 DEF ReportedInCut
  <2> QED
    BY <1>1, <2>3 DEF AnswerInv, AbsentInCut
<1>8. MemoryInv' /\ WindowInv' /\ NothingSkipped'
  BY <1>1 DEF MemoryInv, WindowInv, NothingSkipped, Searching
<1> QED
  BY <1>3, <1>7, <1>8 DEF IInv

LEMMA CompareCharHolds ==
  ASSUME IInv, CompareChar
  PROVE  IInv'
<1>1. pc = "compare" /\ pc' = "compare" /\ i >= 0 /\ PattChar(i) = TextChar(srch_pos + i)
      /\ i' = PassOver(i - 1)
      /\ UNCHANGED <<comp, suff, text, j, f, g, input, srch_pos, shift, prev_suf, ret>>
      /\ ~ has_glob
  BY DEF CompareChar, IInv, PatternInv
<1>2. /\ Types /\ len \in Nat /\ len >= 1 /\ Len(text) \in Nat /\ srch_pos \in Nat
      /\ shift \in 1 .. len /\ prev_suf \in 0 .. len - 1 /\ ret = "none"
      /\ srch_pos + len <= Len(text) /\ i \in 0 .. len - 1
      /\ \A x \in i + 1 .. len - 1 : PattChar(x) = TextChar(srch_pos + x)
      /\ prev_suf # 0 => ~ Remembered(i)
  <2>1. WindowInv
    BY DEF IInv
  <2> QED
    BY <1>1, <2>1, SearchFacts DEF WindowInv, Searching
<1>3. prev_suf # 0 => /\ prev_suf <= len - shift
                      /\ \A x \in 0 .. len - 1 : Remembered(x) => PattChar(x) = TextChar(srch_pos + x)
  BY <1>1 DEF IInv, MemoryInv, Searching
<1>4. /\ i' \in -1 .. len - 1
      /\ \A x \in i' + 1 .. len - 1 : PattChar(x) = TextChar(srch_pos + x)
      /\ prev_suf # 0 => ~ (i' \in len - shift - prev_suf .. len - 1 - shift)
  <2>1. CASE prev_suf # 0 /\ i - 1 = len - 1 - shift
    <3>1. i' = i - 1 - prev_suf
      BY <1>1, <2>1 DEF PassOver
    <3>2. i' \in -1 .. len - 1 /\ i' < len - shift - prev_suf
      BY <1>2, <1>3, <2>1, <3>1
    <3>3. ASSUME NEW x \in i' + 1 .. len - 1
          PROVE  PattChar(x) = TextChar(srch_pos + x)
      <4>1. CASE x > i
        BY <1>2, <3>2, <4>1
      <4>2. CASE x = i
        BY <1>1, <4>2
      <4>3. CASE x < i
        <5>1. x \in 0 .. len - 1 /\ x \in len - shift - prev_suf .. len - 1 - shift
          BY <1>2, <1>3, <2>1, <3>1, <3>2, <4>3
        <5> QED
          BY <1>3, <2>1, <5>1 DEF Remembered
      <4> QED
        BY <1>2, <3>2, <4>1, <4>2, <4>3
    <3>4. ~ (i' \in len - shift - prev_suf .. len - 1 - shift)
      BY <1>2, <3>2
    <3> QED
      BY <3>2, <3>3, <3>4
  <2>2. CASE ~ (prev_suf # 0 /\ i - 1 = len - 1 - shift)
    <3>1. i' = i - 1
      BY <1>1, <2>2 DEF PassOver
    <3>2. \A x \in i' + 1 .. len - 1 : x = i \/ x \in i + 1 .. len - 1
      BY <1>2, <3>1
    <3>3. prev_suf # 0 => ~ (i' \in len - shift - prev_suf .. len - 1 - shift)
      BY <1>2, <2>2, <3>1 DEF Remembered
    <3> QED
      BY <1>1, <1>2, <3>1, <3>2, <3>3
  <2> QED
    BY <2>1, <2>2
<1>5. Types' /\ PatternInv' /\ BadInv' /\ SuffInv' /\ PrefixInv' /\ GoodInv'
  BY <1>1, <1>2, <1>4, SearchingFrame
<1>6. len' = len /\ (ShiftsAreSafe' <=> ShiftsAreSafe) /\ (\A q : OccursAt(q)' <=> OccursAt(q))
  BY <1>1, SearchFrame, SameText
<1>7. NothingSkipped'
  BY <1>1, <1>6 DEF IInv, NothingSkipped
<1>8. MemoryInv'
  <2>1. UNCHANGED <<pattern, good_shifts>> /\ MemoryInv
    BY <1>1 DEF comp, IInv
  <2> QED
    BY <1>1, <2>1
    DEF MemoryInv, Searching, Remembered, RemembersBeginning, PattChar, TextChar, len
<1>9. WindowInv'
  <2>1. \A x \in i' + 1 .. len - 1 : (PattChar(x) = TextChar(srch_pos + x))'
    BY <1>1, <1>4 DEF comp, PattChar, TextChar
  <2> QED
    BY <1>1, <1>2, <1>4, <1>6, <2>1 DEF WindowInv, Searching, Remembered
<1>10. AnswerInv'
  BY <1>1, <1>2, NotDone
<1> QED
  BY <1>5, <1>7, <1>8, <1>9, <1>10 DEF IInv

(* After a match that '^' refuses: an occurrence that overlapped it would    *)
(* have the terminator of the one inside the other.                        *)
LEMMA AnchorsRefuseHolds ==
  ASSUME IInv, AnchorsRefuse
  PROVE  IInv'
<1>1. pc = "compare" /\ pc' = "window" /\ i < 0 /\ ~ AnchorsMatch(srch_pos)
      /\ srch_pos' = srch_pos + shift
      /\ UNCHANGED <<comp, suff, text, j, f, g, input, i, shift, prev_suf, ret>>
      /\ ~ has_glob
  BY DEF AnchorsRefuse, IInv, PatternInv
<1>2. /\ Types /\ len \in Nat /\ len >= 1 /\ Len(text) \in Nat /\ srch_pos \in Nat
      /\ shift \in 1 .. len /\ prev_suf \in 0 .. len - 1 /\ ret = "none" /\ i \in Int
      /\ srch_pos + len <= Len(text) /\ ~ has_eol
      /\ (has_bol => PattChar(len - 1) = "NUL")
      /\ \A x \in 0 .. len - 1 : PattChar(x) = TextChar(srch_pos + x)
  <2>1. WindowInv
    BY DEF IInv
  <2>2. shift \in 1 .. len /\ prev_suf \in 0 .. len - 1 /\ i = -1 /\ srch_pos + len <= Len(text)
        /\ \A x \in i + 1 .. len - 1 : PattChar(x) = TextChar(srch_pos + x)
    BY <1>1, <2>1 DEF WindowInv, Searching
  <2> QED
    BY <1>1, <2>2, SearchFacts
<1>3. Types' /\ PatternInv' /\ BadInv' /\ SuffInv' /\ PrefixInv' /\ GoodInv'
  BY <1>1, <1>2, SearchingFrame
<1>4. len' = len /\ (ShiftsAreSafe' <=> ShiftsAreSafe) /\ (\A q : OccursAt(q)' <=> OccursAt(q))
  BY <1>1, SearchFrame, SameText
<1>5. ASSUME ShiftsAreSafe, NEW q \in 0 .. srch_pos + shift - 1, OccursAt(q)
      PROVE  FALSE
  <2>1. has_bol
    BY <1>1, <1>2 DEF AnchorsMatch
  <2>2. CASE q < srch_pos
    BY <1>1, <1>2, <1>5, <2>2 DEF IInv, NothingSkipped
  <2>3. CASE q = srch_pos
    BY <1>1, <1>5, <2>3 DEF OccursAt
  <2>4. CASE q > srch_pos
    <3> DEFINE x == len - 1 - (q - srch_pos)
    <3>1. x \in 0 .. len - 2 /\ q + x = srch_pos + (len - 1) /\ len - 1 \in 0 .. len - 1
      BY <1>2, <2>4
    <3>2. PattChar(x) = TextChar(q + x)
      BY <1>2, <1>5, <3>1 DEF OccursAt
    <3>3. PattChar(x) = "NUL"
      BY <1>2, <2>1, <3>1, <3>2
    <3>4. PattChar(x) # "NUL"
      BY <1>5, <2>1, <3>1 DEF ShiftsAreSafe, OneTerminator
    <3> QED
      BY <3>3, <3>4
  <2> QED
    BY <1>2, <2>2, <2>3, <2>4
<1>6. NothingSkipped'
  <2>1. ShiftsAreSafe => \A q \in 0 .. srch_pos + shift - 1 : ~ OccursAt(q)
    BY <1>5
  <2>2. ShiftsAreSafe => \A q \in 0 .. srch_pos' - 1 : ~ OccursAt(q)
    <3>1. srch_pos' = srch_pos + shift /\ srch_pos \in Nat /\ shift \in Int
      BY <1>1, <1>2
    <3> QED
      BY <2>1, <3>1
  <2>3. ShiftsAreSafe' => \A q \in 0 .. srch_pos' - 1 : ~ OccursAt(q)'
    BY <1>4, <2>2
  <2> QED
    BY <2>3 DEF NothingSkipped
<1>7. MemoryInv'
  <2>1. UNCHANGED <<pattern, good_shifts>> /\ MemoryInv
    BY <1>1 DEF comp, IInv
  <2>2. ASSUME prev_suf # 0, NEW x \in 0 .. len - 1, Remembered(x)
        PROVE  PattChar(x) = TextChar(srch_pos + shift + x)
    <3>1. x + shift \in 0 .. len - 1 /\ srch_pos + (x + shift) = srch_pos + shift + x
      BY <1>2, <2>2 DEF Remembered
    <3>2. PattChar(x) = PattChar(x + shift)
      BY <1>1, <2>1, <2>2 DEF MemoryInv, Searching
    <3> QED
      BY <1>2, <3>1, <3>2
  <2>3. prev_suf # 0 => \A x \in 0 .. len - 1 : Remembered(x)
                          => PattChar(x) = TextChar(srch_pos' + x)
    BY <1>1, <2>2
  <2> QED
    BY <1>1, <2>1, <2>3
    DEF MemoryInv, Searching, Remembered, RemembersBeginning, PattChar, TextChar, len
<1>8. WindowInv'
  BY <1>1, <1>2, <1>4 DEF WindowInv, Searching
<1>9. AnswerInv'
  BY <1>1, <1>2, NotDone
<1> QED
  BY <1>3, <1>6, <1>7, <1>8, <1>9 DEF IInv

(* What holds when the characters at i differ. *)
LEMMA MismatchFacts ==
  ASSUME IInv, Mismatch
  PROVE  LET b    == TextChar(srch_pos + i)
             v    == len - 1 - i
             good == good_shifts[i]
             bad  == bad_shifts[b] - v
         IN /\ pc = "compare" /\ ~ has_glob
            /\ Types /\ len \in Nat /\ len >= 1 /\ Len(text) \in Nat /\ srch_pos \in Nat
            /\ shift \in 1 .. len /\ prev_suf \in 0 .. len - 1 /\ ret = "none"
            /\ srch_pos + len <= Len(text) /\ i \in 0 .. len - 1
            /\ \A x \in i + 1 .. len - 1 : PattChar(x) = TextChar(srch_pos + x)
            /\ PattChar(i) # b /\ b \in Char
            /\ prev_suf # 0 => ~ Remembered(i)
            /\ good \in 1 .. len /\ bad_shifts[b] \in 1 .. len /\ bad \in Int
<1> DEFINE b == TextChar(srch_pos + i)
<1>1. pc = "compare" /\ ~ has_glob /\ i >= 0 /\ PattChar(i) # b
  BY DEF Mismatch, IInv, PatternInv
<1>2. /\ Types /\ len \in Nat /\ len >= 1 /\ Len(text) \in Nat /\ srch_pos \in Nat
      /\ shift \in 1 .. len /\ prev_suf \in 0 .. len - 1 /\ ret = "none"
      /\ srch_pos + len <= Len(text) /\ i \in 0 .. len - 1
      /\ \A x \in i + 1 .. len - 1 : PattChar(x) = TextChar(srch_pos + x)
      /\ prev_suf # 0 => ~ Remembered(i)
      /\ Shifts /\ BadTo(len - 1)
  <2>1. WindowInv
    BY DEF IInv
  <2> QED
    BY <1>1, <2>1, SearchFacts DEF WindowInv, Searching
<1>3. b \in Char
  <2>1. srch_pos + i \in 0 .. Len(text) - 1
    BY <1>2
  <2> QED
    BY <1>2, <2>1, PatternTypes
<1>4. good_shifts[i] \in 1 .. len
  BY <1>2 DEF Shifts
<1>5. bad_shifts[b] \in 1 .. len
  <2>1. \/ bad_shifts[b] = len
        \/ \E x \in 0 .. len - 1 - 1 : bad_shifts[b] = len - 1 - x
    BY <1>2, <1>3 DEF BadTo
  <2> HIDE DEF b
  <2> QED
    BY <1>2, <2>1
<1> HIDE DEF b
<1>6. bad_shifts[b] - (len - 1 - i) \in Int
  BY <1>2, <1>5
<1> QED
  BY <1>1, <1>2, <1>3, <1>4, <1>5, <1>6 DEF b

(* The shift that is taken: the greatest, or one more than is remembered. *)
LEMMA ShiftByBounds ==
  ASSUME NEW turbo \in Int, NEW bad \in Int, NEW good \in Int, prev_suf \in Int
  PROVE  LET s == ShiftBy(turbo, bad, good)
         IN /\ s \in Int /\ s >= good /\ s >= turbo /\ s >= bad
            /\ \/ s = good \/ s = turbo \/ s = bad
               \/ s = prev_suf + 1 /\ bad > good /\ bad > turbo /\ prev_suf + 1 > bad
BY DEF ShiftBy, MaxOf

(* An occurrence d places on, where the window mismatched. *)
Ahead(d) == \A x \in 0 .. len - 1 : PattChar(x) = TextChar(srch_pos + d + x)

LEMMA AheadFits ==
  ASSUME IInv, Mismatch, NEW d \in 1 .. len, Ahead(d)
  PROVE  SuffixFits(i, d) /\ d >= good_shifts[i]
<1>1. /\ pc = "compare" /\ ~ has_glob /\ len \in Nat /\ srch_pos \in Nat /\ i \in 0 .. len - 1
      /\ (\A x \in i + 1 .. len - 1 : PattChar(x) = TextChar(srch_pos + x))
      /\ PattChar(i) # TextChar(srch_pos + i) /\ good_shifts[i] \in 1 .. len
  BY MismatchFacts
<1>2. ASSUME NEW y \in i .. len - 1, y - d >= 0
      PROVE  PattChar(y - d) = TextChar(srch_pos + y)
  <2>1. y - d \in 0 .. len - 1 /\ srch_pos + d + (y - d) = srch_pos + y
    BY <1>1, <1>2
  <2>2. PattChar(y - d) = TextChar(srch_pos + d + (y - d))
    BY <2>1 DEF Ahead
  <2> QED
    BY <2>1, <2>2
<1>3. SuffixFits(i, d)
  <2>1. ASSUME NEW y \in i + 1 .. len - 1, y - d >= 0
        PROVE  PattChar(y - d) = PattChar(y)
    <3>1. y \in i .. len - 1
      BY <1>1
    <3> QED
      BY <1>1, <1>2, <2>1, <3>1
  <2>2. i - d >= 0 => PattChar(i - d) # PattChar(i)
    <3>1. i \in i .. len - 1
      BY <1>1
    <3> QED
      BY <1>1, <1>2, <3>1
  <2> QED
    BY <2>1, <2>2 DEF SuffixFits
<1>4. FoundTo(0)
  BY <1>1, SearchFacts
<1>5. d \in 1 .. good_shifts[i] - 1 => d <= 0
  BY <1>1, <1>3, <1>4 DEF FoundTo
<1> QED
  BY <1>1, <1>3, <1>5

LEMMA AheadBad ==
  ASSUME IInv, Mismatch, NEW d \in 1 .. len, Ahead(d)
  PROVE  /\ bad_shifts[TextChar(srch_pos + i)] - (len - 1 - i) <= d
         /\ i - d >= 0 => PattChar(i - d) = TextChar(srch_pos + i)
<1> DEFINE b == TextChar(srch_pos + i)
<1>1. /\ pc = "compare" /\ ~ has_glob /\ len \in Nat /\ srch_pos \in Nat /\ i \in 0 .. len - 1
      /\ b \in Char /\ bad_shifts[b] \in 1 .. len
  BY MismatchFacts
<1>2. BadTo(len - 1)
  BY <1>1, SearchFacts
<1>3. CASE i - d >= 0
  <2>1. i - d \in 0 .. len - 2 /\ srch_pos + d + (i - d) = srch_pos + i /\ i - d \in 0 .. len - 1
    BY <1>1, <1>3
  <2>2. PattChar(i - d) = b
    BY <2>1 DEF Ahead
  <2>3. \/ \A x \in 0 .. len - 2 : PattChar(x) # b
        \/ \E x \in 0 .. len - 2 : /\ \A y \in x + 1 .. len - 2 : PattChar(y) # b
                                   /\ bad_shifts[b] = len - 1 - x
    <3>1. len - 1 - 1 = len - 2
      BY <1>1
    <3> QED
      BY <1>1, <1>2, <3>1 DEF BadTo, LastBefore
  <2>4. PICK x \in 0 .. len - 2 : /\ \A y \in x + 1 .. len - 2 : PattChar(y) # b
                                  /\ bad_shifts[b] = len - 1 - x
    BY <2>1, <2>2, <2>3
  <2>5. x >= i - d
    <3> HIDE DEF b
    <3> QED
      BY <1>1, <2>1, <2>2, <2>4
  <2> HIDE DEF b
  <2>6. bad_shifts[b] - (len - 1 - i) <= d
    BY <1>1, <2>4, <2>5
  <2> QED
    BY <2>2, <2>6 DEF b
<1>4. CASE i - d < 0
  <2> HIDE DEF b
  <2>1. bad_shifts[b] - (len - 1 - i) <= d
    BY <1>1, <1>4
  <2> QED
    BY <1>1, <1>4, <2>1 DEF b
<1> QED
  BY <1>1, <1>3, <1>4

(* The turbo shift passes nothing: the remembered stretch repeats at the old *)
(* shift, and the two characters of the text that differ at that distance    *)
(* would lie in it.                                                        *)
LEMMA AheadTurbo ==
  ASSUME IInv, Mismatch, NEW d \in 1 .. len, Ahead(d)
  PROVE  prev_suf - (len - 1 - i) <= d
<1> DEFINE v == len - 1 - i
<1> SUFFICES ASSUME d < prev_suf - v PROVE FALSE
  <2>1. len \in Nat /\ i \in Int /\ prev_suf \in Int
    BY MismatchFacts
  <2> QED
    BY <2>1
<1>1. /\ pc = "compare" /\ len \in Nat /\ srch_pos \in Nat /\ i \in 0 .. len - 1
      /\ shift \in 1 .. len /\ prev_suf \in 0 .. len - 1
      /\ PattChar(i) # TextChar(srch_pos + i)
  BY MismatchFacts
<1>2. /\ prev_suf # 0 /\ prev_suf <= len - shift
      /\ \A x \in 0 .. len - 1 :
           x \in len - shift - prev_suf .. len - 1 - shift
             => /\ PattChar(x) = TextChar(srch_pos + x)
                /\ PattChar(x) = PattChar(x + shift)
  <2>1. prev_suf # 0
    BY <1>1
  <2> QED
    BY <1>1, <2>1 DEF IInv, MemoryInv, Searching, Remembered
<1> DEFINE z == i - shift
<1>3. /\ z \in 0 .. len - 1 /\ z \in len - shift - prev_suf .. len - 1 - shift
      /\ z - d \in 0 .. len - 1 /\ z - d \in len - shift - prev_suf .. len - 1 - shift
      /\ i - d \in 0 .. len - 1
      /\ z + shift = i /\ (z - d) + shift = i - d
      /\ srch_pos + d + (z - d) = srch_pos + z /\ srch_pos + d + (i - d) = srch_pos + i
  BY <1>1, <1>2
<1> HIDE DEF z, v
<1>4. PattChar(z) = TextChar(srch_pos + z) /\ PattChar(z) = PattChar(i)
  BY <1>2, <1>3
<1>5. PattChar(z - d) = TextChar(srch_pos + z) /\ PattChar(i - d) = TextChar(srch_pos + i)
  BY <1>3 DEF Ahead
<1>6. PattChar(z - d) = PattChar(i - d)
  BY <1>2, <1>3
<1> QED
  BY <1>1, <1>4, <1>5, <1>6

(* The rule that the shift of the bad character exceeds what is remembered:  *)
(* it passes nothing if the remembered stretch ends where it must, before a  *)
(* character that breaks the repetition...                                 *)
LEMMA AheadBroken ==
  ASSUME IInv, Mismatch, NEW d \in 1 .. len, Ahead(d), d <= prev_suf,
         prev_suf - (len - 1 - i) < d, prev_suf < len - shift,
         PattChar(len - 1 - prev_suf - shift) # PattChar(len - 1 - prev_suf)
  PROVE  FALSE
<1>1. /\ pc = "compare" /\ len \in Nat /\ srch_pos \in Nat /\ i \in 0 .. len - 1
      /\ shift \in 1 .. len /\ prev_suf \in 0 .. len - 1
      /\ \A x \in i + 1 .. len - 1 : PattChar(x) = TextChar(srch_pos + x)
  BY MismatchFacts
<1>2. \A x \in 0 .. len - 1 :
        x \in len - shift - prev_suf .. len - 1 - shift
          => /\ PattChar(x) = TextChar(srch_pos + x)
             /\ PattChar(x) = PattChar(x + shift)
  <2>1. prev_suf # 0
    BY <1>1
  <2> QED
    BY <1>1, <2>1 DEF IInv, MemoryInv, Searching, Remembered
<1> DEFINE z == len - 1 - prev_suf
           y == z - shift
<1>3. /\ z \in 0 .. len - 1 /\ y \in 0 .. len - 1
      /\ y + d \in 0 .. len - 1 /\ y + d \in len - shift - prev_suf .. len - 1 - shift
      /\ z + d \in i + 1 .. len - 1 /\ (y + d) + shift = z + d
      /\ srch_pos + d + y = srch_pos + (y + d) /\ srch_pos + d + z = srch_pos + (z + d)
  BY <1>1
<1>4. PattChar(y) # PattChar(z)
  BY <1>1
<1> HIDE DEF z, y
<1>5. PattChar(y) = TextChar(srch_pos + (y + d)) /\ PattChar(z) = TextChar(srch_pos + (z + d))
  BY <1>3 DEF Ahead
<1>6. PattChar(y + d) = TextChar(srch_pos + (y + d)) /\ PattChar(y + d) = PattChar(z + d)
  BY <1>2, <1>3
<1>7. PattChar(z + d) = TextChar(srch_pos + (z + d))
  BY <1>1, <1>3
<1> QED
  BY <1>4, <1>5, <1>6, <1>7

(* ...and if it is the pattern's beginning it may only for a pattern that is  *)
(* misled.                                                                 *)
LEMMA AheadMisled ==
  ASSUME IInv, Mismatch, NEW d \in 1 .. len, Ahead(d), d <= prev_suf,
         bad_shifts[TextChar(srch_pos + i)] - (len - 1 - i) > good_shifts[i],
         bad_shifts[TextChar(srch_pos + i)] - (len - 1 - i) > prev_suf - (len - 1 - i),
         prev_suf = len - shift, RemembersBeginning(shift)
  PROVE  Misled
<1> DEFINE b == TextChar(srch_pos + i)
           v == len - 1 - i
<1>1. /\ pc = "compare" /\ len \in Nat /\ srch_pos \in Nat /\ i \in 0 .. len - 1
      /\ shift \in 1 .. len /\ prev_suf \in 0 .. len - 1 /\ prev_suf # 0
      /\ ~ Remembered(i)
  <2>1. /\ pc = "compare" /\ len \in Nat /\ srch_pos \in Nat /\ i \in 0 .. len - 1
        /\ shift \in 1 .. len /\ prev_suf \in 0 .. len - 1
        /\ (prev_suf # 0 => ~ Remembered(i))
    BY MismatchFacts
  <2>2. prev_suf # 0
    BY <2>1
  <2> QED
    BY <2>1, <2>2
<1>2. \A x \in 0 .. len - 1 :
        x \in len - shift - prev_suf .. len - 1 - shift => PattChar(x) = TextChar(srch_pos + x)
  BY <1>1 DEF IInv, MemoryInv, Searching, Remembered
<1>3. shift \in 1 .. len - 1 /\ i \in len - shift .. len - 1 /\ d \in 1 .. len - shift /\ d <= i
  BY <1>1 DEF Remembered
<1>4. PattChar(i - d) = b
  BY <1>3, AheadBad
<1>5. SuffixFits(i, d)
  BY AheadFits
<1>6. ASSUME NEW y \in d .. len - shift - 1
      PROVE  PattChar(y - d) = PattChar(y)
  <2>1. /\ y \in 0 .. len - 1 /\ y \in len - shift - prev_suf .. len - 1 - shift
        /\ y - d \in 0 .. len - 1 /\ srch_pos + d + (y - d) = srch_pos + y
    BY <1>1
  <2>2. PattChar(y) = TextChar(srch_pos + y)
    BY <1>2, <2>1
  <2>3. PattChar(y - d) = TextChar(srch_pos + d + (y - d))
    BY <2>1 DEF Ahead
  <2> QED
    BY <2>1, <2>2, <2>3
<1>7. bad_shifts[b] - v > good_shifts[i] /\ bad_shifts[b] - v > len - shift - v
  OBVIOUS
<1>8. PassedByRule(shift, i, d)
  <2> HIDE DEF b
  <2> QED
    BY <1>4, <1>5, <1>6, <1>7 DEF PassedByRule, BadShift
<1> QED
  BY <1>3, <1>8 DEF Misled

LEMMA MismatchPasses ==
  ASSUME IInv, Mismatch, ShiftsAreSafe, NEW n \in 1 .. len, n = shift',
         NEW q \in Nat, q < srch_pos + n
  PROVE  ~ OccursAt(q)
<1> DEFINE b == TextChar(srch_pos + i)
           v == len - 1 - i
           good == good_shifts[i]
           bad == bad_shifts[b] - v
           turbo == prev_suf - v
           d == q - srch_pos
<1>1. /\ pc = "compare" /\ ~ has_glob /\ len \in Nat /\ srch_pos \in Nat /\ i \in 0 .. len - 1
      /\ shift \in 1 .. len /\ prev_suf \in 0 .. len - 1
      /\ PattChar(i) # b /\ good \in 1 .. len /\ bad \in Int
  BY MismatchFacts
<1>2. n = ShiftBy(turbo, bad, good)
  BY DEF Mismatch, BadShift
<1> SUFFICES ASSUME OccursAt(q) PROVE FALSE
  OBVIOUS
<1>3. CASE q < srch_pos
  BY <1>1, <1>3 DEF IInv, NothingSkipped
<1>4. CASE q = srch_pos
  <2>1. PattChar(i) = TextChar(q + i)
    BY <1>1 DEF OccursAt
  <2> QED
    BY <1>1, <1>4, <2>1
<1>5. CASE q > srch_pos
  <2>1. d \in 1 .. len /\ d < n /\ turbo \in Int /\ d \in Int /\ srch_pos + d = q
    <3>1. q < srch_pos + n /\ n \in 1 .. len /\ q \in Nat /\ q > srch_pos /\ srch_pos \in Nat
          /\ len \in Nat
      BY <1>1, <1>5
    <3>2. d \in 1 .. len /\ d < n /\ d \in Int /\ srch_pos + d = q
      BY ONLY <3>1 DEF d
    <3>3. turbo \in Int
      BY <1>1
    <3> QED
      BY <3>2, <3>3
  <2>2. Ahead(d)
    <3>1. \A x \in 0 .. len - 1 : PattChar(x) = TextChar(q + x)
      BY DEF OccursAt
    <3> QED
      BY <2>1, <3>1 DEF Ahead
  <2> HIDE DEF d
  <2>3. d >= good /\ bad <= d /\ turbo <= d
    BY <2>1, <2>2, AheadFits, AheadBad, AheadTurbo
  <2> DEFINE s == ShiftBy(turbo, bad, good)
  <2>4. /\ \/ s = good \/ s = turbo \/ s = bad
           \/ s = prev_suf + 1 /\ bad > good /\ bad > turbo /\ prev_suf + 1 > bad
    <3> HIDE DEF turbo, bad, good
    <3> QED
      BY <1>1, <2>1, ShiftByBounds
  <2>5. s = prev_suf + 1 /\ bad > good /\ bad > turbo /\ d <= prev_suf
    <3>1. s = n /\ n \in Int
      BY <1>2
    <3> HIDE DEF turbo, bad, good, s
    <3> QED
      BY <1>1, <2>1, <2>3, <2>4, <3>1
  <2>6. turbo < d /\ prev_suf # 0
    <3> HIDE DEF turbo, bad, good, s
    <3> QED
      BY <1>1, <2>1, <2>3, <2>5
  <2>7. \/ prev_suf = len - shift /\ RemembersBeginning(shift)
        \/ /\ prev_suf < len - shift
           /\ PattChar(len - 1 - prev_suf - shift) # PattChar(len - 1 - prev_suf)
    BY <1>1, <2>6 DEF IInv, MemoryInv, Searching
  <2>8. CASE prev_suf = len - shift /\ RemembersBeginning(shift)
    <3>1. Misled
      BY <2>1, <2>2, <2>5, <2>8, AheadMisled
    <3> QED
      BY <3>1 DEF ShiftsAreSafe
  <2>9. CASE /\ prev_suf < len - shift
             /\ PattChar(len - 1 - prev_suf - shift) # PattChar(len - 1 - prev_suf)
    BY <2>1, <2>2, <2>5, <2>6, <2>9, AheadBroken
  <2> QED
    BY <2>7, <2>8, <2>9
<1> QED
  BY <1>1, <1>3, <1>4, <1>5

LEMMA MismatchHolds ==
  ASSUME IInv, Mismatch
  PROVE  IInv'
<1> DEFINE b == TextChar(srch_pos + i)
           v == len - 1 - i
           good == good_shifts[i]
           bad == bad_shifts[b] - v
           turbo == prev_suf - v
<1>1. /\ pc = "compare" /\ ~ has_glob /\ Types
      /\ len \in Nat /\ srch_pos \in Nat /\ i \in 0 .. len - 1
      /\ shift \in 1 .. len /\ prev_suf \in 0 .. len - 1 /\ ret = "none"
      /\ (\A x \in i + 1 .. len - 1 : PattChar(x) = TextChar(srch_pos + x))
      /\ good \in 1 .. len /\ bad \in Int /\ bad_shifts[b] \in 1 .. len
  BY MismatchFacts
<1>2. /\ pc' = "window" /\ srch_pos' = srch_pos + shift'
      /\ shift' = ShiftBy(turbo, bad, good)
      /\ prev_suf' = (IF shift' = good THEN MinOf(len - shift', v) ELSE 0)
      /\ UNCHANGED <<comp, suff, text, j, f, g, input, i, ret>>
  BY DEF Mismatch, BadShift, StillAgree
<1>3. shift' \in 1 .. len /\ shift' >= good
  <2>1. turbo \in Int /\ turbo <= prev_suf /\ bad <= len /\ v \in 0 .. len - 1
    <3>1. v \in 0 .. len - 1
      BY <1>1
    <3> HIDE DEF v, b
    <3> QED
      BY <1>1, <3>1
  <2> DEFINE s == ShiftBy(turbo, bad, good)
  <2>2. /\ s \in Int /\ s >= good
        /\ \/ s = good \/ s = turbo \/ s = bad \/ s = prev_suf + 1
    <3>1. prev_suf \in Int /\ good \in Int
      BY <1>1
    <3> HIDE DEF turbo, bad, good
    <3> QED
      BY <1>1, <2>1, <3>1, ShiftByBounds
  <2>3. s = shift'
    BY <1>2
  <2> HIDE DEF turbo, bad, good, s, v, b
  <2> QED
    BY <1>1, <2>1, <2>2, <2>3
<1>4. v \in 0 .. len - 1 /\ v \in Int /\ i = len - 1 - v
  BY <1>1
<1>5. prev_suf' \in 0 .. len - 1
  <2> HIDE DEF v, good, turbo, bad
  <2> QED
    BY <1>1, <1>2, <1>3, <1>4 DEF MinOf
<1>6. Types' /\ PatternInv' /\ BadInv' /\ SuffInv' /\ PrefixInv' /\ GoodInv'
  <2>1. srch_pos' \in Nat
    BY <1>1, <1>2, <1>3
  <2>2. i' \in Int /\ shift' \in Int /\ prev_suf' \in Int
    BY <1>1, <1>2, <1>3, <1>5
  <2> QED
    BY <1>1, <1>2, <2>1, <2>2, SearchingFrame
<1>7. len' = len /\ (ShiftsAreSafe' <=> ShiftsAreSafe) /\ (\A q : OccursAt(q)' <=> OccursAt(q))
      /\ (\A s : RemembersBeginning(s)' <=> RemembersBeginning(s))
  BY <1>2, SearchFrame, SameText
<1>8. NothingSkipped'
  <2>1. ASSUME ShiftsAreSafe, NEW q \in 0 .. srch_pos' - 1
        PROVE  ~ OccursAt(q)
    <3>1. PICK n \in 1 .. len : n = shift'
      BY <1>3
    <3>2. q \in Nat /\ q < srch_pos + n
      BY <1>1, <1>2, <3>1
    <3> QED
      BY <2>1, <3>1, <3>2, MismatchPasses
  <2>2. ShiftsAreSafe' => \A q \in 0 .. srch_pos' - 1 : ~ OccursAt(q)'
    BY <1>7, <2>1
  <2> QED
    BY <2>2 DEF NothingSkipped
<1>9. MemoryInv'
  <2> SUFFICES ASSUME prev_suf' # 0 PROVE MemoryInv'
    BY DEF MemoryInv
  <2>1. shift' = good /\ prev_suf' = MinOf(len - good, v)
    BY <1>2
  <2>2. prev_suf' <= len - good /\ prev_suf' <= v /\ (prev_suf' = len - good \/ prev_suf' = v)
        /\ prev_suf' \in Nat /\ good \in Nat
    <3> HIDE DEF good, v
    <3> QED
      BY <1>1, <1>3, <1>4, <1>5, <2>1 DEF MinOf
  <2>3. SuffixFits(i, good)
    <3>1. FoundTo(0)
      BY <1>1, SearchFacts
    <3> QED
      BY <1>1, <3>1 DEF FoundTo
  <2> HIDE DEF good, v, turbo, bad
  <2>4. ASSUME NEW x \in 0 .. len - 1, x \in len - good - prev_suf' .. len - 1 - good
        PROVE  PattChar(x) = TextChar(srch_pos' + x) /\ PattChar(x) = PattChar(x + good)
    <3>1. x + good \in i + 1 .. len - 1 /\ (x + good) - good = x
          /\ srch_pos' + x = srch_pos + (x + good)
      BY <1>1, <1>2, <1>4, <2>1, <2>2, <2>4
    <3>2. PattChar((x + good) - good) = PattChar(x + good)
      BY <2>3, <3>1 DEF SuffixFits
    <3>3. PattChar(x + good) = TextChar(srch_pos + (x + good))
      BY <1>1, <3>1
    <3> QED
      BY <3>1, <3>2, <3>3
  <2>5. \/ prev_suf' = len - good /\ RemembersBeginning(good)
        \/ /\ prev_suf' < len - good
           /\ PattChar(len - 1 - prev_suf' - good) # PattChar(len - 1 - prev_suf')
    <3>1. CASE prev_suf' = len - good
      <4>1. i \in 0 .. good - 1
        BY <1>1, <1>4, <2>2, <3>1
      <4> QED
        BY <3>1, <4>1 DEF RemembersBeginning, good
    <3>2. CASE prev_suf' # len - good
      <4>1. prev_suf' = v /\ v < len - good
        BY <1>4, <1>1, <2>2, <3>2
      <4>2. len - 1 - v - good = i - good /\ len - 1 - v = i /\ i - good >= 0
        BY <1>1, <1>4, <2>2, <4>1
      <4>3. PattChar(i - good) # PattChar(i)
        BY <2>3, <4>2 DEF SuffixFits
      <4> QED
        BY <4>1, <4>2, <4>3
    <3> QED
      BY <3>1, <3>2
  <2>6. \A x : PattChar(x)' = PattChar(x)
    BY <1>2, SearchFrame
  <2>7. \A x \in 0 .. len - 1 :
          x \in len - good - prev_suf' .. len - 1 - good =>
            (PattChar(x) = TextChar(srch_pos + x))' /\ (PattChar(x) = PattChar(x + shift))'
    <3>1. \A x : TextChar(srch_pos + x)' = TextChar(srch_pos' + x)
      BY <1>2 DEF TextChar
    <3>2. \A x : PattChar(x + shift)' = PattChar(x + good)
      BY <1>2, <2>1 DEF PattChar, comp
    <3> QED
      BY <2>4, <2>6, <3>1, <3>2
  <2>8. \/ (prev_suf = len - shift /\ RemembersBeginning(shift))'
        \/ (/\ prev_suf < len - shift
            /\ PattChar(len - 1 - prev_suf - shift) # PattChar(len - 1 - prev_suf))'
    <3>1. RemembersBeginning(shift)' <=> RemembersBeginning(good)
      BY <1>2, <2>1 DEF RemembersBeginning, comp
    <3>2. PattChar(len - 1 - prev_suf - shift)' = PattChar(len - 1 - prev_suf' - good)
          /\ PattChar(len - 1 - prev_suf)' = PattChar(len - 1 - prev_suf')
      BY <1>2, <2>1 DEF PattChar, comp, len
    <3> QED
      BY <1>7, <2>1, <2>5, <3>1, <3>2
  <2>9. prev_suf' <= len' - shift'
    BY <1>7, <2>1, <2>2
  <2> QED
    BY <1>7, <2>1, <2>7, <2>8, <2>9 DEF MemoryInv, Remembered
<1>10. WindowInv'
  BY <1>2, <1>3, <1>5, <1>7 DEF WindowInv
<1>11. AnswerInv'
  BY <1>1, <1>2, NotDone
<1> QED
  BY <1>6, <1>8, <1>9, <1>10, <1>11 DEF IInv
-----------------------------------------------------------------------------
LEMMA InitHolds ==
  ASSUME Init
  PROVE  IInv
<1>1. Types
  <2>1. pattern \in Seq(Letters) /\ text \in Seq(Char)
    BY DEF Init
  <2>2. has_bol \in BOOLEAN /\ has_eol \in BOOLEAN /\ has_glob \in BOOLEAN
    BY DEF Init
  <2>3. /\ i \in Int /\ j \in Int /\ f \in Int /\ g \in Int
        /\ srch_pos \in Nat /\ shift \in Int /\ prev_suf \in Int
    BY DEF Init
  <2>4. input \in Inputs /\ pc = "start"
    BY DEF Init
  <2> QED
    BY <2>1, <2>2, <2>3, <2>4 DEF Types
<1>2. PatternInv /\ BadInv /\ SuffInv /\ PrefixInv /\ GoodInv
  BY DEF Init, PatternInv, BadInv, SuffInv, PrefixInv, GoodInv, Usable
<1>3. MemoryInv /\ WindowInv /\ NothingSkipped /\ AnswerInv
  BY DEF Init, MemoryInv, WindowInv, NothingSkipped, AnswerInv, ReportedInCut, AbsentInCut, Searching
<1> QED
  BY <1>1, <1>2, <1>3 DEF IInv

LEMMA StutterHolds ==
  ASSUME IInv, UNCHANGED vars
  PROVE  IInv'
<1>1. UNCHANGED <<input, pc, pattern, has_bol, has_eol, has_glob, bad_shifts, good_shifts, suff,
                  i, j, f, g, text, srch_pos, shift, prev_suf, result, ret>>
  BY DEF vars, comp
<1>2. /\ len' = len /\ (ShiftsAreSafe' <=> ShiftsAreSafe)
      /\ (\A q : OccursAt(q)' <=> OccursAt(q))
  BY <1>1, SearchFrame, SameText DEF comp
<1>3. Types' /\ PatternInv'
  BY <1>1 DEF IInv, Types, PatternInv, PattChar, len
<1>4. BadInv' /\ SuffInv'
  <2>1. BadTo(i)' <=> BadTo(i)
    BY <1>1 DEF BadTo, LastBefore, PattChar, len
  <2>2. BadTo(len - 1)' <=> BadTo(len - 1)
    BY <1>1 DEF BadTo, LastBefore, PattChar, len
  <2>3. BadInv'
    BY <1>1, <1>2, <2>1, <2>2 DEF IInv, BadInv, Usable
  <2>4. SuffFrom(i + 1)' <=> SuffFrom(i + 1)
    BY <1>1 DEF SuffFrom, CommonSuffix, PattChar, len
  <2>5. SuffFrom(0)' <=> SuffFrom(0)
    BY <1>1 DEF SuffFrom, CommonSuffix, PattChar, len
  <2>6. Known' <=> Known
    BY <1>1 DEF Known, PattChar, len
  <2>7. SuffInv'
    BY <1>1, <1>2, <2>4, <2>5, <2>6 DEF IInv, SuffInv
  <2> QED
    BY <2>3, <2>7
<1>5. PrefixInv' /\ GoodInv'
  <2>1. Shifts' <=> Shifts
    BY <1>1 DEF Shifts, len
  <2>2. FoundTo(len - 1 - i)' <=> FoundTo(len - 1 - i)
    BY <1>1 DEF FoundTo, SuffixFits, Border, PattChar, len
  <2>3. FoundTo(0)' <=> FoundTo(0)
    BY <1>1 DEF FoundTo, SuffixFits, Border, PattChar, len
  <2>4. GoodInv'
    BY <1>1, <1>2, <2>1, <2>2, <2>3 DEF IInv, GoodInv, Usable
  <2>5. \A x : (PrefixFound(x)' <=> PrefixFound(x)) /\ (PrefixOpen(x)' <=> PrefixOpen(x))
    BY <1>1 DEF PrefixFound, PrefixOpen, Border, PattChar, len
  <2>6. PrefixInv'
    BY <1>1, <1>2, <2>1, <2>5 DEF IInv, PrefixInv
  <2> QED
    BY <2>4, <2>6
<1>6. MemoryInv' /\ WindowInv'
  BY <1>1 DEF IInv, MemoryInv, WindowInv, Remembered, RemembersBeginning, Searching,
              PattChar, TextChar, len
<1>7. NothingSkipped' /\ AbsentInCut'
  BY <1>1, <1>2 DEF IInv, NothingSkipped, AnswerInv, AbsentInCut
<1>8. ReportedInCut'
  <2>1. OccursAt(result.soffset)' <=> OccursAt(result.soffset)
    BY <1>1 DEF OccursAt, AnchorsMatch, PattChar, TextChar, len
  <2> QED
    BY <1>1, <1>2, <2>1 DEF IInv, AnswerInv, ReportedInCut
<1> QED
  BY <1>1, <1>3, <1>4, <1>5, <1>6, <1>7, <1>8 DEF IInv, AnswerInv

LEMMA NextHolds ==
  ASSUME IInv, [Next]_vars
  PROVE  IInv'
<1>1. CASE Compile
  BY <1>1, CompileLiteralHolds, CompileFullHolds, OutOfMemoryHolds, FillBadCharHolds,
     StartSuffixesHolds, NextSuffixHolds, StartGoodShiftsHolds, NextPrefixHolds, StartInnerHolds,
     NextInnerHolds, CompiledHolds DEF Compile
<1>2. CASE Execute
  BY <1>2, ExecuteHolds
<1>3. CASE Search
  BY <1>3, OpenWindowHolds, EndOfTextHolds, CompareCharHolds, MismatchHolds, FullMatchHolds,
     AnchorsRefuseHolds DEF Search
<1>4. CASE UNCHANGED vars
  BY <1>4, StutterHolds
<1> QED
  BY <1>1, <1>2, <1>3, <1>4 DEF Next

(* The inductive invariant holds of every run: of every pattern compiled and *)
(* every text searched.                                                    *)
THEOREM Invariance == Spec => []IInv
<1>1. Init => IInv
  BY InitHolds
<1>2. IInv /\ [Next]_vars => IInv'
  BY NextHolds
<1> QED
  BY <1>1, <1>2, PTL DEF Spec

(* The variables keep their types: whatever strip_specials makes of a        *)
(* pattern is a string of characters, and positions stay integers.         *)
THEOREM TypeCorrect == Spec => []Types
<1>1. IInv => Types
  BY DEF IInv
<1> QED
  BY <1>1, Invariance, PTL

(* bm_compile leaves the tables of Boyer and Moore behind: for every         *)
(* character its distance from the end, and for every place the least shift  *)
(* by which the matched suffix meets itself again.                         *)
THEOREM TablesCorrect == Spec => []TablesAreBoyerMoore
<1>1. IInv => TablesAreBoyerMoore
  <2> SUFFICES ASSUME IInv, pc \in {"ready", "window"}, ~ has_glob
               PROVE  /\ \A c \in Char :
                           IF LastPlace(c) = {} THEN bad_shifts[c] = len
                           ELSE \E x \in LastPlace(c) : bad_shifts[c] = len - 1 - x
                      /\ \A x \in 0 .. len - 1 :
                           /\ SuffixFits(x, good_shifts[x])
                           /\ \A s \in 1 .. good_shifts[x] - 1 : ~ SuffixFits(x, s)
    BY DEF TablesAreBoyerMoore
  <2>1. len \in Nat /\ Shifts /\ FoundTo(0) /\ BadTo(len - 1) /\ len - 1 - 1 = len - 2
    BY SearchFacts
  <2>2. ASSUME NEW c \in Char
        PROVE  IF LastPlace(c) = {} THEN bad_shifts[c] = len
               ELSE \E x \in LastPlace(c) : bad_shifts[c] = len - 1 - x
    <3>1. \/ bad_shifts[c] = len /\ \A x \in 0 .. len - 2 : PattChar(x) # c
          \/ \E x \in 0 .. len - 2 : LastBefore(len - 1, c, x) /\ bad_shifts[c] = len - 1 - x
      BY <2>1 DEF BadTo
    <3>2. CASE bad_shifts[c] = len /\ \A x \in 0 .. len - 2 : PattChar(x) # c
      BY <3>2 DEF LastPlace
    <3>3. CASE \E x \in 0 .. len - 2 : LastBefore(len - 1, c, x) /\ bad_shifts[c] = len - 1 - x
      <4>1. PICK x \in 0 .. len - 2 : LastBefore(len - 1, c, x) /\ bad_shifts[c] = len - 1 - x
        BY <3>3
      <4>2. x \in LastPlace(c)
        BY <2>1, <4>1 DEF LastBefore, LastPlace
      <4> QED
        BY <4>1, <4>2
    <3> QED
      BY <3>1, <3>2, <3>3
  <2>3. ASSUME NEW x \in 0 .. len - 1
        PROVE  /\ SuffixFits(x, good_shifts[x])
               /\ \A s \in 1 .. good_shifts[x] - 1 : ~ SuffixFits(x, s)
    BY <2>1 DEF FoundTo
  <2> QED
    BY <2>2, <2>3
<1> QED
  BY <1>1, Invariance, PTL

(* While a window is compared from right to left, all the characters right of *)
(* the one compared agree, those the turbo search passed over included.    *)
THEOREM PassedCharsCorrect == Spec => []PassedCharsAgree
<1>1. IInv => PassedCharsAgree
  <2> SUFFICES ASSUME IInv, pc = "compare", NEW x \in MaxOf(i + 1, 0) .. len - 1
               PROVE  PattChar(x) = TextChar(srch_pos + x)
    BY DEF PassedCharsAgree
  <2>1. i \in -1 .. len - 1 /\ \A y \in i + 1 .. len - 1 : PattChar(y) = TextChar(srch_pos + y)
    BY DEF IInv, WindowInv
  <2>2. x \in i + 1 .. len - 1
    BY <2>1 DEF MaxOf
  <2> QED
    BY <2>1, <2>2
<1> QED
  BY <1>1, Invariance, PTL

(* No shift of exec_turbo_bm moves the window over an occurrence, but for the *)
(* patterns for which two of its rules are wrong.                          *)
THEOREM NoOccurrenceSkipped == Spec => []NothingSkipped
<1>1. IInv => NothingSkipped
  BY DEF IInv
<1> QED
  BY <1>1, Invariance, PTL

-----------------------------------------------------------------------------
(* What is searched is what the flags leave of the caller's text. *)
CutInv ==
  /\ pc \in {"start", "badc", "suffixes", "prefixes", "inner", "ready", "failed"} => given = <<>> /\ text = <<>>
  /\ given \in Seq(Char)
  /\ text = IF has_glob THEN given ELSE WithoutLast(WithoutFirst(given, eflags), eflags)

LEMMA CutHolds ==
  ASSUME Types, CutInv, [Next]_vars
  PROVE  CutInv'
<1>1. CASE Compile
  <2>1. pc # "window" /\ pc # "compare" /\ pc # "done"
    BY <1>1 DEF Compile, CompileLiteral, CompileFull, OutOfMemory, FillBadChar, StartSuffixes,
       NextSuffix, StartGoodShifts, NextPrefix, StartInner, NextInner, Compiled
  <2>2. UNCHANGED <<given, text>>
    BY <1>1 DEF Compile, CompileLiteral, CompileFull, OutOfMemory, FillBadChar, StartSuffixes,
       NextSuffix, StartGoodShifts, NextPrefix, StartInner, NextInner, Compiled, asked
  <2>3. given' = <<>> /\ text' = <<>>
    BY <2>1, <2>2 DEF CutInv, Types
  <2> QED
    BY <2>3 DEF CutInv, WithoutLast, WithoutFirst
<1>2. CASE Execute
  <2>1. pc' \in {"done", "window"} /\ UNCHANGED <<has_bol, has_eol, has_glob>>
    BY <1>2 DEF Execute, comp
  <2>2. given' \in Seq(Char)
    BY <1>2, InputsAssumption DEF Execute
  <2> QED
    BY <1>2, <2>1, <2>2 DEF CutInv, Execute, WithoutLast, WithoutFirst
<1>3. CASE Search
  <2>1. pc' \in {"window", "compare", "done"}
    BY <1>3 DEF Search, OpenWindow, EndOfText, CompareChar, Mismatch, FullMatch, AnchorsRefuse
  <2>2. UNCHANGED <<given, eflags, text, has_bol, has_eol, has_glob>>
    BY <1>3 DEF Search, OpenWindow, EndOfText, CompareChar, Mismatch, FullMatch, AnchorsRefuse,
       asked, comp
  <2> QED
    BY <2>1, <2>2 DEF CutInv, WithoutLast, WithoutFirst
<1>4. CASE UNCHANGED vars
  BY <1>4 DEF vars, asked, comp, CutInv, WithoutLast, WithoutFirst
<1> QED
  BY <1>1, <1>2, <1>3, <1>4 DEF Next

LEMMA TextIsCut == Spec => []CutInv
<1>1. Init => CutInv
  BY DEF Init, CutInv, WithoutLast, WithoutFirst
<1>2. Types /\ CutInv /\ [Next]_vars => CutInv'
  BY CutHolds
<1> QED
  BY <1>1, <1>2, TypeCorrect, PTL DEF Spec

(* Where nothing is cut off the caller's text is the one searched... *)
LEMMA SameOccurrences ==
  ASSUME CutInv, NothingCutOff, Types
  PROVE  /\ text = given
         /\ \A q \in Nat : OccursInGiven(q) <=> OccursAt(q)
<1>1. text = given
  BY DEF CutInv, NothingCutOff, WithoutLast, WithoutFirst
<1>2. len \in Nat /\ Len(text) \in Nat
  BY PatternTypes
<1>3. ASSUME NEW q \in Nat PROVE OccursInGiven(q) <=> OccursAt(q)
  <2>1. \A x : GivenChar(x) = TextChar(x)
    BY <1>1 DEF GivenChar, TextChar
  <2> QED
    BY <1>1, <1>2, <2>1 DEF OccursInGiven, OccursAt, AnchorsMatch, NothingCutOff
<1> QED
  BY <1>1, <1>3

(* ...and otherwise an occurrence is still there, behind a cut first character *)
(* one place to the left.                                                  *)
LEMMA OccurrenceIsLeft ==
  ASSUME CutInv, Types, ~ has_eol, ~ has_glob, len >= 1,
         NEW q \in Nat, OccursInGiven(q)
  PROVE  \E p \in 0 .. Len(text) : OccursAt(p)
<1>1. len \in Nat /\ Len(text) \in Nat /\ given \in Seq(Char) /\ Len(given) \in Nat
  BY PatternTypes DEF CutInv
<1>2. text = WithoutFirst(given, eflags)
  BY DEF CutInv, WithoutLast
<1>3. CASE ~ (has_bol /\ "REG_NOTBOL" \in eflags)
  <2>1. NothingCutOff
    BY <1>3 DEF NothingCutOff
  <2>2. OccursAt(q) /\ text = given
    BY <2>1, SameOccurrences
  <2>3. q \in 0 .. Len(text)
    BY <1>1, <2>2 DEF OccursAt
  <2> QED
    BY <2>2, <2>3
<1>4. CASE has_bol /\ "REG_NOTBOL" \in eflags
  <2>1. q > 0 /\ GivenChar(q - 1) = Newline /\ q + len <= Len(given)
    BY <1>4 DEF OccursInGiven
  <2>2. text = Tail(given)
    <3>1. given # <<>>
      BY <1>1, <2>1
    <3> QED
      BY <1>2, <1>4, <3>1 DEF WithoutFirst
  <2>3. Len(text) = Len(given) - 1 /\ \A x \in 1 .. Len(text) : text[x] = given[x + 1]
    BY <1>1, <2>1, <2>2
  <2>4. \A x \in 0 .. Len(given) - 2 : TextChar(x) = GivenChar(x + 1)
    <3>1. ASSUME NEW x \in 0 .. Len(given) - 2 PROVE text[x + 1] = given[x + 1 + 1]
      <4>1. x + 1 \in 1 .. Len(text)
        BY <1>1, <2>3
      <4> QED
        BY <2>3, <4>1
    <3> QED
      BY <3>1 DEF TextChar, GivenChar
  <2>5. \A x \in 0 .. len - 1 : PattChar(x) = TextChar(q - 1 + x)
    <3>1. ASSUME NEW x \in 0 .. len - 1 PROVE PattChar(x) = TextChar(q - 1 + x)
      <4>1. q - 1 + x \in 0 .. Len(given) - 2 /\ q - 1 + x + 1 = q + x
        BY <1>1, <2>1
      <4>2. PattChar(x) = GivenChar(q + x)
        BY DEF OccursInGiven
      <4> QED
        BY <2>4, <4>1, <4>2
    <3> QED
      BY <3>1
  <2>6. q - 1 # 0 => TextChar(q - 1 - 1) = Newline
    <3>1. q - 1 # 0 => q - 1 - 1 \in 0 .. Len(given) - 2 /\ q - 1 - 1 + 1 = q - 1
      BY <1>1, <2>1
    <3> QED
      BY <2>1, <2>4, <3>1
  <2>7. q - 1 \in 0 .. Len(text) /\ q - 1 + len <= Len(text)
    BY <1>1, <2>1, <2>3
  <2>8. OccursAt(q - 1)
    BY <2>5, <2>6, <2>7 DEF OccursAt, AnchorsMatch
  <2> QED
    BY <2>7, <2>8
<1> QED
  BY <1>3, <1>4

(* A match that is reported is an occurrence in the caller's text, where the  *)
(* anchors allow it, and but for those patterns the first one; if nothing of  *)
(* the text was cut off.                                                   *)
THEOREM FirstMatchReported == Spec => []ReportsFirst
<1>1. IInv /\ CutInv => ReportsFirst
  <2> SUFFICES ASSUME IInv, CutInv, ret = "REG_OK", NothingCutOff
               PROVE  IF has_glob THEN result = [soffset |-> 0, eoffset |-> Len(given)]
                      ELSE /\ OccursInGiven(result.soffset)
                           /\ result.eoffset = result.soffset + len
                           /\ ShiftsAreSafe =>
                                \A q \in 0 .. result.soffset - 1 : ~ OccursInGiven(q)
    BY DEF ReportsFirst
  <2>1. ReportedInCut /\ Types
    BY DEF IInv, AnswerInv
  <2>2. text = given /\ \A q \in Nat : OccursInGiven(q) <=> OccursAt(q)
    BY <2>1, SameOccurrences
  <2>3. ~ has_glob => result.soffset \in Nat
    BY <2>1 DEF ReportedInCut
  <2> QED
    BY <2>1, <2>2, <2>3 DEF ReportedInCut
<1> QED
  BY <1>1, Invariance, TextIsCut, PTL

(* REG_NOMATCH is returned only if the pattern does not occur in the caller's *)
(* text, but for those patterns, and whatever was cut off for the flags.    *)
THEOREM NoMatchCorrect == Spec => []NoMatchIsTrue
<1>1. IInv /\ CutInv => NoMatchIsTrue
  <2> SUFFICES ASSUME IInv, CutInv, ret = "REG_NOMATCH", ShiftsAreSafe,
                      NEW q \in 0 .. Len(given), OccursInGiven(q)
               PROVE  FALSE
    BY DEF NoMatchIsTrue
  <2>1. Types /\ AbsentInCut
    BY DEF IInv, AnswerInv
  <2>2. ~ has_eol /\ ~ has_glob /\ len >= 1
    <3>1. pc = "done" /\ ~ has_glob
      BY <2>1 DEF IInv, AnswerInv, AbsentInCut, Types
    <3>2. pattern # <<>> /\ ~ has_eol
      BY <3>1 DEF IInv, PatternInv
    <3> QED
      BY <2>1, <3>1, <3>2, PatternTypes DEF Types, len
  <2>3. given \in Seq(Char) /\ q \in Nat
    BY DEF CutInv
  <2>4. PICK p \in 0 .. Len(text) : OccursAt(p)
    BY <2>1, <2>2, <2>3, OccurrenceIsLeft
  <2> QED
    BY <2>1, <2>4 DEF AbsentInCut
<1> QED
  BY <1>1, Invariance, TextIsCut, PTL
=============================================================================
