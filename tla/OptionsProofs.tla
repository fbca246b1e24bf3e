---------------------------- MODULE OptionsProofs ----------------------------
(* Proofs about Options, for all words and program names.                      *)
EXTENDS Options, SequenceTheorems, NaturalsInduction, WellFoundedInduction, TLAPS

(* Words are as getopt_long sees them. *)
WordsInv ==
  /\ argv \in Seq(Word)
  /\ \A w \in DOMAIN argv : WordIsRight(argv[w])
  /\ passed \in Seq(Text)
  /\ nextchar # 1 =>
       /\ optind \in DOMAIN argv /\ argv[optind].kind = "options"
       /\ nextchar <= Len(argv[optind].opts)

(* The options that were read so far, and the flags they ask for. *)
HeaderOptions == {"H", "r", "R", "d recurse"}
Passed(w, n) == w < optind \/ (w = optind /\ n < nextchar)
ReadOf(cs) == \E w \in DOMAIN argv : \E n \in DOMAIN argv[w].opts : Passed(w, n) /\ argv[w].opts[n].c \in cs
Over == \E w \in optind .. Len(argv) + 1 :
          /\ w <= Len(argv) => argv[w].kind = "--"
          /\ \A v \in optind .. w - 1 : argv[v].kind = "operand"

HeaderInv ==
  /\ \A w \in DOMAIN argv : w < optind => argv[w].kind # "--"
  /\ pc \in {"compile", "search"} => Over
  /\ pc \in {"getopt", "read_patterns", "compile"} =>
       /\ hflag <=> ReadOf({"h"})
       /\ ~ hflag => (Hflag <=> ReadOf(HeaderOptions))
  /\ pc = "search" =>
       (hflag <=> ReadOf({"h"}) \/ (Len(files) <= 1 /\ ~ ReadOf(HeaderOptions)))

IInv == TypeOK /\ WordsInv /\ LengthsFit /\ OffsetsWhereUsed /\ HeaderInv
-----------------------------------------------------------------------------
LEMMA LeastWord ==
  ASSUME NEW T \in SUBSET Nat, T # {}
  PROVE  \E x \in T : \A y \in T : x <= y
<1>1. PICK x \in T : \A y \in T : ~ (<<y, x>> \in OpToRel(<, Nat))
  BY WFMin, NatLessThanWellFounded
<1>2. \A y \in T : <<y, x>> \in OpToRel(<, Nat) <=> y < x
  BY DEF OpToRel
<1>3. \A y \in T : ~ (y < x)
  BY <1>1, <1>2, Zenon
<1> QED
  BY <1>3

(* Between the place of getopt_long and the word it takes there are operands.   *)
LEMMA ThisWordIs ==
  ASSUME argv \in Seq(Word), optind \in 1 .. Len(argv) + 1
  PROVE  /\ ThisWord \in optind .. Len(argv) + 1
         /\ ThisWord <= Len(argv) => argv[ThisWord].kind # "operand"
         /\ \A v \in optind .. ThisWord - 1 : argv[v].kind = "operand"
<1> DEFINE T == {w \in optind .. Len(argv) + 1 : w <= Len(argv) => argv[w].kind # "operand"}
<1>1. Len(argv) \in Nat /\ Len(argv) + 1 \in T /\ T \in SUBSET Nat
  OBVIOUS
<1> HIDE DEF T
<1>2. PICK w \in T : \A y \in T : w <= y
  BY <1>1, LeastWord
<1>3. /\ w \in optind .. Len(argv) + 1
      /\ w <= Len(argv) => argv[w].kind # "operand"
  BY <1>2 DEF T
<1>4. ASSUME NEW v \in optind .. w - 1
      PROVE  argv[v].kind = "operand"
  <2>1. v \in optind .. Len(argv) + 1 /\ ~ (w <= v)
    BY <1>1, <1>3
  <2> QED
    BY <1>2, <2>1 DEF T
<1> QED
  BY <1>3, <1>4, Zenon DEF ThisWord

LEMMA OptsAreSeq ==
  ASSUME NEW ws \in Seq(Word), NEW w \in DOMAIN ws
  PROVE  ws[w].opts \in Seq(Opt) /\ ws[w].text \in Text
<1>1. ws[w] \in Word
  OBVIOUS
<1> QED
  BY <1>1, Zenon DEF Word

LEMMA ConcatWords ==
  ASSUME NEW env \in Seq(Word), NEW args \in Seq(Word), argv = env \o args,
         \A n \in DOMAIN env : WordIsRight(env[n]),
         \A n \in DOMAIN args : WordIsRight(args[n])
  PROVE  /\ argv \in Seq(Word)
         /\ \A w \in DOMAIN argv : WordIsRight(argv[w])
<1>1. /\ argv \in Seq(Word) /\ Len(argv) = Len(env) + Len(args)
      /\ \A n \in 1 .. Len(argv) : argv[n] = IF n <= Len(env) THEN env[n] ELSE args[n - Len(env)]
  BY ConcatProperties
<1>2. ASSUME NEW w \in DOMAIN argv
      PROVE  WordIsRight(argv[w])
  <2>1. w \in 1 .. Len(argv) /\ Len(env) \in Nat /\ Len(args) \in Nat
    BY <1>1
  <2>2. CASE w <= Len(env)
    <3>1. w \in DOMAIN env /\ argv[w] = env[w]
      BY <1>1, <2>1, <2>2
    <3> QED
      BY <3>1
  <2>3. CASE ~ (w <= Len(env))
    <3> DEFINE n == w - Len(env)
    <3>1. n \in DOMAIN args /\ argv[w] = args[n]
      BY <1>1, <2>1, <2>3
    <3> QED
      BY <3>1
  <2> QED
    BY <2>2, <2>3
<1> QED
  BY <1>1, <1>2

LEMMA InitIInv == Init => IInv
<1> SUFFICES ASSUME Init PROVE IInv
  OBVIOUS
<1>1. PICK call \in Calls : argv = call.env \o call.args
  BY DEF Init
<1>2. /\ call.env \in Seq(Word) /\ call.args \in Seq(Word)
      /\ \A n \in DOMAIN call.env : WordIsRight(call.env[n])
      /\ \A n \in DOMAIN call.args : WordIsRight(call.args[n])
  BY <1>1, CallsAssumption, Zenon
<1>3. /\ argv \in Seq(Word)
      /\ \A w \in DOMAIN argv : WordIsRight(argv[w])
  BY <1>1, <1>2, ConcatWords
<1>4. /\ pc = "getopt" /\ status = -1 /\ optind = 1 /\ nextchar = 1
      /\ Aflag = 0 /\ Bflag = 0 /\ mcount = 0 /\ mflag = FALSE
      /\ flags = {} /\ Hflag = FALSE /\ hflag = FALSE /\ cflags = {"REG_NOSUB"}
      /\ passed = <<>> /\ lines = <<>> /\ pats = <<>> /\ lens = <<>> /\ matchall = FALSE /\ files = <<>>
  BY DEF Init
<1>5. TypeOK
  <2>1. pats \in Seq(Text) /\ lens \in Seq(Nat) /\ lines \in Seq(Text) /\ files \in Seq(Text)
    BY <1>4
  <2>2. cflags \subseteq {"REG_NOSUB", "REG_ICASE", "REG_WORD", "REG_LITERAL", "REG_EXTENDED"}
    BY <1>4
  <2>3. optind \in 1 .. Len(argv) + 1
    BY <1>3, <1>4
  <2>4. status \in {-1, 0, 1, 2} /\ nextchar \in Nat \ {0}
    BY <1>4
  <2> QED
    BY <1>4, <2>1, <2>2, <2>3, <2>4 DEF TypeOK
<1>6. WordsInv /\ LengthsFit /\ OffsetsWhereUsed
  BY <1>3, <1>4 DEF WordsInv, LengthsFit, OffsetsWhereUsed
<1>7. HeaderInv
  <2>1. optind = 1 /\ nextchar = 1 /\ pc = "getopt" /\ hflag = FALSE /\ Hflag = FALSE
    BY <1>4
  <2>2. \A w \in DOMAIN argv : w \in Nat /\ w >= 1 /\ ~ (w < optind)
    BY <1>3, <2>1
  <2>3. \A w \in DOMAIN argv : \A n \in DOMAIN argv[w].opts : n \in Nat /\ n >= 1
    <3>1. \A w \in DOMAIN argv : argv[w].opts \in Seq(Opt)
      BY <1>3, OptsAreSeq
    <3> QED
      BY <3>1
  <2>4. \A cs : ~ ReadOf(cs)
    BY <2>1, <2>2, <2>3 DEF ReadOf, Passed
  <2> QED
    BY <2>1, <2>2, <2>4 DEF HeaderInv
<1> QED
  BY <1>5, <1>6, <1>7 DEF IInv
-----------------------------------------------------------------------------
(* The option that getopt_long returns. *)
LEMMA OptionHere ==
  ASSUME TypeOK, WordsInv, MoreOptions
  PROVE  /\ ThisWord \in DOMAIN argv /\ ThisWord >= optind /\ ThisWord <= Len(argv)
         /\ argv[ThisWord].kind = "options"
         /\ argv[ThisWord].opts \in Seq(Opt)
         /\ nextchar \in 1 .. Len(argv[ThisWord].opts)
         /\ nextchar # 1 => ThisWord = optind
         /\ opt \in Opt /\ opt = argv[ThisWord].opts[nextchar]
         /\ c = "digit" => opt.num \in 0 .. 9
         /\ \A v \in optind .. ThisWord - 1 :
              v \in DOMAIN argv /\ argv[v].kind = "operand" /\ argv[v].opts = <<>>
<1>1. argv \in Seq(Word) /\ optind \in 1 .. Len(argv) + 1 /\ nextchar \in Nat \ {0}
  BY DEF TypeOK, WordsInv
<1>2. /\ ThisWord \in optind .. Len(argv) + 1
      /\ \A v \in optind .. ThisWord - 1 : argv[v].kind = "operand"
  BY <1>1, ThisWordIs
<1>3. ThisWord <= Len(argv) /\ argv[ThisWord].kind = "options"
  BY DEF MoreOptions
<1> HIDE DEF ThisWord
<1>4. ThisWord \in DOMAIN argv /\ ThisWord >= optind
  BY <1>1, <1>2, <1>3
<1>5. argv[ThisWord].opts \in Seq(Opt)
  BY <1>1, <1>4, OptsAreSeq
<1>6. WordIsRight(argv[ThisWord]) /\ argv[ThisWord].opts # <<>>
  BY <1>3, <1>4 DEF WordsInv, WordIsRight
<1>7. nextchar # 1 => ThisWord = optind
  <2> SUFFICES ASSUME nextchar # 1, ThisWord # optind PROVE FALSE
    OBVIOUS
  <2>1. argv[optind].kind = "options"
    BY DEF WordsInv
  <2>2. optind \in optind .. ThisWord - 1
    BY <1>1, <1>2
  <2> QED
    BY <1>2, <2>1, <2>2
<1>8. nextchar \in 1 .. Len(argv[ThisWord].opts)
  <2>1. CASE nextchar = 1
    BY <1>5, <1>6, <2>1
  <2>2. CASE nextchar # 1
    BY <1>1, <1>5, <1>7, <2>2 DEF WordsInv
  <2> QED
    BY <2>1, <2>2
<1>9. opt \in Opt /\ opt = argv[ThisWord].opts[nextchar]
  BY <1>5, <1>8 DEF opt
<1>10. c = "digit" => opt.num \in 0 .. 9
  <2>1. nextchar \in DOMAIN argv[ThisWord].opts
    BY <1>5, <1>8
  <2> QED
    BY <1>6, <1>9, <2>1 DEF c, WordIsRight, OptionIsRight
<1>11. \A v \in optind .. ThisWord - 1 :
         v \in DOMAIN argv /\ argv[v].kind = "operand" /\ argv[v].opts = <<>>
  <2> SUFFICES ASSUME NEW v \in optind .. ThisWord - 1
               PROVE  v \in DOMAIN argv /\ argv[v].kind = "operand" /\ argv[v].opts = <<>>
    OBVIOUS
  <2>1. v \in DOMAIN argv
    BY <1>1, <1>2
  <2> QED
    BY <1>2, <2>1 DEF WordsInv, WordIsRight
<1> QED
  BY <1>3, <1>4, <1>5, <1>7, <1>8, <1>9, <1>10, <1>11

(* The operands that were passed over are texts. *)
LEMMA TextsAreTexts ==
  ASSUME NEW ws \in Seq(Word)
  PROVE  TextsOf(ws) \in Seq(Text)
<1>1. \A n \in DOMAIN ws : ws[n].text \in Text
  BY OptsAreSeq
<1> QED
  BY <1>1 DEF TextsOf

LEMMA PassedAreTexts ==
  ASSUME TypeOK, WordsInv
  PROVE  PassedNow \in Seq(Text) /\ Operands \in Seq(Text)
<1>1. argv \in Seq(Word) /\ optind \in 1 .. Len(argv) + 1 /\ passed \in Seq(Text)
  BY DEF TypeOK, WordsInv
<1>2. ThisWord \in optind .. Len(argv) + 1
  BY <1>1, ThisWordIs
<1> HIDE DEF ThisWord
<1>3. SubSeq(argv, optind, ThisWord - 1) \in Seq(Word) /\ SubSeq(argv, ThisWord + 1, Len(argv)) \in Seq(Word)
  BY <1>1, <1>2, SubSeqProperties
<1>4. TextsOf(SubSeq(argv, optind, ThisWord - 1)) \in Seq(Text)
  BY <1>3, TextsAreTexts
<1>5. TextsOf(SubSeq(argv, ThisWord + 1, Len(argv))) \in Seq(Text)
  BY <1>3, TextsAreTexts
<1>6. PassedNow \in Seq(Text)
  BY <1>1, <1>4, ConcatProperties DEF PassedNow
<1> QED
  BY <1>5, <1>6, ConcatProperties DEF Operands

(* getopt_long goes on to the next option. *)
LEMMA Advance ==
  ASSUME TypeOK, WordsInv, MoreOptions, NextOption, argv' = argv
  PROVE  /\ optind' \in 1 .. Len(argv') + 1 /\ nextchar' \in Nat \ {0}
         /\ WordsInv'
<1>1. argv \in Seq(Word) /\ optind \in 1 .. Len(argv) + 1 /\ nextchar \in Nat \ {0}
  BY DEF TypeOK, WordsInv
<1>2. /\ ThisWord \in DOMAIN argv /\ argv[ThisWord].kind = "options"
      /\ argv[ThisWord].opts \in Seq(Opt)
      /\ nextchar \in 1 .. Len(argv[ThisWord].opts)
  BY OptionHere
<1>3. passed' \in Seq(Text)
  BY PassedAreTexts DEF NextOption
<1>4. IF nextchar < Len(argv[ThisWord].opts)
      THEN optind' = ThisWord /\ nextchar' = nextchar + 1
      ELSE optind' = ThisWord + 1 /\ nextchar' = 1
  BY DEF NextOption
<1> HIDE DEF ThisWord
<1>5. optind' \in 1 .. Len(argv') + 1 /\ nextchar' \in Nat \ {0}
  BY <1>1, <1>2, <1>4
<1>6. nextchar' # 1 =>
        /\ optind' \in DOMAIN argv /\ argv[optind'].kind = "options"
        /\ nextchar' <= Len(argv[optind'].opts)
  BY <1>1, <1>2, <1>4
<1> QED
  BY <1>3, <1>5, <1>6 DEF WordsInv

(* One more option is read than before, and "--" is not passed. *)
LEMMA AdvancePasses ==
  ASSUME TypeOK, WordsInv, MoreOptions, NextOption, argv' = argv,
         NEW CONSTANT w \in DOMAIN argv, NEW CONSTANT n \in DOMAIN argv[w].opts
  PROVE  Passed(w, n)' <=> Passed(w, n) \/ (w = ThisWord /\ n = nextchar)
<1>1. argv \in Seq(Word) /\ optind \in 1 .. Len(argv) + 1 /\ nextchar \in Nat \ {0}
  BY DEF TypeOK, WordsInv
<1>2. /\ ThisWord \in DOMAIN argv /\ ThisWord >= optind
      /\ argv[ThisWord].opts \in Seq(Opt)
      /\ nextchar \in 1 .. Len(argv[ThisWord].opts)
      /\ nextchar # 1 => ThisWord = optind
      /\ \A v \in optind .. ThisWord - 1 : argv[v].opts = <<>>
  BY OptionHere
<1>3. IF nextchar < Len(argv[ThisWord].opts)
      THEN optind' = ThisWord /\ nextchar' = nextchar + 1
      ELSE optind' = ThisWord + 1 /\ nextchar' = 1
  BY DEF NextOption
<1> HIDE DEF ThisWord
<1>4. w \in 1 .. Len(argv) /\ argv[w].opts \in Seq(Opt)
  BY <1>1, OptsAreSeq
<1>5. n \in 1 .. Len(argv[w].opts) /\ Len(argv[w].opts) \in Nat
  BY <1>4
<1>6. ~ (w \in optind .. ThisWord - 1)
  <2> SUFFICES ASSUME w \in optind .. ThisWord - 1 PROVE FALSE
    OBVIOUS
  <2>1. argv[w].opts = <<>>
    BY <1>2
  <2> QED
    BY <1>5, <2>1
<1>7. ThisWord \in Nat
  BY <1>1, <1>2
<1>8. CASE w = ThisWord
  BY <1>1, <1>2, <1>3, <1>4, <1>5, <1>7, <1>8 DEF Passed
<1>9. CASE w # ThisWord
  BY <1>1, <1>2, <1>3, <1>4, <1>5, <1>6, <1>7, <1>9 DEF Passed
<1> QED
  BY <1>8, <1>9

LEMMA AdvanceReads ==
  ASSUME TypeOK, WordsInv, MoreOptions, NextOption, argv' = argv, NEW CONSTANT cs
  PROVE  ReadOf(cs)' <=> ReadOf(cs) \/ c \in cs
<1>1. /\ ThisWord \in DOMAIN argv
      /\ argv[ThisWord].opts \in Seq(Opt)
      /\ nextchar \in 1 .. Len(argv[ThisWord].opts)
      /\ c = argv[ThisWord].opts[nextchar].c
  BY OptionHere DEF c
<1> HIDE DEF ThisWord, c
<1>2. \A w \in DOMAIN argv : \A n \in DOMAIN argv[w].opts :
        Passed(w, n)' <=> Passed(w, n) \/ (w = ThisWord /\ n = nextchar)
  BY AdvancePasses
<1>3. nextchar \in DOMAIN argv[ThisWord].opts
  BY <1>1
<1> QED
  BY <1>1, <1>2, <1>3, Zenon DEF ReadOf

LEMMA AdvanceWithin ==
  ASSUME TypeOK, WordsInv, MoreOptions, NextOption, argv' = argv,
         \A w \in DOMAIN argv : w < optind => argv[w].kind # "--"
  PROVE  \A w \in DOMAIN argv' : w < optind' => argv'[w].kind # "--"
<1>1. argv \in Seq(Word) /\ optind \in 1 .. Len(argv) + 1
  BY DEF TypeOK, WordsInv
<1>2. /\ ThisWord \in DOMAIN argv /\ ThisWord >= optind /\ argv[ThisWord].kind = "options"
      /\ \A v \in optind .. ThisWord - 1 : argv[v].kind = "operand"
  BY OptionHere
<1>3. optind' = ThisWord \/ optind' = ThisWord + 1
  BY DEF NextOption
<1> HIDE DEF ThisWord
<1> SUFFICES ASSUME NEW w \in DOMAIN argv, w < optind' PROVE argv[w].kind # "--"
  OBVIOUS
<1>4. CASE w < optind
  BY <1>4
<1>5. CASE w \in optind .. ThisWord - 1
  BY <1>2, <1>5
<1>6. CASE w = ThisWord
  BY <1>2, <1>6
<1> QED
  BY <1>1, <1>2, <1>3, <1>4, <1>5, <1>6
-----------------------------------------------------------------------------
(* The parts of TypeOK that options set, and the others. *)
SettingTypes ==
  /\ Aflag \in Nat /\ Bflag \in Nat /\ mcount \in Nat /\ mflag \in BOOLEAN
  /\ Hflag \in BOOLEAN /\ hflag \in BOOLEAN
  /\ cflags \subseteq {"REG_NOSUB", "REG_ICASE", "REG_WORD", "REG_LITERAL", "REG_EXTENDED"}
PatternTypes ==
  /\ matchall \in BOOLEAN
  /\ pats \in Seq(Text) /\ lens \in Seq(Nat) /\ lines \in Seq(Text) /\ files \in Seq(Text)
PlaceTypes ==
  /\ pc \in {"getopt", "read_patterns", "compile", "search", "exited"}
  /\ status \in {-1, 0, 1, 2}
  /\ optind \in 1 .. Len(argv) + 1
  /\ nextchar \in Nat \ {0}

LEMMA TypesAreAll == TypeOK <=> SettingTypes /\ PatternTypes /\ PlaceTypes
BY DEF TypeOK, SettingTypes, PatternTypes, PlaceTypes

LEMMA TypesAreAllNext == TypeOK' <=> SettingTypes' /\ PatternTypes' /\ PlaceTypes'
BY DEF TypeOK, SettingTypes, PatternTypes, PlaceTypes

(* What asks for offsets, without the set. *)
Asks == "o" \in flags \/ "x" \in flags \/ "color" \in flags \/ "REG_WORD" \in cflags

LEMMA OffsetsAsked == OffsetsWhereUsed <=> (Asks => "REG_NOSUB" \notin cflags)
BY DEF OffsetsWhereUsed, Asks

LEMMA OffsetsAskedNext == OffsetsWhereUsed' <=> (Asks' => "REG_NOSUB" \notin cflags')
BY DEF OffsetsWhereUsed, Asks

(* The arguments that are no numbers were refused. *)
LEMMA NumbersAreNat ==
  ASSUME opt \in Opt, opt.num # Invalid
  PROVE  opt.num \in Nat
<1>1. opt.num \in Nat \cup {Invalid}
  BY DEF Opt
<1> QED
  BY <1>1

(* What an option does to the settings. *)
LEMMA SettingsKeep ==
  ASSUME IInv, Settings
  PROVE  /\ SettingTypes' /\ OffsetsWhereUsed'
         /\ hflag' <=> hflag \/ c = "h"
         /\ c # "h" => (Hflag' <=> Hflag \/ c \in HeaderOptions)
<1> USE DEF context, limit, headers, names
<1>1. /\ TypeOK /\ WordsInv /\ SettingTypes
      /\ Asks => "REG_NOSUB" \notin cflags
  BY TypesAreAll, OffsetsAsked DEF IInv
<1>2. MoreOptions
  BY DEF Settings, Setting, Digit, Context, DefaultContext, MaxCount, Flag, IgnoreCase, OnlyMatching, WordMatch,
         Color, Headers, Behave, NamePattern
<1>3. opt \in Opt /\ (c = "digit" => opt.num \in 0 .. 9)
  BY <1>1, <1>2, OptionHere
<1> HIDE DEF c, opt
<1>4. CASE Digit
  <2>1. opt.num \in Nat
    BY <1>3, <1>4 DEF Digit
  <2>2. Aflag' \in Nat /\ Bflag' \in Nat
    BY <1>1, <1>4, <2>1 DEF Digit, SettingTypes
  <2> QED
    BY <1>1, <1>4, <2>2, OffsetsAskedNext DEF Digit, SettingTypes, Asks, HeaderOptions
<1>5. CASE Context
  <2>1. opt.num \in Nat
    BY <1>3, <1>5, NumbersAreNat DEF Context
  <2> QED
    BY <1>1, <1>5, <2>1, OffsetsAskedNext DEF Context, SettingTypes, Asks, HeaderOptions
<1>6. CASE DefaultContext
  BY <1>1, <1>6, OffsetsAskedNext DEF DefaultContext, SettingTypes, Asks, HeaderOptions
<1>7. CASE MaxCount
  <2>1. opt.num \in Nat
    BY <1>3, <1>7, NumbersAreNat DEF MaxCount
  <2> QED
    BY <1>1, <1>7, <2>1, OffsetsAskedNext DEF MaxCount, SettingTypes, Asks, HeaderOptions
<1>8. CASE Flag
  BY <1>1, <1>8, OffsetsAskedNext DEF Flag, PlainFlags, SettingTypes, Asks, HeaderOptions
<1>9. CASE IgnoreCase
  BY <1>1, <1>9, OffsetsAskedNext DEF IgnoreCase, SettingTypes, Asks, HeaderOptions
<1>10. CASE OnlyMatching
  BY <1>1, <1>10, OffsetsAskedNext DEF OnlyMatching, SettingTypes, Asks, HeaderOptions
<1>11. CASE WordMatch
  BY <1>1, <1>11, OffsetsAskedNext DEF WordMatch, SettingTypes, Asks, HeaderOptions
<1>12. CASE Color
  BY <1>1, <1>12, OffsetsAskedNext DEF Color, SettingTypes, Asks, HeaderOptions
<1>13. CASE Headers
  <2>1. UNCHANGED <<context, limit, flags, cflags>>
    BY <1>13 DEF Headers
  <2>2. CASE c = "H" /\ Hflag' = TRUE /\ UNCHANGED hflag
    BY <1>1, <2>1, <2>2, OffsetsAskedNext DEF SettingTypes, Asks, HeaderOptions
  <2>3. CASE c = "h" /\ Hflag' = FALSE /\ hflag' = TRUE
    BY <1>1, <2>1, <2>3, OffsetsAskedNext DEF SettingTypes, Asks, HeaderOptions
  <2> QED
    BY <1>13, <2>2, <2>3 DEF Headers, NoHeaders
<1>14. CASE Behave
  <2>1. c \notin {"h", "H"} /\ (Hflag' <=> Hflag \/ c \in Recursive) /\ Hflag' \in BOOLEAN
    BY <1>14 DEF Behave, BehaviourOptions, Recursive
  <2> QED
    BY <1>1, <1>14, <2>1, OffsetsAskedNext DEF Behave, SettingTypes, Asks, HeaderOptions, Recursive
<1>15. CASE NamePattern
  BY <1>1, <1>15, OffsetsAskedNext DEF NamePattern, SettingTypes, Asks, HeaderOptions
<1> QED
  BY <1>4, <1>5, <1>6, <1>7, <1>8, <1>9, <1>10, <1>11, <1>12, <1>13, <1>14, <1>15 DEF Settings

(* A pattern is added with its length. *)
LEMMA AddKeeps ==
  ASSUME TypeOK, LengthsFit, NEW text \in Text, add_pattern(text)
  PROVE  /\ matchall' \in BOOLEAN /\ pats' \in Seq(Text) /\ lens' \in Seq(Nat)
         /\ pats' # <<>>
         /\ IF matchall' THEN pats' = << <<>> >>
            ELSE DOMAIN lens' = DOMAIN pats' /\ \A n \in DOMAIN pats' : lens'[n] = Len(pats'[n])
<1>1. matchall \in BOOLEAN /\ pats \in Seq(Text) /\ lens \in Seq(Nat)
  BY DEF TypeOK
<1>2. CASE matchall /\ UNCHANGED patterns
  <2>1. pats = << <<>> >>
    BY <1>2 DEF LengthsFit
  <2>2. pats' = pats /\ lens' = lens /\ matchall' = matchall
    BY <1>2 DEF patterns
  <2>3. pats' # <<>>
    BY <2>1, <2>2
  <2> QED
    BY <1>1, <1>2, <2>1, <2>2, <2>3
<1>3. CASE ~ matchall /\ text = <<>> /\ pats' = <<text>> /\ matchall' = TRUE /\ UNCHANGED lens
  BY <1>1, <1>3
<1>4. CASE /\ ~ matchall /\ text # <<>>
           /\ pats' = Append(pats, Chopped(text))
           /\ lens' = Append(lens, LengthOf(text))
           /\ UNCHANGED matchall
  <2>1. text \in Seq(Char) /\ Len(text) \in Nat /\ Len(text) > 0
    BY <1>4 DEF Text
  <2>2. SubSeq(text, 1, Len(text) - 1) \in Seq(Char)
    BY <2>1, SubSeqProperties
  <2>3. Chopped(text) \in Text
    BY <2>2 DEF Chopped, Text
  <2>4. LengthOf(text) = Len(Chopped(text)) /\ LengthOf(text) \in Nat
    BY <2>3 DEF LengthOf, Text
  <2>5. DOMAIN lens = DOMAIN pats /\ \A n \in DOMAIN pats : lens[n] = Len(pats[n])
    BY <1>4 DEF LengthsFit
  <2>6. Len(lens) = Len(pats)
    BY <1>1, <2>5
  <2> DEFINE added == Chopped(text)
  <2> HIDE DEF added
  <2>7. pats' = Append(pats, added) /\ lens' = Append(lens, Len(added)) /\ added \in Text /\ Len(added) \in Nat
    BY <1>4, <2>3, <2>4 DEF added
  <2>8. /\ pats' \in Seq(Text) /\ lens' \in Seq(Nat) /\ pats' # <<>>
        /\ DOMAIN lens' = DOMAIN pats'
    BY <1>1, <2>6, <2>7
  <2>9. ASSUME NEW n \in DOMAIN pats' PROVE lens'[n] = Len(pats'[n])
    BY <1>1, <2>5, <2>6, <2>7
  <2> QED
    BY <1>1, <1>4, <2>8, <2>9
<1> QED
  BY <1>2, <1>3, <1>4 DEF add_pattern
-----------------------------------------------------------------------------
(* Whatever leaves the place of getopt_long alone leaves what was read alone.   *)
LEMMA PlaceStays ==
  ASSUME UNCHANGED <<argv, optind, nextchar, passed>>
  PROVE  /\ WordsInv => WordsInv'
         /\ Over => Over'
         /\ \A cs : ReadOf(cs)' <=> ReadOf(cs)
<1>1. \A w, n : Passed(w, n)' <=> Passed(w, n)
  BY DEF Passed
<1>2. \A cs : ReadOf(cs)' <=> ReadOf(cs)
  BY <1>1 DEF ReadOf
<1> QED
  BY <1>2 DEF WordsInv, Over

(* Where the options are over there is "--" or nothing. *)
LEMMA OptionsOverThere ==
  ASSUME TypeOK, WordsInv, OptionsOver
  PROVE  Over
<1>1. argv \in Seq(Word) /\ optind \in 1 .. Len(argv) + 1
  BY DEF TypeOK, WordsInv
<1>2. /\ ThisWord \in optind .. Len(argv) + 1
      /\ ThisWord <= Len(argv) => argv[ThisWord].kind # "operand"
      /\ \A v \in optind .. ThisWord - 1 : argv[v].kind = "operand"
  BY <1>1, ThisWordIs
<1>3. ThisWord <= Len(argv) => argv[ThisWord].kind # "options"
  BY DEF OptionsOver, MoreOptions
<1> HIDE DEF ThisWord
<1>4. ASSUME ThisWord <= Len(argv) PROVE argv[ThisWord].kind = "--"
  <2>1. ThisWord \in DOMAIN argv
    BY <1>1, <1>2, <1>4
  <2>2. argv[ThisWord] \in Word
    BY <1>1, <2>1
  <2>3. argv[ThisWord].kind \in {"options", "--", "operand"}
    BY <2>2, Zenon DEF Word
  <2> QED
    BY <1>2, <1>3, <1>4, <2>3
<1> QED
  BY <1>2, <1>4 DEF Over

LEMMA SettingsStep ==
  ASSUME IInv, Settings
  PROVE  IInv'
<1>1. TypeOK /\ WordsInv /\ LengthsFit /\ HeaderInv
  BY DEF IInv
<1>2. Setting
  BY DEF Settings, Digit, Context, DefaultContext, MaxCount, Flag, IgnoreCase, OnlyMatching, WordMatch,
         Color, Headers, Behave, NamePattern
<1>3. /\ MoreOptions /\ NextOption /\ pc = "getopt"
      /\ UNCHANGED <<argv, pc, status, lines, pats, lens, matchall, files>>
  BY <1>2 DEF Setting, MoreOptions, patterns
<1>4. /\ optind' \in 1 .. Len(argv') + 1 /\ nextchar' \in Nat \ {0}
      /\ WordsInv'
  BY <1>1, <1>3, Advance
<1>5. SettingTypes' /\ OffsetsWhereUsed'
  BY SettingsKeep
<1>6. PatternTypes' /\ PlaceTypes'
  BY <1>1, <1>3, <1>4, TypesAreAll DEF PatternTypes, PlaceTypes
<1>7. TypeOK'
  BY <1>5, <1>6, TypesAreAllNext
<1>8. LengthsFit'
  BY <1>1, <1>3 DEF LengthsFit
<1>9. HeaderInv'
  <2>1. \A w \in DOMAIN argv' : w < optind' => argv'[w].kind # "--"
    BY <1>1, <1>3, AdvanceWithin DEF HeaderInv
  <2>2. ReadOf({"h"})' <=> ReadOf({"h"}) \/ c = "h"
    BY <1>1, <1>3, AdvanceReads
  <2>3. ReadOf(HeaderOptions)' <=> ReadOf(HeaderOptions) \/ c \in HeaderOptions
    BY <1>1, <1>3, AdvanceReads
  <2>4. /\ hflag <=> ReadOf({"h"})
        /\ ~ hflag => (Hflag <=> ReadOf(HeaderOptions))
    BY <1>1, <1>3 DEF HeaderInv
  <2>5. /\ hflag' <=> hflag \/ c = "h"
        /\ c # "h" => (Hflag' <=> Hflag \/ c \in HeaderOptions)
    BY SettingsKeep
  <2> HIDE DEF ReadOf, c, HeaderOptions
  <2>6. /\ hflag' <=> ReadOf({"h"})'
        /\ ~ hflag' => (Hflag' <=> ReadOf(HeaderOptions)')
    BY <2>2, <2>3, <2>4, <2>5
  <2> QED
    BY <1>3, <2>1, <2>6 DEF HeaderInv
<1> QED
  BY <1>4, <1>5, <1>7, <1>8, <1>9 DEF IInv

(* A pattern is an option, too; it asks for no headers. *)
LEMMA PatternStep ==
  ASSUME IInv, Pattern \/ PatternFile
  PROVE  IInv'
<1>1. TypeOK /\ WordsInv /\ LengthsFit /\ HeaderInv /\ OffsetsWhereUsed
  BY DEF IInv
<1>2. /\ MoreOptions /\ NextOption /\ pc = "getopt" /\ pc' \in {"getopt", "read_patterns"}
      /\ c \in {"e", "f"}
      /\ UNCHANGED <<argv, status, Aflag, Bflag, mcount, mflag, flags, Hflag, hflag, cflags, files>>
  BY DEF Pattern, PatternFile, MoreOptions, settings, context, limit, headers
<1>3. /\ optind' \in 1 .. Len(argv') + 1 /\ nextchar' \in Nat \ {0}
      /\ WordsInv'
  BY <1>1, <1>2, Advance
<1>4. opt \in Opt
  BY <1>1, <1>2, OptionHere
<1>5. /\ matchall' \in BOOLEAN /\ pats' \in Seq(Text) /\ lens' \in Seq(Nat) /\ lines' \in Seq(Text)
      /\ LengthsFit'
  <2>1. CASE Pattern
    <3>1. opt.text \in Text
      BY <1>4, Zenon DEF Opt
    <3>2. add_pattern(opt.text) /\ lines' = lines
      BY <2>1 DEF Pattern
    <3> HIDE DEF opt, add_pattern
    <3>3. lines' \in Seq(Text)
      BY <1>1, <3>2 DEF TypeOK
    <3> QED
      BY <1>1, <1>2, <3>1, <3>2, <3>3, AddKeeps DEF LengthsFit
  <2>2. CASE PatternFile
    <3>1. opt.lines \in Seq(Text \ {<<>>})
      BY <1>4, Zenon DEF Opt
    <3>2. opt.lines \in Seq(Text)
      BY <3>1
    <3>3. /\ lines' = <<>> \/ lines' = opt.lines
          /\ UNCHANGED <<pats, lens, matchall>>
      BY <2>2 DEF PatternFile, patterns
    <3>4. <<>> \in Seq(Text)
      OBVIOUS
    <3>5. lines' \in Seq(Text)
      BY <3>2, <3>3, <3>4, Zenon
    <3> QED
      BY <1>1, <1>2, <3>3, <3>5 DEF LengthsFit, TypeOK
  <2> QED
    BY <2>1, <2>2
<1>6. TypeOK'
  <2>1. SettingTypes'
    BY <1>1, <1>2, TypesAreAll DEF SettingTypes
  <2>2. PatternTypes'
    BY <1>1, <1>2, <1>5 DEF PatternTypes, TypeOK
  <2>3. PlaceTypes'
    BY <1>1, <1>2, <1>3 DEF PlaceTypes, TypeOK
  <2> QED
    BY <2>1, <2>2, <2>3, TypesAreAllNext
<1>7. OffsetsWhereUsed'
  BY <1>1, <1>2 DEF OffsetsWhereUsed
<1>8. HeaderInv'
  <2>1. \A w \in DOMAIN argv' : w < optind' => argv'[w].kind # "--"
    BY <1>1, <1>2, AdvanceWithin DEF HeaderInv
  <2>2. ReadOf({"h"})' <=> ReadOf({"h"})
    BY <1>1, <1>2, AdvanceReads
  <2>3. ReadOf(HeaderOptions)' <=> ReadOf(HeaderOptions)
    BY <1>1, <1>2, AdvanceReads DEF HeaderOptions
  <2>4. /\ hflag <=> ReadOf({"h"})
        /\ ~ hflag => (Hflag <=> ReadOf(HeaderOptions))
    BY <1>1, <1>2 DEF HeaderInv
  <2> HIDE DEF ReadOf, c, HeaderOptions
  <2> QED
    BY <1>2, <2>1, <2>2, <2>3, <2>4 DEF HeaderInv
<1> QED
  BY <1>3, <1>5, <1>6, <1>7, <1>8 DEF IInv

LEMMA LineStep ==
  ASSUME IInv, ReadPattern \/ PatternsRead
  PROVE  IInv'
<1>1. TypeOK /\ WordsInv /\ LengthsFit /\ HeaderInv /\ OffsetsWhereUsed
  BY DEF IInv
<1>2. /\ pc = "read_patterns" /\ pc' \in {"getopt", "read_patterns"}
      /\ UNCHANGED <<argv, status, optind, nextchar, passed, Aflag, Bflag, mcount, mflag, flags, Hflag, hflag,
                     cflags, files>>
  BY DEF ReadPattern, PatternsRead, getopt, settings, context, limit, headers
<1>3. WordsInv' /\ (\A cs : ReadOf(cs)' <=> ReadOf(cs))
  BY <1>1, <1>2, PlaceStays
<1>4. /\ matchall' \in BOOLEAN /\ pats' \in Seq(Text) /\ lens' \in Seq(Nat) /\ lines' \in Seq(Text)
      /\ LengthsFit'
  <2>1. CASE ReadPattern
    <3>1. lines \in Seq(Text) /\ lines # <<>> /\ lines' = Tail(lines) /\ add_pattern(LinePattern(Head(lines)))
      BY <1>1, <2>1 DEF ReadPattern, TypeOK
    <3>2. Head(lines) \in Text /\ Tail(lines) \in Seq(Text)
      BY <3>1, HeadTailProperties
    <3>3. LinePattern(Head(lines)) \in Text
      BY <3>2 DEF LinePattern, Text
    <3> HIDE DEF add_pattern
    <3> QED
      BY <1>1, <1>2, <3>1, <3>2, <3>3, AddKeeps DEF LengthsFit
  <2>2. CASE PatternsRead
    BY <1>1, <1>2, <2>2 DEF PatternsRead, patterns, LengthsFit, TypeOK
  <2> QED
    BY <2>1, <2>2
<1>5. TypeOK'
  <2>1. SettingTypes'
    BY <1>1, <1>2, TypesAreAll DEF SettingTypes
  <2>2. PatternTypes'
    BY <1>1, <1>2, <1>4 DEF PatternTypes, TypeOK
  <2>3. PlaceTypes'
    BY <1>1, <1>2 DEF PlaceTypes, TypeOK
  <2> QED
    BY <2>1, <2>2, <2>3, TypesAreAllNext
<1>6. OffsetsWhereUsed'
  BY <1>1, <1>2 DEF OffsetsWhereUsed
<1>7. HeaderInv'
  BY <1>1, <1>2, <1>3 DEF HeaderInv
<1> QED
  BY <1>3, <1>4, <1>5, <1>6, <1>7 DEF IInv

(* The options are over: the pattern may be the first operand. *)
LEMMA DoneStep ==
  ASSUME IInv, OptionsDone
  PROVE  IInv'
<1>1. TypeOK /\ WordsInv /\ LengthsFit /\ HeaderInv /\ OffsetsWhereUsed
  BY DEF IInv
<1>2. /\ OptionsOver /\ pc = "getopt" /\ pc' = "compile"
      /\ UNCHANGED <<argv, status, optind, nextchar, passed, Aflag, Bflag, mcount, mflag, flags, Hflag, hflag,
                     lines>>
      /\ cflags' = cflags \cup Syntax
      /\ IF needpattern THEN Operands # <<>> ELSE pats # <<>>
      /\ TakePattern
  BY DEF OptionsDone, OptionsOver, getopt, context, limit, headers
<1> HIDE DEF OptionsOver, TakePattern, Syntax
<1>3. WordsInv' /\ Over' /\ (\A cs : ReadOf(cs)' <=> ReadOf(cs))
  BY <1>1, <1>2, PlaceStays, OptionsOverThere
<1>4. /\ matchall' \in BOOLEAN /\ pats' \in Seq(Text) /\ lens' \in Seq(Nat) /\ files' \in Seq(Text)
      /\ pats' # <<>>
      /\ LengthsFit'
  <2>1. Operands \in Seq(Text)
    BY <1>1, PassedAreTexts
  <2>2. CASE needpattern
    <3> DEFINE text == Head(Operands)
    <3>1. Operands # <<>> /\ add_pattern(text) /\ files' = Tail(Operands)
      BY <1>2, <2>2 DEF TakePattern
    <3> HIDE DEF add_pattern, Operands
    <3>2. text \in Text /\ files' \in Seq(Text)
      BY <2>1, <3>1, HeadTailProperties
    <3> HIDE DEF text
    <3> QED
      BY <1>1, <3>1, <3>2, AddKeeps DEF LengthsFit
  <2>3. CASE ~ needpattern
    <3>1. pats # <<>> /\ files' = Operands /\ pats' = pats /\ lens' = lens /\ matchall' = matchall
      BY <1>2, <2>3 DEF TakePattern, patterns
    <3> QED
      BY <1>1, <2>1, <3>1 DEF LengthsFit, TypeOK
  <2> QED
    BY <2>2, <2>3
<1>5. /\ cflags' \subseteq {"REG_NOSUB", "REG_ICASE", "REG_WORD", "REG_LITERAL", "REG_EXTENDED"}
      /\ "REG_NOSUB" \in cflags' => "REG_NOSUB" \in cflags
      /\ "REG_WORD" \in cflags' => "REG_WORD" \in cflags
  <2>1. Syntax \subseteq {"REG_LITERAL", "REG_EXTENDED"}
    BY DEF Syntax
  <2> QED
    BY <1>1, <1>2, <2>1 DEF TypeOK
<1>6. TypeOK'
  <2>1. SettingTypes'
    BY <1>1, <1>2, <1>5, TypesAreAll DEF SettingTypes
  <2>2. PatternTypes'
    BY <1>1, <1>2, <1>4 DEF PatternTypes, TypeOK
  <2>3. PlaceTypes'
    BY <1>1, <1>2 DEF PlaceTypes, TypeOK
  <2> QED
    BY <2>1, <2>2, <2>3, TypesAreAllNext
<1>7. OffsetsWhereUsed'
  <2>1. Asks => "REG_NOSUB" \notin cflags
    BY <1>1, OffsetsAsked
  <2> QED
    BY <1>2, <1>5, <2>1, OffsetsAskedNext DEF Asks
<1>8. HeaderInv'
  BY <1>1, <1>2, <1>3 DEF HeaderInv
<1> QED
  BY <1>3, <1>4, <1>6, <1>7, <1>8 DEF IInv

LEMMA CompiledStep ==
  ASSUME IInv, Compiled
  PROVE  IInv'
<1>1. TypeOK /\ WordsInv /\ LengthsFit /\ HeaderInv /\ OffsetsWhereUsed
  BY DEF IInv
<1>2. /\ pc = "compile" /\ pc' = "search"
      /\ hflag' = (hflag \/ (Len(files) <= 1 /\ ~ Hflag))
      /\ UNCHANGED <<argv, status, optind, nextchar, passed, Aflag, Bflag, mcount, mflag, flags, Hflag, cflags,
                     lines, pats, lens, matchall, files>>
  BY DEF Compiled, getopt, context, limit, patterns
<1>3. WordsInv' /\ (Over => Over') /\ (\A cs : ReadOf(cs)' <=> ReadOf(cs))
  BY <1>1, <1>2, PlaceStays
<1>4. TypeOK' /\ LengthsFit' /\ OffsetsWhereUsed'
  BY <1>1, <1>2 DEF TypeOK, LengthsFit, OffsetsWhereUsed
<1>5. HeaderInv'
  <2>1. /\ \A w \in DOMAIN argv : w < optind => argv[w].kind # "--"
        /\ Over
        /\ hflag <=> ReadOf({"h"})
        /\ ~ hflag => (Hflag <=> ReadOf(HeaderOptions))
    BY <1>1, <1>2 DEF HeaderInv
  <2> HIDE DEF ReadOf, Over, HeaderOptions
  <2>2. hflag' <=> ReadOf({"h"}) \/ (Len(files) <= 1 /\ ~ ReadOf(HeaderOptions))
    BY <1>2, <2>1
  <2> QED
    BY <1>2, <1>3, <2>1, <2>2 DEF HeaderInv
<1> QED
  BY <1>3, <1>4, <1>5 DEF IInv

LEMMA ExitStep ==
  ASSUME IInv, NEW CONSTANT code \in {0, 1, 2}, Exit(code)
  PROVE  IInv'
<1>1. TypeOK /\ WordsInv /\ LengthsFit /\ HeaderInv /\ OffsetsWhereUsed
  BY DEF IInv
<1>2. /\ pc' = "exited" /\ status' \in {0, 1, 2}
      /\ UNCHANGED <<argv, optind, nextchar, passed, Aflag, Bflag, mcount, mflag, flags, Hflag, hflag, cflags,
                     lines, pats, lens, matchall, files>>
  BY DEF Exit, getopt, settings, context, limit, headers, patterns
<1>3. WordsInv'
  BY <1>1, <1>2, PlaceStays
<1>4. TypeOK' /\ LengthsFit' /\ OffsetsWhereUsed' /\ HeaderInv'
  BY <1>1, <1>2 DEF TypeOK, LengthsFit, OffsetsWhereUsed, HeaderInv
<1> QED
  BY <1>3, <1>4 DEF IInv

LEMMA NextIInv == IInv /\ [Next]_vars => IInv'
<1> SUFFICES ASSUME IInv, [Next]_vars PROVE IInv'
  OBVIOUS
<1>1. CASE Settings
  BY <1>1, SettingsStep
<1>2. CASE Pattern \/ PatternFile
  BY <1>2, PatternStep
<1>3. CASE ReadPattern \/ PatternsRead
  BY <1>3, LineStep
<1>4. CASE OptionsDone
  BY <1>4, DoneStep
<1>5. CASE Compiled
  BY <1>5, CompiledStep
<1>6. CASE ReadFailed \/ Refused \/ Version \/ EmptyPatternFile \/ Usage \/ NotCompiled
  <2>1. Exit(0) \/ Exit(1) \/ Exit(2)
    BY <1>6, Zenon DEF ReadFailed, Refused, Version, EmptyPatternFile, Usage, NotCompiled
  <2> QED
    BY <2>1, ExitStep
<1>7. CASE UNCHANGED vars
  <2>1. UNCHANGED <<argv, pc, status, optind, nextchar, passed, Aflag, Bflag, mcount, mflag, flags, Hflag, hflag,
                    cflags, lines, pats, lens, matchall, files>>
    BY <1>7 DEF vars, getopt, settings, context, limit, headers, patterns
  <2>2. WordsInv' /\ (Over => Over') /\ (\A cs : ReadOf(cs)' <=> ReadOf(cs))
    BY <2>1, PlaceStays DEF IInv
  <2>3. TypeOK' /\ LengthsFit' /\ OffsetsWhereUsed'
    BY <2>1 DEF IInv, TypeOK, LengthsFit, OffsetsWhereUsed
  <2>4. HeaderInv'
    BY <2>1, <2>2 DEF IInv, HeaderInv
  <2> QED
    BY <2>2, <2>3, <2>4 DEF IInv
<1> QED
  BY <1>1, <1>2, <1>3, <1>4, <1>5, <1>6, <1>7, Zenon DEF Next, Patterns
-----------------------------------------------------------------------------
(* The last word in which there are options is the one before "--", or the end. *)
LEMMA LastWordIs ==
  ASSUME argv \in Seq(Word), NEW CONSTANT end \in 1 .. Len(argv) + 1,
         end <= Len(argv) => argv[end].kind = "--",
         \A w \in 1 .. end - 1 : argv[w].kind # "--"
  PROVE  LastWord = end - 1
<1>1. Len(argv) \in Nat
  OBVIOUS
<1>2. CASE end <= Len(argv)
  <2> DEFINE Last(w) == /\ argv[w + 1].kind = "--"
                        /\ \A v \in 1 .. w : argv[v].kind # "--"
  <2>1. end - 1 \in 0 .. Len(argv) /\ end \in DOMAIN argv /\ argv[(end - 1) + 1].kind = "--"
    BY <1>1, <1>2
  <2>2. Last(end - 1)
    BY <2>1
  <2>3. ASSUME NEW w \in 0 .. Len(argv), Last(w) PROVE w = end - 1
    <3>1. ~ (w + 1 \in 1 .. end - 1)
      BY <2>3
    <3>2. ~ (end \in 1 .. w)
      BY <1>2, <2>3
    <3> QED
      BY <1>1, <3>1, <3>2
  <2>4. \E w \in DOMAIN argv : argv[w].kind = "--"
    BY <1>2, <2>1
  <2>5. LastWord = CHOOSE w \in 0 .. Len(argv) : Last(w)
    BY <2>4 DEF LastWord
  <2> HIDE DEF Last
  <2> QED
    BY <2>1, <2>2, <2>3, <2>5
<1>3. CASE ~ (end <= Len(argv))
  <2>1. end - 1 = Len(argv) /\ \A w \in DOMAIN argv : argv[w].kind # "--"
    BY <1>1, <1>3
  <2> QED
    BY <2>1 DEF LastWord
<1> QED
  BY <1>2, <1>3

(* Where the options are over, what was read is what is given. *)
LEMMA PlacesAreRead ==
  ASSUME TypeOK, WordsInv, Over, \A w \in DOMAIN argv : w < optind => argv[w].kind # "--"
  PROVE  /\ \A w \in 1 .. LastWord : \A n \in DOMAIN argv[w].opts : w \in DOMAIN argv /\ Passed(w, n)
         /\ \A w \in DOMAIN argv : \A n \in DOMAIN argv[w].opts : Passed(w, n) => w \in 1 .. LastWord
<1>1. argv \in Seq(Word) /\ optind \in 1 .. Len(argv) + 1 /\ nextchar \in Nat \ {0} /\ Len(argv) \in Nat
  BY DEF TypeOK, WordsInv
<1>2. PICK end \in optind .. Len(argv) + 1 :
        /\ end <= Len(argv) => argv[end].kind = "--"
        /\ \A v \in optind .. end - 1 : argv[v].kind = "operand"
  BY DEF Over
<1>3. ASSUME NEW w \in 1 .. end - 1 PROVE argv[w].kind # "--"
  <2>1. CASE w < optind
    BY <1>1, <1>2, <2>1
  <2>2. CASE w \in optind .. end - 1
    BY <1>2, <2>2
  <2> QED
    BY <1>1, <1>2, <2>1, <2>2
<1>4. LastWord = end - 1
  <2>1. end \in 1 .. Len(argv) + 1
    BY <1>1, <1>2
  <2> QED
    BY <1>1, <1>2, <1>3, <2>1, LastWordIs
<1>5. ASSUME NEW w \in 1 .. end - 1, NEW n \in DOMAIN argv[w].opts
      PROVE  w \in DOMAIN argv /\ w < optind
  <2>1. w \in DOMAIN argv
    BY <1>1, <1>2
  <2>2. CASE w \in optind .. end - 1
    <3>1. argv[w].opts = <<>>
      BY <1>2, <2>1, <2>2 DEF WordsInv, WordIsRight
    <3> QED
      BY <3>1
  <2> QED
    BY <1>1, <1>2, <2>1, <2>2
<1>6. ASSUME NEW w \in DOMAIN argv, NEW n \in DOMAIN argv[w].opts, Passed(w, n)
      PROVE  w \in 1 .. end - 1
  <2>1. w \in 1 .. Len(argv) /\ argv[w].opts \in Seq(Opt)
    BY <1>1, OptsAreSeq
  <2>2. n \in Nat /\ n >= 1
    BY <2>1
  <2>3. CASE w < optind
    BY <1>1, <1>2, <2>1, <2>3
  <2>4. CASE w = optind /\ n < nextchar
    <3>1. nextchar # 1
      BY <1>1, <2>2, <2>4
    <3>2. argv[optind].kind = "options"
      BY <3>1 DEF WordsInv
    <3>3. optind # end
      BY <1>2, <2>1, <2>4, <3>2
    <3> QED
      BY <1>1, <1>2, <2>1, <2>4, <3>3
  <2> QED
    BY <1>6, <2>3, <2>4 DEF Passed
<1> QED
  BY <1>4, <1>5, <1>6 DEF Passed

LEMMA GivenIsRead ==
  ASSUME TypeOK, WordsInv, Over, \A w \in DOMAIN argv : w < optind => argv[w].kind # "--",
         NEW CONSTANT cs
  PROVE  IsGiven(cs) <=> ReadOf(cs)
BY PlacesAreRead, Zenon DEF IsGiven, ReadOf

THEOREM Invariance == Spec => []IInv
BY InitIInv, NextIInv, PTL DEF Spec

(* main keeps its types: the place of getopt_long stays within the words, and   *)
(* the arrays hold texts and lengths.                                        *)
THEOREM TypeCorrect == Spec => []TypeOK
<1>1. IInv => TypeOK
  BY DEF IInv
<1> QED
  BY <1>1, Invariance, PTL

(* Unless the empty pattern replaced all others, which keeps the length of the  *)
(* first, the arrays that frec_mregncomp is given agree: each pattern has its   *)
(* length.  In any case there is a pattern at least.                          *)
THEOREM ArraysAgree == Spec => []LengthsFit
<1>1. IInv => LengthsFit
  BY DEF IInv
<1> QED
  BY <1>1, Invariance, PTL

(* Whatever options were read, offsets are asked for where grep uses them.      *)
THEOREM OffsetsKept == Spec => []OffsetsWhereUsed
<1>1. IInv => OffsetsWhereUsed
  BY DEF IInv
<1> QED
  BY <1>1, Invariance, PTL

(* For words in any number and order: names of files are printed as the given   *)
(* options say.                                                            *)
THEOREM HeadersRight == Spec => []HeadersAsGiven
<1>1. IInv => HeadersAsGiven
  <2> SUFFICES ASSUME IInv, pc = "search" PROVE HeadersAsGiven
    BY DEF HeadersAsGiven
  <2>1. TypeOK /\ WordsInv /\ Over /\ \A w \in DOMAIN argv : w < optind => argv[w].kind # "--"
    BY DEF IInv, HeaderInv
  <2>2. IsGiven({"h"}) <=> ReadOf({"h"})
    BY <2>1, GivenIsRead
  <2>3. IsGiven(HeaderOptions) <=> ReadOf(HeaderOptions)
    BY <2>1, GivenIsRead
  <2>4. hflag <=> ReadOf({"h"}) \/ (Len(files) <= 1 /\ ~ ReadOf(HeaderOptions))
    BY DEF IInv, HeaderInv
  <2> HIDE DEF IsGiven, ReadOf
  <2> QED
    BY <2>2, <2>3, <2>4 DEF HeadersAsGiven, HeaderOptions
<1> QED
  BY <1>1, Invariance, PTL
-----------------------------------------------------------------------------
(* The place of getopt_long, as far as main tells from it where a number begins. *)
DigitInv ==
  /\ prevoptind = optind
  /\ nextchar = 1 => newarg
  /\ nextchar # 1 =>
       /\ lastc = argv[optind].opts[nextchar - 1].c
       /\ newarg => nextchar = 2 /\ optind > 1 /\ argv[optind - 1].kind = "operand"

(* Of the options that were read, the last one for a side of the context. *)
AfterOptions == {"digit", "A", "C", "--context"}
BeforeOptions == {"digit", "B", "C", "--context"}
ReadAt(cs, w, n) == w \in DOMAIN argv /\ n \in DOMAIN argv[w].opts /\ Passed(w, n) /\ argv[w].opts[n].c \in cs
LastRead(cs, w, n) ==
  /\ ReadAt(cs, w, n)
  /\ \A v \in DOMAIN argv : \A m \in DOMAIN argv[v].opts :
       ReadAt(cs, v, m) => v < w \/ (v = w /\ m <= n)
SideInv(cs, flag) ==
  /\ ~ ReadOf(cs) => flag = 0
  /\ ReadOf(cs) => \E w \in DOMAIN argv : \E n \in DOMAIN argv[w].opts :
                     LastRead(cs, w, n) /\ flag = ContextAt(<<w, n>>)

ContextInv ==
  /\ DigitInv
  /\ ~ NumberBehindOperand => SideInv(AfterOptions, Aflag) /\ SideInv(BeforeOptions, Bflag)

(* A set of numbers with 0, and with n + 1 for each of its n, has them all. *)
LEMMA AllNumbers ==
  ASSUME NEW T, 0 \in T, \A n \in Nat : n \in T => n + 1 \in T
  PROVE  \A n \in Nat : n \in T
<1> SUFFICES ASSUME NEW m \in Nat, m \notin T PROVE FALSE
  OBVIOUS
<1>1. PICK n \in Nat \ T : \A y \in Nat \ T : n <= y
  <2>1. Nat \ T \in SUBSET Nat /\ Nat \ T # {}
    OBVIOUS
  <2> QED
    BY <2>1, LeastWord
<1>2. n # 0 /\ n - 1 \in Nat
  BY <1>1
<1>3. n - 1 \in T
  BY <1>1, <1>2
<1>4. (n - 1) + 1 \in T
  BY <1>2, <1>3
<1> QED
  BY <1>1, <1>4

(* The numbers of a word are a function: each digit adds to the one before it.  *)
NumberWith(opts, n, before) == IF opts[n].c = "digit" THEN before * 10 + opts[n].num ELSE 0
NumbersTo(h, opts, k) ==
  h = [n \in 0 .. k |-> IF n = 0 THEN 0 ELSE NumberWith(opts, n, h[n - 1])]

LEMMA NumbersExist ==
  ASSUME NEW opts, NEW m \in Nat
  PROVE  \E h : NumbersTo(h, opts, m)
<1> DEFINE T == {k \in Nat : \E h : NumbersTo(h, opts, k)}
<1>1. 0 \in T
  <2>1. NumbersTo([n \in 0 .. 0 |-> 0], opts, 0)
    BY DEF NumbersTo
  <2> QED
    BY <2>1, Zenon
<1>2. ASSUME NEW k \in Nat, k \in T
      PROVE  k + 1 \in T
  <2>1. PICK h : NumbersTo(h, opts, k)
    BY <1>2, Zenon
  <2> DEFINE e == [n \in 0 .. k + 1 |-> IF n = 0 THEN 0 ELSE NumberWith(opts, n, h[n - 1])]
  <2>2. \A n \in 0 .. k : e[n] = h[n]
    BY <2>1 DEF NumbersTo
  <2> HIDE DEF e
  <2>3. \A n \in 0 .. k + 1 : n # 0 => h[n - 1] = e[n - 1]
    <3> SUFFICES ASSUME NEW n \in 0 .. k + 1, n # 0 PROVE h[n - 1] = e[n - 1]
      OBVIOUS
    <3>1. n - 1 \in 0 .. k
      OBVIOUS
    <3> QED
      BY <3>1, <2>2
  <2>4. NumbersTo(e, opts, k + 1)
    BY <2>3 DEF NumbersTo, e
  <2>5. \E d : NumbersTo(d, opts, k + 1)
    BY <2>4
  <2> QED
    BY <2>5
<1>3. \A k \in Nat : k \in T
  <2> HIDE DEF T
  <2> QED
    BY <1>1, <1>2, AllNumbers
<1>4. m \in T
  BY <1>3, Zenon
<1> QED
  BY <1>4

LEMMA NumbersDef ==
  ASSUME NEW opts \in Seq(Opt)
  PROVE  /\ Numbers(opts)[0] = 0
         /\ \A n \in 1 .. Len(opts) : Numbers(opts)[n] = NumberWith(opts, n, Numbers(opts)[n - 1])
<1>1. \E h : NumbersTo(h, opts, Len(opts))
  <2>1. Len(opts) \in Nat
    OBVIOUS
  <2> QED
    BY <2>1, NumbersExist
<1> DEFINE upto == CHOOSE h : NumbersTo(h, opts, Len(opts))
<1>2. NumbersTo(upto, opts, Len(opts))
  BY <1>1
<1>3. Numbers(opts) = upto
  BY DEF Numbers, NumbersTo, NumberWith
<1> HIDE DEF upto
<1> QED
  BY <1>2, <1>3 DEF NumbersTo

(* The number of a digit is told from the option before it in the same word. *)
LEMMA NumberHere ==
  ASSUME NEW opts \in Seq(Opt), NEW k \in 1 .. Len(opts), opts[k].c = "digit", opts[k].num \in 0 .. 9
  PROVE  /\ k > 1 /\ opts[k - 1].c = "digit" => Numbers(opts)[k] = Numbers(opts)[k - 1] * 10 + opts[k].num
         /\ ~ (k > 1 /\ opts[k - 1].c = "digit") => Numbers(opts)[k] = opts[k].num
<1>1. k - 1 = 0 \/ k - 1 \in 1 .. Len(opts)
  OBVIOUS
<1>2. Numbers(opts)[k] = Numbers(opts)[k - 1] * 10 + opts[k].num
  BY NumbersDef DEF NumberWith
<1>3. ASSUME ~ (k > 1 /\ opts[k - 1].c = "digit")
      PROVE  Numbers(opts)[k - 1] = 0
  <2>1. k - 1 = 0 \/ opts[k - 1].c # "digit"
    BY <1>1, <1>3
  <2> QED
    BY <1>1, <2>1, NumbersDef DEF NumberWith
<1>4. 0 * 10 + opts[k].num = opts[k].num
  OBVIOUS
<1> QED
  BY <1>2, <1>3, <1>4
-----------------------------------------------------------------------------
(* What was passed is before the option that getopt_long returns. *)
LEMMA PassedIsBefore ==
  ASSUME TypeOK, WordsInv, MoreOptions,
         NEW CONSTANT w \in DOMAIN argv, NEW CONSTANT n \in DOMAIN argv[w].opts, Passed(w, n)
  PROVE  w < ThisWord \/ (w = ThisWord /\ n < nextchar)
<1>1. argv \in Seq(Word) /\ optind \in 1 .. Len(argv) + 1 /\ nextchar \in Nat \ {0}
  BY DEF TypeOK, WordsInv
<1>2. ThisWord \in DOMAIN argv /\ ThisWord >= optind /\ (nextchar # 1 => ThisWord = optind)
  BY OptionHere
<1> HIDE DEF ThisWord
<1>3. w \in 1 .. Len(argv) /\ ThisWord \in 1 .. Len(argv) /\ argv[w].opts \in Seq(Opt)
  BY <1>1, <1>2, OptsAreSeq
<1>4. n \in Nat /\ n >= 1
  BY <1>3
<1> QED
  BY <1>1, <1>2, <1>3, <1>4 DEF Passed

LEMMA LastReadKept ==
  ASSUME TypeOK, WordsInv, MoreOptions, NextOption, argv' = argv, NEW CONSTANT cs, c \notin cs,
         NEW CONSTANT w, NEW CONSTANT n
  PROVE  LastRead(cs, w, n)' <=> LastRead(cs, w, n)
<1>1. c = argv[ThisWord].opts[nextchar].c
  BY OptionHere DEF c
<1> HIDE DEF ThisWord, c
<1>2. \A v \in DOMAIN argv : \A m \in DOMAIN argv[v].opts :
        Passed(v, m)' <=> Passed(v, m) \/ (v = ThisWord /\ m = nextchar)
  BY AdvancePasses
<1>3. \A v, m : ReadAt(cs, v, m)' <=> ReadAt(cs, v, m)
  BY <1>1, <1>2, Zenon DEF ReadAt
<1> QED
  BY <1>3, Zenon DEF LastRead

LEMMA LastReadNew ==
  ASSUME TypeOK, WordsInv, MoreOptions, NextOption, argv' = argv, NEW CONSTANT cs, c \in cs,
         NEW CONSTANT w, NEW CONSTANT n, w = ThisWord, n = nextchar
  PROVE  w \in DOMAIN argv /\ n \in DOMAIN argv[w].opts /\ LastRead(cs, w, n)'
<1>1. /\ w \in DOMAIN argv /\ argv[w].opts \in Seq(Opt) /\ n \in 1 .. Len(argv[w].opts)
      /\ c = argv[w].opts[n].c
  BY OptionHere DEF c
<1> HIDE DEF ThisWord, c
<1>2. \A v \in DOMAIN argv : \A m \in DOMAIN argv[v].opts :
        Passed(v, m)' <=> Passed(v, m) \/ (v = w /\ m = n)
  BY AdvancePasses
<1>3. \A v \in DOMAIN argv : \A m \in DOMAIN argv[v].opts :
        Passed(v, m) => v < w \/ (v = w /\ m < n)
  BY PassedIsBefore
<1>4. n \in DOMAIN argv[w].opts
  BY <1>1
<1>5. ReadAt(cs, w, n)'
  BY <1>1, <1>2, <1>4, Zenon DEF ReadAt
<1>6. ASSUME NEW v \in DOMAIN argv, NEW m \in DOMAIN argv[v].opts, ReadAt(cs, v, m)'
      PROVE  v < w \/ (v = w /\ m <= n)
  <2>1. Passed(v, m)'
    BY <1>6 DEF ReadAt
  <2>2. CASE Passed(v, m)
    <3>1. argv \in Seq(Word)
      BY DEF WordsInv
    <3>2. argv[v].opts \in Seq(Opt)
      BY <3>1, OptsAreSeq
    <3>3. m \in Nat /\ n \in Nat
      BY <1>1, <3>2
    <3> QED
      BY <1>3, <2>2, <3>3
  <2>3. CASE v = w /\ m = n
    BY <1>1, <2>3
  <2> QED
    BY <1>2, <2>1, <2>2, <2>3
<1> QED
  BY <1>1, <1>4, <1>5, <1>6, Zenon DEF LastRead

LEMMA ContextAtStays ==
  ASSUME argv' = argv, NEW CONSTANT w, NEW CONSTANT n
  PROVE  ContextAt(<<w, n>>)' = ContextAt(<<w, n>>)
BY DEF ContextAt, At, NumberAt

(* A word before "--" is one in which getopt_long looks for options. *)
LEMMA LastWordReaches ==
  ASSUME argv \in Seq(Word), NEW CONSTANT w \in DOMAIN argv, \A v \in 1 .. w : argv[v].kind # "--"
  PROVE  LastWord \in Nat /\ w <= LastWord
<1> DEFINE T == {v \in DOMAIN argv : argv[v].kind = "--"}
<1>1. Len(argv) \in Nat /\ DOMAIN argv = 1 .. Len(argv) /\ w \in 1 .. Len(argv)
  OBVIOUS
<1>2. CASE T = {}
  <2>1. LastWord = Len(argv)
    BY <1>2 DEF LastWord
  <2> QED
    BY <1>1, <2>1
<1>3. CASE T # {}
  <2>1. T \in SUBSET Nat
    BY <1>1
  <2> DEFINE Last(x) == /\ argv[x + 1].kind = "--"
                        /\ \A v \in 1 .. x : argv[v].kind # "--"
  <2>2. PICK x \in T : \A y \in T : x <= y
    <3> HIDE DEF T
    <3> QED
      BY <1>3, <2>1, LeastWord
  <2>3. x - 1 \in 0 .. Len(argv) /\ (x - 1) + 1 = x
    BY <1>1, <2>2
  <2>4. \A v \in 1 .. x - 1 : argv[v].kind # "--"
    <3> SUFFICES ASSUME NEW v \in 1 .. x - 1, argv[v].kind = "--" PROVE FALSE
      OBVIOUS
    <3>1. v \in T /\ ~ (x <= v)
      BY <1>1, <2>2
    <3> QED
      BY <2>2, <3>1
  <2>5. Last(x - 1)
    BY <2>2, <2>3, <2>4
  <2>6. LastWord = CHOOSE y \in 0 .. Len(argv) : Last(y)
    BY <1>3 DEF LastWord
  <2>7. LastWord \in 0 .. Len(argv) /\ Last(LastWord)
    <3> HIDE DEF Last
    <3> QED
      BY <2>3, <2>5, <2>6
  <2>8. ~ (LastWord + 1 \in 1 .. w)
    BY <2>7
  <2> QED
    BY <1>1, <2>7, <2>8
<1> QED
  BY <1>2, <1>3

LEMMA DigitInvStep ==
  ASSUME TypeOK, WordsInv, DigitInv, MoreOptions, NextOption, argv' = argv
  PROVE  DigitInv'
<1>1. argv \in Seq(Word) /\ optind \in 1 .. Len(argv) + 1 /\ nextchar \in Nat \ {0}
  BY DEF TypeOK, WordsInv
<1>2. /\ ThisWord \in DOMAIN argv /\ ThisWord >= optind
      /\ argv[ThisWord].opts \in Seq(Opt)
      /\ nextchar \in 1 .. Len(argv[ThisWord].opts)
      /\ nextchar # 1 => ThisWord = optind
      /\ c = argv[ThisWord].opts[nextchar].c
      /\ \A v \in optind .. ThisWord - 1 : argv[v].kind = "operand"
  BY OptionHere DEF c
<1>3. /\ IF nextchar < Len(argv[ThisWord].opts)
         THEN optind' = ThisWord /\ nextchar' = nextchar + 1
         ELSE optind' = ThisWord + 1 /\ nextchar' = 1
      /\ lastc' = c
      /\ newarg' = (optind' # optind) /\ prevoptind' = optind'
  BY DEF NextOption, DigitInv
<1> HIDE DEF ThisWord, c
<1>4. CASE nextchar < Len(argv[ThisWord].opts)
  <2>1. optind' = ThisWord /\ nextchar' = nextchar + 1 /\ nextchar' - 1 = nextchar
    BY <1>1, <1>3, <1>4
  <2>2. lastc' = argv'[optind'].opts[nextchar' - 1].c
    BY <1>2, <1>3, <2>1
  <2>3. ASSUME newarg' PROVE nextchar' = 2 /\ optind' > 1 /\ argv'[optind' - 1].kind = "operand"
    <3>1. ThisWord # optind
      BY <1>3, <2>1, <2>3
    <3>2. nextchar = 1 /\ ThisWord - 1 \in optind .. ThisWord - 1 /\ ThisWord > 1
      BY <1>1, <1>2, <3>1
    <3> QED
      BY <1>2, <2>1, <3>2
  <2>4. nextchar' # 1
    BY <1>1, <2>1
  <2> QED
    BY <1>3, <2>2, <2>3, <2>4 DEF DigitInv
<1>5. CASE ~ (nextchar < Len(argv[ThisWord].opts))
  <2>1. optind' = ThisWord + 1 /\ nextchar' = 1
    BY <1>3, <1>5
  <2>2. optind' # optind
    BY <1>1, <1>2, <2>1
  <2> QED
    BY <1>3, <2>1, <2>2 DEF DigitInv
<1> QED
  BY <1>4, <1>5

(* A digit makes the number that its word has there. *)
LEMMA DigitReads ==
  ASSUME IInv, ContextInv, ~ NumberBehindOperand, Digit,
         NEW CONSTANT w, NEW CONSTANT k, w = ThisWord, k = nextchar
  PROVE  Aflag' = ContextAt(<<w, k>>) /\ Bflag' = ContextAt(<<w, k>>)
<1> DEFINE opts == argv[w].opts
<1>1. TypeOK /\ WordsInv /\ DigitInv /\ SideInv(AfterOptions, Aflag)
  BY DEF IInv, ContextInv
<1>2. MoreOptions /\ c = "digit" /\ Bflag' = Aflag'
  BY DEF Digit, Setting
<1>3. argv \in Seq(Word) /\ optind \in 1 .. Len(argv) + 1 /\ nextchar \in Nat \ {0} /\ Aflag \in Nat
  BY <1>1 DEF TypeOK, WordsInv
<1>4. /\ w \in DOMAIN argv /\ w \in 1 .. Len(argv)
      /\ opts \in Seq(Opt) /\ k \in 1 .. Len(opts)
      /\ k # 1 => w = optind
      /\ opts[k].c = "digit" /\ opts[k].num \in 0 .. 9
      /\ opt = opts[k]
  BY <1>1, <1>2, <1>3, OptionHere, SMTT(30) DEF c
<1>5. Aflag' = (IF NewNumber THEN 0 ELSE Aflag * 10) + opts[k].num
  BY <1>4 DEF Digit
<1>6. ContextAt(<<w, k>>) = Numbers(opts)[k]
  BY <1>4 DEF ContextAt, At, NumberAt
<1> HIDE DEF opts
<1>7. CASE k > 1 /\ opts[k - 1].c = "digit"
  <2>1. k - 1 \in DOMAIN opts /\ w = optind /\ k - 1 < k /\ nextchar # 1
    BY <1>4, <1>7
  <2>2. lastc = "digit" /\ (newarg => k = 2 /\ w > 1 /\ argv[w - 1].kind = "operand")
    BY <1>1, <1>7, <2>1 DEF DigitInv, opts
  <2>3. ~ newarg
    <3> SUFFICES ASSUME newarg PROVE NumberBehindOperand
      OBVIOUS
    <3>1. k = 2 /\ w > 1 /\ argv[w - 1].kind = "operand"
      BY <2>2
    <3>2. \A v \in DOMAIN argv : v < optind => argv[v].kind # "--"
      BY DEF IInv, HeaderInv
    <3>3. argv[w].kind = "options"
      BY <1>1, <1>2, OptionHere
    <3>4. \A v \in 1 .. w : argv[v].kind # "--"
      <4> SUFFICES ASSUME NEW v \in 1 .. w PROVE argv[v].kind # "--"
        OBVIOUS
      <4>1. v \in DOMAIN argv /\ (v < optind \/ v = w)
        BY <1>3, <1>4, <2>1
      <4> QED
        BY <3>2, <3>3, <4>1
    <3>5. LastWord \in Nat /\ w <= LastWord
      BY <1>3, <1>4, <3>4, LastWordReaches
    <3>6. w \in 2 .. LastWord /\ Len(argv[w].opts) > 1
      BY <1>4, <3>1, <3>5 DEF opts
    <3>7. argv[w].opts[1].c = "digit" /\ argv[w].opts[2].c = "digit"
      BY <1>4, <1>7, <3>1 DEF opts
    <3> QED
      BY <3>1, <3>6, <3>7, Zenon DEF NumberBehindOperand
  <2>4. ReadAt(AfterOptions, w, k - 1)
    <3>1. Passed(w, k - 1)
      BY <2>1 DEF Passed
    <3> QED
      BY <1>4, <1>7, <2>1, <3>1 DEF ReadAt, AfterOptions, opts
  <2>5. ReadOf(AfterOptions)
    BY <2>4, Zenon DEF ReadOf, ReadAt
  <2> DEFINE Told(v, n) == LastRead(AfterOptions, v, n) /\ Aflag = ContextAt(<<v, n>>)
  <2>5a. PICK v \in DOMAIN argv : \E n \in DOMAIN argv[v].opts : Told(v, n)
    BY <1>1, <2>5, Zenon DEF SideInv
  <2>6. PICK n \in DOMAIN argv[v].opts : Told(v, n)
    BY <2>5a
  <2>7. w < v \/ (w = v /\ k - 1 <= n)
    BY <1>4, <2>1, <2>4, <2>6 DEF LastRead, opts
  <2>8. v < w \/ (v = w /\ n < k)
    BY <1>1, <1>2, <2>6, PassedIsBefore DEF LastRead, ReadAt
  <2>9. v = w /\ n = k - 1
    <3>1. v \in Nat /\ argv[v].opts \in Seq(Opt)
      BY <1>3, OptsAreSeq
    <3>2. n \in Nat
      BY <3>1
    <3> QED
      BY <1>4, <2>7, <2>8, <3>1, <3>2
  <2>10. Aflag = Numbers(opts)[k - 1]
    BY <1>7, <2>6, <2>9 DEF ContextAt, At, NumberAt, opts
  <2>11. Aflag' = Aflag * 10 + opts[k].num
    BY <1>5, <2>2, <2>3 DEF NewNumber
  <2>12. Numbers(opts)[k] = Numbers(opts)[k - 1] * 10 + opts[k].num
    BY <1>4, <1>7, NumberHere
  <2> QED
    BY <1>2, <1>6, <2>10, <2>11, <2>12
<1>8. CASE ~ (k > 1 /\ opts[k - 1].c = "digit")
  <2>1. NewNumber
    <3>1. CASE k = 1
      BY <1>1, <3>1 DEF DigitInv, NewNumber
    <3>2. CASE k # 1
      <4>1. k > 1 /\ w = optind
        BY <1>4, <3>2
      <4>2. lastc = opts[k - 1].c
        BY <1>1, <3>2, <4>1 DEF DigitInv, opts
      <4> QED
        BY <1>8, <4>1, <4>2 DEF NewNumber
    <3> QED
      BY <3>1, <3>2
  <2>2. Aflag' = opts[k].num
    BY <1>4, <1>5, <2>1
  <2>3. Numbers(opts)[k] = opts[k].num
    BY <1>4, <1>8, NumberHere
  <2> QED
    BY <1>2, <1>6, <2>2, <2>3
<1> QED
  BY <1>7, <1>8

(* What each option does to the context. *)
LEMMA ContextSet ==
  ASSUME IInv, ContextInv, ~ NumberBehindOperand, Settings \/ Pattern \/ PatternFile,
         NEW CONSTANT w, NEW CONSTANT k, w = ThisWord, k = nextchar
  PROVE  /\ c \in AfterOptions => Aflag' = ContextAt(<<w, k>>)
         /\ c \notin AfterOptions => Aflag' = Aflag
         /\ c \in BeforeOptions => Bflag' = ContextAt(<<w, k>>)
         /\ c \notin BeforeOptions => Bflag' = Bflag
<1>1. CASE Digit
  <2>1. c = "digit"
    BY <1>1 DEF Digit
  <2> QED
    BY <1>1, <2>1, DigitReads DEF AfterOptions, BeforeOptions
<1>2. At(<<w, k>>) = opt /\ opt.c = c
  BY DEF At, opt, c
<1>3. CASE Context
  <2>1. /\ c \in {"A", "B", "C"}
        /\ Aflag' = IF c = "B" THEN Aflag ELSE opt.num
        /\ Bflag' = IF c = "A" THEN Bflag ELSE opt.num
    BY <1>3 DEF Context
  <2> HIDE DEF c, opt
  <2>2. ContextAt(<<w, k>>) = opt.num
    BY <1>2, <2>1 DEF ContextAt
  <2> QED
    BY <2>1, <2>2 DEF AfterOptions, BeforeOptions
<1>4. CASE DefaultContext
  <2>1. c = "--context" /\ Aflag' = 2 /\ Bflag' = 2
    BY <1>4 DEF DefaultContext
  <2> HIDE DEF c, opt
  <2>2. ContextAt(<<w, k>>) = 2
    BY <1>2, <2>1 DEF ContextAt
  <2> QED
    BY <2>1, <2>2 DEF AfterOptions, BeforeOptions
<1>5. CASE /\ c \notin {"digit", "A", "B", "C", "--context"}
           /\ Aflag' = Aflag /\ Bflag' = Bflag
  <2> HIDE DEF c
  <2> QED
    BY <1>5 DEF AfterOptions, BeforeOptions
<1>6. ASSUME \/ MaxCount \/ Flag \/ IgnoreCase \/ OnlyMatching \/ WordMatch \/ Color \/ Headers
             \/ Behave \/ NamePattern \/ Pattern \/ PatternFile
      PROVE  /\ c \notin {"digit", "A", "B", "C", "--context"}
             /\ Aflag' = Aflag /\ Bflag' = Bflag
  <2> USE DEF context, settings
  <2> HIDE DEF c
  <2>1. CASE MaxCount \/ Flag \/ IgnoreCase
    BY <2>1 DEF MaxCount, Flag, IgnoreCase, PlainFlags
  <2>2. CASE OnlyMatching \/ WordMatch \/ Color \/ Headers
    BY <2>2 DEF OnlyMatching, WordMatch, Color, Headers
  <2>3. CASE Behave \/ NamePattern
    BY <2>3 DEF Behave, BehaviourOptions, Recursive, NamePattern
  <2>4. CASE Pattern \/ PatternFile
    BY <2>4 DEF Pattern, PatternFile
  <2> QED
    BY <1>6, <2>1, <2>2, <2>3, <2>4
<1> QED
  BY <1>1, <1>3, <1>4, <1>5, <1>6, Zenon DEF Settings

(* So the last option that was read for a side is the one that counts. *)
LEMMA SideStep ==
  ASSUME TypeOK, WordsInv, MoreOptions, NextOption, argv' = argv, NEW CONSTANT cs,
         NEW CONSTANT old, NEW CONSTANT new, SideInv(cs, old),
         c \in cs => new = ContextAt(<<ThisWord, nextchar>>),
         c \notin cs => new = old
  PROVE  SideInv(cs, new)'
<1>1. ReadOf(cs)' <=> ReadOf(cs) \/ c \in cs
  BY AdvanceReads
<1>2. CASE c \in cs
  <2>1. \E w \in DOMAIN argv' : \E n \in DOMAIN argv'[w].opts :
          LastRead(cs, w, n)' /\ new = ContextAt(<<w, n>>)'
    <3>1. PICK w, n : w = ThisWord /\ n = nextchar
      OBVIOUS
    <3> HIDE DEF ThisWord, c
    <3>2. w \in DOMAIN argv /\ n \in DOMAIN argv[w].opts /\ LastRead(cs, w, n)'
      BY <1>2, <3>1, LastReadNew
    <3>3. new = ContextAt(<<w, n>>)'
      BY <1>2, <3>1, ContextAtStays
    <3> QED
      BY <3>2, <3>3, Zenon
  <2> QED
    BY <1>1, <1>2, <2>1, Zenon DEF SideInv
<1>3. CASE c \notin cs
  <2> HIDE DEF ThisWord, c
  <2>1. \A w, n : LastRead(cs, w, n)' <=> LastRead(cs, w, n)
    BY <1>3, LastReadKept
  <2>2. \A w, n : ContextAt(<<w, n>>)' = ContextAt(<<w, n>>)
    BY ContextAtStays
  <2> QED
    BY <1>1, <1>3, <2>1, <2>2, Zenon DEF SideInv
<1> QED
  BY <1>2, <1>3

LEMMA ContextStep ==
  ASSUME IInv, ContextInv, Settings \/ Pattern \/ PatternFile
  PROVE  ContextInv'
<1>1. TypeOK /\ WordsInv /\ DigitInv
  BY DEF IInv, ContextInv
<1>2. MoreOptions /\ NextOption /\ argv' = argv
  BY DEF Settings, Setting, Digit, Context, DefaultContext, MaxCount, Flag, IgnoreCase, OnlyMatching, WordMatch,
         Color, Headers, Behave, NamePattern, Pattern, PatternFile
<1>3. DigitInv'
  BY <1>1, <1>2, DigitInvStep
<1>4. ASSUME ~ NumberBehindOperand
      PROVE  SideInv(AfterOptions, Aflag)' /\ SideInv(BeforeOptions, Bflag)'
  <2>1. SideInv(AfterOptions, Aflag) /\ SideInv(BeforeOptions, Bflag)
    BY <1>4 DEF ContextInv
  <2>2. PICK a, b, oldA, oldB : a = Aflag' /\ b = Bflag' /\ oldA = Aflag /\ oldB = Bflag
    OBVIOUS
  <2>3. /\ c \in AfterOptions => a = ContextAt(<<ThisWord, nextchar>>)
        /\ c \notin AfterOptions => a = oldA
        /\ c \in BeforeOptions => b = ContextAt(<<ThisWord, nextchar>>)
        /\ c \notin BeforeOptions => b = oldB
    <3>1. PICK w, k : w = ThisWord /\ k = nextchar
      OBVIOUS
    <3> HIDE DEF ThisWord, c
    <3> QED
      BY <1>4, <2>2, <3>1, ContextSet
  <2>4. SideInv(AfterOptions, a)'
    <3>1. SideInv(AfterOptions, oldA)
      BY <2>1, <2>2
    <3> QED
      BY <1>1, <1>2, <2>3, <3>1, SideStep
  <2>5. SideInv(BeforeOptions, b)'
    <3>1. SideInv(BeforeOptions, oldB)
      BY <2>1, <2>2
    <3> QED
      BY <1>1, <1>2, <2>3, <3>1, SideStep
  <2> QED
    BY <2>2, <2>4, <2>5, Zenon DEF SideInv
<1>5. NumberBehindOperand' <=> NumberBehindOperand
  BY <1>2 DEF NumberBehindOperand, LastWord
<1> QED
  BY <1>3, <1>4, <1>5 DEF ContextInv

(* The other steps leave alone what was read and what it says. *)
LEMMA ContextStays ==
  ASSUME ContextInv, UNCHANGED <<argv, optind, nextchar, passed, lastc, newarg, prevoptind, Aflag, Bflag>>
  PROVE  ContextInv'
<1>1. DigitInv'
  BY DEF ContextInv, DigitInv
<1>2. NumberBehindOperand' <=> NumberBehindOperand
  BY DEF NumberBehindOperand, LastWord
<1>3. \A w, n : Passed(w, n)' <=> Passed(w, n)
  BY DEF Passed
<1>4. \A cs, w, n : ReadAt(cs, w, n)' <=> ReadAt(cs, w, n)
  BY <1>3, Zenon DEF ReadAt
<1>5. \A cs, w, n : LastRead(cs, w, n)' <=> LastRead(cs, w, n)
  BY <1>4, Zenon DEF LastRead
<1>6. \A cs : ReadOf(cs)' <=> ReadOf(cs)
  BY PlaceStays
<1>7. \A w, n : ContextAt(<<w, n>>)' = ContextAt(<<w, n>>)
  BY ContextAtStays
<1>8. SideInv(AfterOptions, Aflag) => SideInv(AfterOptions, Aflag)'
  BY <1>5, <1>6, <1>7, Zenon DEF SideInv
<1>9. SideInv(BeforeOptions, Bflag) => SideInv(BeforeOptions, Bflag)'
  BY <1>5, <1>6, <1>7, Zenon DEF SideInv
<1> QED
  BY <1>1, <1>2, <1>8, <1>9 DEF ContextInv

LEMMA NextContextInv == IInv /\ ContextInv /\ [Next]_vars => ContextInv'
<1> SUFFICES ASSUME IInv, ContextInv, [Next]_vars PROVE ContextInv'
  OBVIOUS
<1>1. CASE Settings \/ Pattern \/ PatternFile
  BY <1>1, ContextStep
<1>2. ASSUME \/ ReadPattern \/ PatternsRead \/ OptionsDone \/ Compiled
             \/ ReadFailed \/ Refused \/ Version \/ EmptyPatternFile \/ Usage \/ NotCompiled
             \/ UNCHANGED vars
      PROVE  UNCHANGED <<argv, optind, nextchar, passed, lastc, newarg, prevoptind, Aflag, Bflag>>
  <2> USE DEF getopt, settings, context
  <2>1. CASE ReadPattern \/ PatternsRead \/ OptionsDone \/ Compiled
    BY <2>1 DEF ReadPattern, PatternsRead, OptionsDone, Compiled
  <2>2. CASE ReadFailed \/ Refused \/ Version \/ EmptyPatternFile \/ Usage \/ NotCompiled
    <3>1. Exit(0) \/ Exit(1) \/ Exit(2)
      BY <2>2, Zenon DEF ReadFailed, Refused, Version, EmptyPatternFile, Usage, NotCompiled
    <3> QED
      BY <3>1 DEF Exit
  <2>3. CASE UNCHANGED vars
    BY <2>3 DEF vars
  <2> QED
    BY <1>2, <2>1, <2>2, <2>3
<1>3. CASE \/ ReadPattern \/ PatternsRead \/ OptionsDone \/ Compiled
           \/ ReadFailed \/ Refused \/ Version \/ EmptyPatternFile \/ Usage \/ NotCompiled
           \/ UNCHANGED vars
  BY <1>2, <1>3, ContextStays
<1> QED
  BY <1>1, <1>3, Zenon DEF Next, Patterns

LEMMA InitContextInv == Init => ContextInv
<1> SUFFICES ASSUME Init PROVE ContextInv
  OBVIOUS
<1>1. /\ argv \in Seq(Word) /\ optind = 1 /\ nextchar = 1 /\ newarg = TRUE /\ prevoptind = 1
      /\ Aflag = 0 /\ Bflag = 0
  BY InitIInv DEF Init, IInv, WordsInv
<1>2. \A w \in DOMAIN argv : \A n \in DOMAIN argv[w].opts : w \in Nat /\ w >= 1 /\ n \in Nat /\ n >= 1
  <2>1. \A w \in DOMAIN argv : argv[w].opts \in Seq(Opt)
    BY <1>1, OptsAreSeq
  <2> QED
    BY <1>1, <2>1
<1>3. \A cs : ~ ReadOf(cs)
  BY <1>1, <1>2 DEF ReadOf, Passed
<1> QED
  BY <1>1, <1>3 DEF ContextInv, DigitInv, SideInv

(* Where the options are over, the last one that was read is the last given. *)
LEMMA SideGiven ==
  ASSUME TypeOK, WordsInv, Over, \A w \in DOMAIN argv : w < optind => argv[w].kind # "--",
         NEW CONSTANT cs, NEW CONSTANT flag, SideInv(cs, flag)
  PROVE  flag = LastContext(cs)
<1> DEFINE ps == {p \in Places : At(p).c \in cs}
           IsLast(p) == \A q \in ps : p = q \/ Behind(p, q)
<1>1. ASSUME NEW w, NEW n PROVE <<w, n>> \in ps <=> ReadAt(cs, w, n)
  <2>1. <<w, n>> \in Places <=> w \in 1 .. LastWord /\ n \in DOMAIN argv[w].opts
    BY DEF Places
  <2>2. At(<<w, n>>) = argv[w].opts[n]
    BY DEF At
  <2> QED
    BY <2>1, <2>2, PlacesAreRead, Zenon DEF ReadAt
<1>2. ASSUME NEW p \in ps PROVE \E w, n : p = <<w, n>>
  BY DEF Places
<1>3. LastContext(cs) = IF ps = {} THEN 0 ELSE ContextAt(CHOOSE p \in ps : IsLast(p))
  BY DEF LastContext
<1> HIDE DEF ps
<1>4. ReadOf(cs) <=> \E w, n : ReadAt(cs, w, n)
  BY Zenon DEF ReadOf, ReadAt
<1>5. CASE ~ ReadOf(cs)
  <2>1. ps = {}
    BY <1>1, <1>2, <1>4, <1>5
  <2> QED
    BY <1>3, <1>5, <2>1 DEF SideInv
<1>6. CASE ReadOf(cs)
  <2> DEFINE Told(w, n) == LastRead(cs, w, n) /\ flag = ContextAt(<<w, n>>)
  <2>1. PICK w \in DOMAIN argv : \E n \in DOMAIN argv[w].opts : Told(w, n)
    BY <1>6, Zenon DEF SideInv
  <2>2. PICK n \in DOMAIN argv[w].opts : Told(w, n)
    BY <2>1
  <2>3. <<w, n>> \in ps
    BY <1>1, <2>2 DEF LastRead
  <2>4. ASSUME NEW v, NEW m, ReadAt(cs, v, m)
        PROVE  /\ v \in Nat /\ m \in Nat /\ w \in Nat /\ n \in Nat
               /\ v < w \/ (v = w /\ m <= n)
    <3>1. argv \in Seq(Word) /\ v \in DOMAIN argv /\ m \in DOMAIN argv[v].opts
      BY <2>4 DEF ReadAt, WordsInv
    <3>2. argv[v].opts \in Seq(Opt) /\ argv[w].opts \in Seq(Opt)
      BY <3>1, OptsAreSeq
    <3>3. v \in Nat /\ m \in Nat /\ w \in Nat /\ n \in Nat
      BY <3>1, <3>2
    <3> QED
      BY <2>2, <2>4, <3>1, <3>3 DEF LastRead
  <2>5. IsLast(<<w, n>>)
    <3> SUFFICES ASSUME NEW q \in ps PROVE <<w, n>> = q \/ Behind(<<w, n>>, q)
      OBVIOUS
    <3>1. PICK v, m : q = <<v, m>>
      BY <1>2
    <3>2. v \in Nat /\ m \in Nat /\ w \in Nat /\ n \in Nat /\ (v < w \/ (v = w /\ m <= n))
      BY <1>1, <2>4, <3>1
    <3> QED
      BY <3>1, <3>2 DEF Behind
  <2>6. ASSUME NEW p \in ps, IsLast(p) PROVE p = <<w, n>>
    <3>1. PICK v, m : p = <<v, m>>
      BY <1>2
    <3>2. v \in Nat /\ m \in Nat /\ w \in Nat /\ n \in Nat /\ (v < w \/ (v = w /\ m <= n))
      BY <1>1, <2>4, <3>1
    <3>3. p = <<w, n>> \/ Behind(p, <<w, n>>)
      BY <2>3, <2>6
    <3> QED
      BY <3>1, <3>2, <3>3 DEF Behind
  <2> HIDE DEF IsLast
  <2>7. (CHOOSE p \in ps : IsLast(p)) = <<w, n>>
    BY <2>3, <2>5, <2>6
  <2> QED
    BY <1>3, <2>2, <2>3, <2>7
<1> QED
  BY <1>5, <1>6

(* For words in any number and order: the last number for each side of the      *)
(* context counts, in whatever form, and the digits of a word make one number.  *)
THEOREM ContextRight == Spec => []ContextAsGiven
<1>1. IInv /\ ContextInv => ContextAsGiven
  <2> SUFFICES ASSUME IInv, ContextInv, pc = "search", ~ NumberBehindOperand PROVE ContextAsGiven
    BY DEF ContextAsGiven
  <2>1. TypeOK /\ WordsInv /\ Over /\ \A w \in DOMAIN argv : w < optind => argv[w].kind # "--"
    BY DEF IInv, HeaderInv
  <2>2. SideInv(AfterOptions, Aflag) /\ SideInv(BeforeOptions, Bflag)
    BY DEF ContextInv
  <2>3. PICK a, b : a = Aflag /\ b = Bflag
    OBVIOUS
  <2>4. SideInv(AfterOptions, a) /\ SideInv(BeforeOptions, b)
    BY <2>2, <2>3
  <2>5. a = LastContext(AfterOptions) /\ b = LastContext(BeforeOptions)
    BY <2>1, <2>4, SideGiven
  <2> QED
    BY <2>3, <2>5 DEF ContextAsGiven, AfterOptions, BeforeOptions
<1> QED
  BY <1>1, Invariance, InitContextInv, NextContextInv, PTL DEF Spec
-----------------------------------------------------------------------------
(* What the options that were read give, in order, of which the lines of a file  *)
(* that read_patterns has not taken yet are the last ones.                     *)
SoFar == IF nextchar = 1 THEN GivenUpTo[optind - 1] ELSE GivenUpTo[optind - 1] \o GivenIn(optind)[nextchar - 1]
Taken(given, k) ==
  /\ matchall <=> \E n \in 1 .. k : given[n] = <<>>
  /\ ~ matchall => Len(pats) = k /\ \A n \in 1 .. k : pats[n] = Chopped(given[n])
Collected(given, k) ==
  /\ k \in Nat /\ Len(given) = k + Len(lines)
  /\ \A n \in 1 .. Len(lines) : given[k + n] = LinePattern(lines[n])
  /\ Taken(given, k)

Reading ==
  /\ passed = OperandsUpTo[optind - 1]
  /\ Collected(SoFar, Len(SoFar) - Len(lines))
  /\ needpattern => pats = <<>> /\ ~ matchall
RightLines ==
  /\ lines \in Seq(Text \ {<<>>})
  /\ \A n \in DOMAIN lines : \A k \in 1 .. Len(lines[n]) - 1 : lines[n][k] # NL
PatternInv ==
  /\ needpattern <=> ~ ReadOf({"e", "f"})
  /\ ReadOf({"e"}) => pats # <<>>
  /\ pc = "getopt" => lines = <<>>
  /\ pc = "read_patterns" => ~ needpattern
  /\ pc \in {"getopt", "read_patterns"} => Reading
  /\ RightLines

(* And what is there of it where the search begins, or is given up. *)
AllGiven ==
  /\ Given # <<>>
  /\ matchall <=> \E n \in DOMAIN Given : Given[n] = <<>>
  /\ pats = IF matchall THEN << <<>> >> ELSE [n \in DOMAIN Given |-> Chopped(Given[n])]
  /\ files = IF IsGiven({"e", "f"}) THEN AllOperands ELSE Tail(AllOperands)
FinalInv ==
  /\ pc \in {"compile", "search"} => AllGiven
  /\ pc = "exited" /\ status = 1 => IsGiven({"f"}) /\ Given = <<>>

(* Parts are joined one by one. *)
JoinedTo(h, parts, k) == h = [n \in 0 .. k |-> IF n = 0 THEN <<>> ELSE h[n - 1] \o parts[n]]

LEMMA JoinedExists ==
  ASSUME NEW parts, NEW m \in Nat
  PROVE  \E h : JoinedTo(h, parts, m)
<1> DEFINE T == {k \in Nat : \E h : JoinedTo(h, parts, k)}
<1>1. 0 \in T
  <2>1. JoinedTo([n \in 0 .. 0 |-> <<>>], parts, 0)
    BY DEF JoinedTo
  <2> QED
    BY <2>1, Zenon
<1>2. ASSUME NEW k \in Nat, k \in T
      PROVE  k + 1 \in T
  <2>1. PICK h : JoinedTo(h, parts, k)
    BY <1>2, Zenon
  <2> DEFINE e == [n \in 0 .. k + 1 |-> IF n = 0 THEN <<>> ELSE h[n - 1] \o parts[n]]
  <2>2. \A n \in 0 .. k : e[n] = h[n]
    BY <2>1 DEF JoinedTo
  <2> HIDE DEF e
  <2>3. \A n \in 0 .. k + 1 : n # 0 => h[n - 1] = e[n - 1]
    <3> SUFFICES ASSUME NEW n \in 0 .. k + 1, n # 0 PROVE h[n - 1] = e[n - 1]
      OBVIOUS
    <3>1. n - 1 \in 0 .. k
      OBVIOUS
    <3> QED
      BY <3>1, <2>2
  <2>4. JoinedTo(e, parts, k + 1)
    BY <2>3 DEF JoinedTo, e
  <2>5. \E d : JoinedTo(d, parts, k + 1)
    BY <2>4
  <2> QED
    BY <2>5
<1>3. \A k \in Nat : k \in T
  <2> HIDE DEF T
  <2> QED
    BY <1>1, <1>2, AllNumbers
<1>4. m \in T
  BY <1>3, Zenon
<1> QED
  BY <1>4

LEMMA JoinedDef ==
  ASSUME NEW S, NEW parts \in Seq(Seq(S))
  PROVE  /\ Joined(parts)[0] = <<>>
         /\ \A n \in 1 .. Len(parts) : Joined(parts)[n] = Joined(parts)[n - 1] \o parts[n]
         /\ \A n \in 0 .. Len(parts) : Joined(parts)[n] \in Seq(S)
<1>1. \E h : JoinedTo(h, parts, Len(parts))
  <2>1. Len(parts) \in Nat
    OBVIOUS
  <2> QED
    BY <2>1, JoinedExists
<1> DEFINE upto == CHOOSE h : JoinedTo(h, parts, Len(parts))
<1>2. JoinedTo(upto, parts, Len(parts))
  BY <1>1
<1>3. Joined(parts) = upto
  BY DEF Joined, JoinedTo
<1> HIDE DEF upto
<1>4. /\ Joined(parts)[0] = <<>>
      /\ \A n \in 1 .. Len(parts) : Joined(parts)[n] = Joined(parts)[n - 1] \o parts[n]
  <2>1. Len(parts) \in Nat
    OBVIOUS
  <2>2. upto[0] = <<>>
    BY <1>2, <2>1 DEF JoinedTo
  <2>3. ASSUME NEW n \in 1 .. Len(parts) PROVE upto[n] = upto[n - 1] \o parts[n]
    <3>1. n \in 0 .. Len(parts) /\ n # 0
      BY <2>1
    <3> QED
      BY <1>2, <3>1, Zenon DEF JoinedTo
  <2> QED
    BY <1>3, <2>2, <2>3
<1> DEFINE T == {n \in Nat : n <= Len(parts) => Joined(parts)[n] \in Seq(S)}
<1>5. 0 \in T
  <2>1. <<>> \in Seq(S)
    OBVIOUS
  <2> QED
    BY <1>4, <2>1
<1>6. ASSUME NEW n \in Nat, n \in T
      PROVE  n + 1 \in T
  <2> SUFFICES ASSUME n + 1 <= Len(parts) PROVE Joined(parts)[n + 1] \in Seq(S)
    OBVIOUS
  <2>1. n + 1 \in 1 .. Len(parts) /\ (n + 1) - 1 = n
    OBVIOUS
  <2>2. Joined(parts)[n + 1] = Joined(parts)[n] \o parts[n + 1]
    BY <1>4, <2>1
  <2>3. Joined(parts)[n] \in Seq(S) /\ parts[n + 1] \in Seq(S)
    BY <1>6, <2>1
  <2> QED
    BY <2>2, <2>3, ConcatProperties
<1>7. \A n \in Nat : n \in T
  <2> HIDE DEF T
  <2> QED
    BY <1>5, <1>6, AllNumbers
<1>8. \A n \in 0 .. Len(parts) : Joined(parts)[n] \in Seq(S)
  <2> SUFFICES ASSUME NEW n \in 0 .. Len(parts) PROVE Joined(parts)[n] \in Seq(S)
    OBVIOUS
  <2>1. n \in Nat /\ n <= Len(parts)
    OBVIOUS
  <2> QED
    BY <1>7, <2>1
<1> QED
  BY <1>4, <1>8

(* What an option gives, a word, and the words up to each of them. *)
LEMMA GivenByIsSeq ==
  ASSUME NEW o \in Opt
  PROVE  /\ GivenBy(o) \in Seq(Text)
         /\ o.c \notin {"e", "f"} => GivenBy(o) = <<>>
<1>1. o.text \in Text /\ o.lines \in Seq(Text \ {<<>>})
  BY Zenon DEF Opt
<1>2. <<>> \in Text
  BY DEF Text
<1>3. [n \in DOMAIN o.lines |-> IF o.lines[n] = <<NL>> THEN <<>> ELSE o.lines[n]] \in Seq(Text)
  <2>1. \A n \in DOMAIN o.lines : (IF o.lines[n] = <<NL>> THEN <<>> ELSE o.lines[n]) \in Text
    BY <1>1, <1>2
  <2>2. DOMAIN o.lines = 1 .. Len(o.lines) /\ Len(o.lines) \in Nat
    BY <1>1
  <2> QED
    BY <2>1, <2>2
<1>4. <<o.text>> \in Seq(Text) /\ <<>> \in Seq(Text)
  BY <1>1
<1> QED
  BY <1>3, <1>4, Zenon DEF GivenBy

LEMMA GivenInIs ==
  ASSUME argv \in Seq(Word), NEW CONSTANT w \in DOMAIN argv
  PROVE  LET opts == argv[w].opts
         IN  /\ opts \in Seq(Opt)
             /\ GivenIn(w)[0] = <<>>
             /\ \A n \in 1 .. Len(opts) : GivenIn(w)[n] = GivenIn(w)[n - 1] \o GivenBy(opts[n])
             /\ \A n \in 0 .. Len(opts) : GivenIn(w)[n] \in Seq(Text)
<1> DEFINE opts == argv[w].opts
           parts == [n \in DOMAIN opts |-> GivenBy(opts[n])]
<1>1. opts \in Seq(Opt)
  BY OptsAreSeq
<1>2. GivenIn(w) = Joined(parts)
  BY DEF GivenIn
<1> HIDE DEF opts
<1>3. /\ parts \in Seq(Seq(Text)) /\ Len(parts) = Len(opts)
      /\ \A n \in 1 .. Len(opts) : parts[n] = GivenBy(opts[n])
  <2>1. \A n \in DOMAIN opts : GivenBy(opts[n]) \in Seq(Text)
    BY <1>1, GivenByIsSeq
  <2>2. DOMAIN opts = 1 .. Len(opts) /\ Len(opts) \in Nat
    BY <1>1
  <2> HIDE DEF Text, GivenBy
  <2> QED
    BY <2>1, <2>2
<1> HIDE DEF parts
<1>4. /\ Joined(parts)[0] = <<>>
      /\ \A n \in 1 .. Len(parts) : Joined(parts)[n] = Joined(parts)[n - 1] \o parts[n]
      /\ \A n \in 0 .. Len(parts) : Joined(parts)[n] \in Seq(Text)
  BY <1>3, JoinedDef
<1> HIDE DEF Text, GivenBy, Joined
<1>5. /\ opts \in Seq(Opt)
      /\ GivenIn(w)[0] = <<>>
      /\ \A n \in 1 .. Len(opts) : GivenIn(w)[n] = GivenIn(w)[n - 1] \o GivenBy(opts[n])
      /\ \A n \in 0 .. Len(opts) : GivenIn(w)[n] \in Seq(Text)
  BY <1>1, <1>2, <1>3, <1>4
<1> QED
  BY <1>5, Zenon DEF opts

LEMMA GivenUpToIs ==
  ASSUME argv \in Seq(Word)
  PROVE  /\ GivenUpTo[0] = <<>>
         /\ \A w \in 1 .. Len(argv) : GivenUpTo[w] = GivenUpTo[w - 1] \o GivenIn(w)[Len(argv[w].opts)]
         /\ \A w \in 0 .. Len(argv) : GivenUpTo[w] \in Seq(Text)
<1> DEFINE parts == [w \in DOMAIN argv |-> GivenIn(w)[Len(argv[w].opts)]]
<1>1. GivenUpTo = Joined(parts)
  BY DEF GivenUpTo
<1>2. /\ parts \in Seq(Seq(Text)) /\ Len(parts) = Len(argv)
      /\ \A w \in 1 .. Len(argv) : parts[w] = GivenIn(w)[Len(argv[w].opts)]
  <2>1. ASSUME NEW w \in DOMAIN argv PROVE GivenIn(w)[Len(argv[w].opts)] \in Seq(Text)
    <3>1. argv[w].opts \in Seq(Opt)
      BY OptsAreSeq
    <3>2. Len(argv[w].opts) \in 0 .. Len(argv[w].opts)
      BY <3>1
    <3> QED
      BY <3>2, GivenInIs
  <2>2. DOMAIN argv = 1 .. Len(argv) /\ Len(argv) \in Nat
    OBVIOUS
  <2> HIDE DEF Text, GivenIn
  <2> QED
    BY <2>1, <2>2
<1> HIDE DEF parts
<1>3. /\ Joined(parts)[0] = <<>>
      /\ \A w \in 1 .. Len(parts) : Joined(parts)[w] = Joined(parts)[w - 1] \o parts[w]
      /\ \A w \in 0 .. Len(parts) : Joined(parts)[w] \in Seq(Text)
  BY <1>2, JoinedDef
<1> HIDE DEF Text, GivenIn, Joined
<1> QED
  BY <1>1, <1>2, <1>3

LEMMA OperandsUpToIs ==
  ASSUME argv \in Seq(Word)
  PROVE  /\ OperandsUpTo[0] = <<>>
         /\ \A w \in 1 .. Len(argv) :
              /\ argv[w].kind = "operand" => OperandsUpTo[w] = OperandsUpTo[w - 1] \o <<argv[w].text>>
              /\ argv[w].kind # "operand" => OperandsUpTo[w] = OperandsUpTo[w - 1]
         /\ \A w \in 0 .. Len(argv) : OperandsUpTo[w] \in Seq(Text)
<1> DEFINE parts == [w \in DOMAIN argv |-> IF argv[w].kind = "operand" THEN <<argv[w].text>> ELSE <<>>]
<1>1. OperandsUpTo = Joined(parts)
  BY DEF OperandsUpTo
<1>2. /\ parts \in Seq(Seq(Text)) /\ Len(parts) = Len(argv)
      /\ \A w \in 1 .. Len(argv) :
           /\ argv[w].kind = "operand" => parts[w] = <<argv[w].text>>
           /\ argv[w].kind # "operand" => parts[w] = <<>>
  <2>1. ASSUME NEW w \in DOMAIN argv
        PROVE  (IF argv[w].kind = "operand" THEN <<argv[w].text>> ELSE <<>>) \in Seq(Text)
    <3>1. argv[w].text \in Text
      BY OptsAreSeq
    <3>2. <<argv[w].text>> \in Seq(Text) /\ <<>> \in Seq(Text)
      BY <3>1
    <3> QED
      BY <3>2
  <2>2. DOMAIN argv = 1 .. Len(argv) /\ Len(argv) \in Nat
    OBVIOUS
  <2>3. parts \in Seq(Seq(Text)) /\ Len(parts) = Len(argv)
    <3> HIDE DEF Text
    <3> QED
      BY <2>1, <2>2
  <2> QED
    BY <2>2, <2>3
<1> HIDE DEF parts
<1>3. /\ Joined(parts)[0] = <<>>
      /\ \A w \in 1 .. Len(parts) : Joined(parts)[w] = Joined(parts)[w - 1] \o parts[w]
      /\ \A w \in 0 .. Len(parts) : Joined(parts)[w] \in Seq(Text)
  BY <1>2, JoinedDef
<1> HIDE DEF Text, Joined
<1>4. ASSUME NEW w \in 1 .. Len(argv), argv[w].kind # "operand"
      PROVE  Joined(parts)[w] = Joined(parts)[w - 1]
  <2>1. w - 1 \in 0 .. Len(argv) /\ parts[w] = <<>>
    BY <1>2, <1>4
  <2>2. Joined(parts)[w - 1] \in Seq(Text)
    BY <1>2, <1>3, <2>1
  <2>3. Joined(parts)[w - 1] \o <<>> = Joined(parts)[w - 1]
    BY <2>2, ConcatEmptySeq
  <2> QED
    BY <1>2, <1>3, <2>1, <2>3
<1> QED
  BY <1>1, <1>2, <1>3, <1>4

(* Words that are operands give nothing; their texts are kept. *)
LEMMA TextsOfMore ==
  ASSUME NEW ws \in Seq(Word), NEW a \in Nat \ {0}, NEW b \in Nat, a <= b + 1, b + 1 <= Len(ws)
  PROVE  TextsOf(SubSeq(ws, a, b + 1)) = TextsOf(SubSeq(ws, a, b)) \o << ws[b + 1].text >>
<1> DEFINE s == SubSeq(ws, a, b)
           t == SubSeq(ws, a, b + 1)
<1>1. /\ s \in Seq(Word) /\ Len(s) = b - a + 1 /\ \A n \in 1 .. b - a + 1 : s[n] = ws[a + n - 1]
      /\ t \in Seq(Word) /\ Len(t) = b - a + 2 /\ \A n \in 1 .. b - a + 2 : t[n] = ws[a + n - 1]
  BY SubSeqProperties
<1> HIDE DEF s, t
<1> DEFINE ts == TextsOf(s)
           tt == TextsOf(t)
           x == ws[b + 1].text
<1>2. /\ ts \in Seq(Text) /\ Len(ts) = b - a + 1 /\ \A n \in 1 .. b - a + 1 : ts[n] = ws[a + n - 1].text
      /\ tt \in Seq(Text) /\ Len(tt) = b - a + 2 /\ \A n \in 1 .. b - a + 2 : tt[n] = ws[a + n - 1].text
  <2>1. ts \in Seq(Text) /\ tt \in Seq(Text)
    BY <1>1, TextsAreTexts
  <2>2. DOMAIN s = 1 .. b - a + 1 /\ DOMAIN t = 1 .. b - a + 2 /\ b - a + 1 \in Nat /\ b - a + 2 \in Nat
    BY <1>1
  <2>3. DOMAIN ts = 1 .. b - a + 1 /\ DOMAIN tt = 1 .. b - a + 2
    BY <2>2 DEF TextsOf
  <2>4. Len(ts) = b - a + 1 /\ Len(tt) = b - a + 2
    BY <2>1, <2>2, <2>3, LenProperties, SMTT(30)
  <2>5. (\A n \in 1 .. b - a + 1 : ts[n] = ws[a + n - 1].text) /\ (\A n \in 1 .. b - a + 2 : tt[n] = ws[a + n - 1].text)
    BY <1>1, <2>2 DEF TextsOf
  <2> QED
    BY <2>1, <2>4, <2>5
<1>3. x \in Text
  <2>1. b + 1 \in DOMAIN ws
    OBVIOUS
  <2> QED
    BY <2>1, OptsAreSeq
<1> HIDE DEF ts, tt, x
<1> DEFINE xs == <<x>>
<1>4. xs \in Seq(Text) /\ Len(xs) = 1 /\ xs[1] = x
  BY <1>3
<1> HIDE DEF xs
<1>5. /\ ts \o xs \in Seq(Text) /\ Len(ts \o xs) = b - a + 2
      /\ \A n \in 1 .. b - a + 2 : (ts \o xs)[n] = IF n <= Len(ts) THEN ts[n] ELSE xs[n - Len(ts)]
  <2>1. ts \in Seq(Text) /\ xs \in Seq(Text)
    BY <1>2, <1>4
  <2>2. /\ ts \o xs \in Seq(Text) /\ Len(ts \o xs) = Len(ts) + Len(xs)
        /\ \A n \in 1 .. Len(ts) + Len(xs) : (ts \o xs)[n] = IF n <= Len(ts) THEN ts[n] ELSE xs[n - Len(ts)]
    BY <2>1, ConcatProperties
  <2>3. Len(ts) + Len(xs) = b - a + 2
    BY <1>2, <1>4
  <2> QED
    BY <2>2, <2>3, Zenon
<1>6. ASSUME NEW n \in 1 .. b - a + 2 PROVE (ts \o xs)[n] = tt[n]
  <2>1. CASE n <= b - a + 1
    <3>1. n \in 1 .. b - a + 1 /\ n <= Len(ts)
      BY <1>2, <2>1
    <3>2. (ts \o xs)[n] = ts[n]
      BY <1>5, <3>1, Zenon
    <3>3. ts[n] = ws[a + n - 1].text /\ tt[n] = ws[a + n - 1].text
      BY <1>2, <3>1, Zenon
    <3> QED
      BY <3>2, <3>3
  <2>2. CASE n = b - a + 2
    <3>1. n - Len(ts) = 1 /\ ~ (n <= Len(ts)) /\ a + n - 1 = b + 1
      BY <1>2, <2>2
    <3>2. (ts \o xs)[n] = xs[n - Len(ts)]
      BY <1>5, <3>1
    <3>3. tt[n] = ws[b + 1].text
      BY <1>2, <3>1
    <3>4. xs[n - Len(ts)] = x
      BY <1>4, <3>1
    <3> QED
      BY <3>2, <3>3, <3>4 DEF x
  <2>3. n <= b - a + 1 \/ n = b - a + 2
    OBVIOUS
  <2> QED
    BY <2>1, <2>2, <2>3, Zenon
<1>7. ts \o xs = tt
  <2>1. Len(ts \o xs) = Len(tt) /\ \A n \in 1 .. Len(ts \o xs) : (ts \o xs)[n] = tt[n]
    <3> DEFINE both == ts \o xs
    <3>1. Len(both) = b - a + 2 /\ Len(tt) = b - a + 2 /\ \A n \in 1 .. b - a + 2 : both[n] = tt[n]
      BY <1>2, <1>5, <1>6
    <3> HIDE DEF both
    <3>2. Len(both) = Len(tt) /\ \A n \in 1 .. Len(both) : both[n] = tt[n]
      BY <3>1
    <3> QED
      BY <3>2 DEF both
  <2>2. ts \o xs \in Seq(Text) /\ tt \in Seq(Text)
    BY <1>2, <1>5
  <2> QED
    BY <2>1, <2>2, SeqEqual
<1> QED
  BY <1>7 DEF ts, tt, x, xs, s, t

(* Three sequences one behind the other, with the operator under a name that the *)
(* provers do not take apart.                                                *)
Before(s, t) == s \o t
LEMMA BeforeAssociative ==
  ASSUME NEW S, NEW s \in Seq(S), NEW t \in Seq(S), NEW u \in Seq(S)
  PROVE  Before(Before(s, t), u) = Before(s, Before(t, u))
BY ConcatAssociative DEF Before

LEMMA OperandsGiveNothing ==
  ASSUME argv \in Seq(Word), \A v \in DOMAIN argv : WordIsRight(argv[v]),
         NEW CONSTANT a \in 0 .. Len(argv), NEW CONSTANT b \in a .. Len(argv),
         \A v \in a + 1 .. b : argv[v].kind = "operand"
  PROVE  /\ GivenUpTo[b] = GivenUpTo[a]
         /\ OperandsUpTo[b] = OperandsUpTo[a] \o TextsOf(SubSeq(argv, a + 1, b))
<1> DEFINE Right(w) == /\ GivenUpTo[w] = GivenUpTo[a]
                       /\ OperandsUpTo[w] = OperandsUpTo[a] \o TextsOf(SubSeq(argv, a + 1, w))
           T == {m \in Nat : a + m <= b => Right(a + m)}
<1>1. Len(argv) \in Nat /\ a \in Nat /\ b \in Nat
  OBVIOUS
<1>2. \A w \in 0 .. Len(argv) : OperandsUpTo[w] \in Seq(Text) /\ GivenUpTo[w] \in Seq(Text)
  BY GivenUpToIs, OperandsUpToIs
<1>3. 0 \in T
  <2>1. SubSeq(argv, a + 1, a) = <<>>
    BY <1>1, SubSeqEmpty
  <2>2. TextsOf(SubSeq(argv, a + 1, a)) = <<>>
    BY <2>1 DEF TextsOf
  <2>3. OperandsUpTo[a] \o <<>> = OperandsUpTo[a]
    BY <1>2, ConcatEmptySeq
  <2>4. a + 0 = a
    BY <1>1
  <2>5. Right(a + 0)
    BY <2>2, <2>3, <2>4
  <2> HIDE DEF Right
  <2> QED
    BY <2>5
<1>4. ASSUME NEW m \in Nat, m \in T
      PROVE  m + 1 \in T
  <2> HIDE DEF Right
  <2> SUFFICES ASSUME a + (m + 1) <= b PROVE Right(a + (m + 1))
    OBVIOUS
  <2> DEFINE w == a + m
  <2>1. /\ w \in Nat /\ a + (m + 1) = w + 1 /\ w + 1 \in a + 1 .. b /\ w + 1 \in 1 .. Len(argv)
        /\ (w + 1) - 1 = w /\ w \in 0 .. Len(argv) /\ a + 1 \in Nat \ {0} /\ a + 1 <= w + 1
    BY <1>1
  <2>2. Right(w)
    BY <1>1, <1>4
  <2> HIDE DEF w
  <2> USE DEF Right
  <2>3. argv[w + 1].kind = "operand" /\ argv[w + 1].opts = <<>>
    BY <2>1 DEF WordIsRight
  <2>4. GivenUpTo[w + 1] = GivenUpTo[w]
    <3>1. Len(argv[w + 1].opts) = 0
      BY <2>3
    <3>2. GivenIn(w + 1)[0] = <<>>
      <4>1. w + 1 \in DOMAIN argv
        BY <2>1
      <4> QED
        BY <4>1, GivenInIs
    <3>3. GivenUpTo[w + 1] = GivenUpTo[w] \o <<>>
      BY <2>1, <3>1, <3>2, GivenUpToIs
    <3>4. GivenUpTo[w] \in Seq(Text)
      BY <1>2, <2>1
    <3> QED
      BY <3>3, <3>4, ConcatEmptySeq
  <2>5. OperandsUpTo[w + 1] = OperandsUpTo[a] \o TextsOf(SubSeq(argv, a + 1, w + 1))
    <3> DEFINE x == <<argv[w + 1].text>>
               ts == TextsOf(SubSeq(argv, a + 1, w))
    <3>1. OperandsUpTo[w + 1] = OperandsUpTo[w] \o x
      BY <2>1, <2>3, OperandsUpToIs
    <3>2. TextsOf(SubSeq(argv, a + 1, w + 1)) = ts \o x
      <4>1. a + 1 \in Nat \ {0} /\ w \in Nat /\ a + 1 <= w + 1 /\ w + 1 <= Len(argv)
        BY <2>1
      <4> QED
        BY <1>1, <4>1, TextsOfMore
    <3>3. OperandsUpTo[w] = OperandsUpTo[a] \o ts
      BY <2>2
    <3>4. ts \in Seq(Text)
      <4>1. SubSeq(argv, a + 1, w) \in Seq(Word)
        BY <2>1, SubSeqProperties
      <4> QED
        BY <4>1, TextsAreTexts
    <3>5. x \in Seq(Text)
      <4>1. argv[w + 1].text \in Text
        BY <2>1, OptsAreSeq
      <4> QED
        BY <4>1
    <3>6. OperandsUpTo[a] \in Seq(Text)
      BY <1>2
    <3> HIDE DEF x, ts
    <3>7. (OperandsUpTo[a] \o ts) \o x = OperandsUpTo[a] \o (ts \o x)
      <4>1. Before(Before(OperandsUpTo[a], ts), x) = Before(OperandsUpTo[a], Before(ts, x))
        BY <3>4, <3>5, <3>6, BeforeAssociative
      <4> QED
        BY <4>1, Zenon DEF Before
    <3> QED
      BY <3>1, <3>2, <3>3, <3>7, Zenon
  <2>6. Right(w + 1)
    BY <2>2, <2>4, <2>5
  <2> HIDE DEF Right
  <2> QED
    BY <2>1, <2>6
<1>5. \A m \in Nat : m \in T
  <2> HIDE DEF T
  <2> QED
    BY <1>3, <1>4, AllNumbers
<1>6. b - a \in Nat /\ a + (b - a) = b
  BY <1>1
<1>7. Right(a + (b - a))
  <2> HIDE DEF Right
  <2>1. b - a \in T
    BY <1>5, <1>6
  <2> QED
    BY <1>6, <2>1
<1> QED
  BY <1>6, <1>7

(* What getopt_long passes over, and what the option it takes gives. *)
LEMMA PassedNowIs ==
  ASSUME TypeOK, WordsInv, passed = OperandsUpTo[optind - 1]
  PROVE  /\ PassedNow = OperandsUpTo[ThisWord - 1]
         /\ GivenUpTo[ThisWord - 1] = GivenUpTo[optind - 1]
<1>1. argv \in Seq(Word) /\ optind \in 1 .. Len(argv) + 1 /\ \A v \in DOMAIN argv : WordIsRight(argv[v])
  BY DEF TypeOK, WordsInv
<1>2. /\ ThisWord \in optind .. Len(argv) + 1
      /\ \A v \in optind .. ThisWord - 1 : argv[v].kind = "operand"
  BY <1>1, ThisWordIs
<1>3. PassedNow = OperandsUpTo[optind - 1] \o TextsOf(SubSeq(argv, optind, ThisWord - 1))
  BY DEF PassedNow
<1> HIDE DEF ThisWord
<1>4. PICK a, b : a = optind - 1 /\ b = ThisWord - 1
  OBVIOUS
<1>5. /\ a \in 0 .. Len(argv) /\ b \in a .. Len(argv) /\ a + 1 = optind
      /\ \A v \in a + 1 .. b : argv[v].kind = "operand"
  BY <1>1, <1>2, <1>4
<1>6. /\ GivenUpTo[b] = GivenUpTo[a]
      /\ OperandsUpTo[b] = OperandsUpTo[a] \o TextsOf(SubSeq(argv, a + 1, b))
  BY <1>1, <1>5, OperandsGiveNothing
<1> QED
  BY <1>3, <1>4, <1>5, <1>6

(* Each option adds what it gives. *)
LEMMA SoFarStep ==
  ASSUME TypeOK, WordsInv, MoreOptions, NextOption, argv' = argv, passed = OperandsUpTo[optind - 1]
  PROVE  /\ SoFar \in Seq(Text)
         /\ SoFar' = SoFar \o GivenBy(opt)
         /\ passed' = OperandsUpTo'[optind' - 1]
<1> PICK w, k : w = ThisWord /\ k = nextchar
  OBVIOUS
<1> DEFINE opts == argv[w].opts
<1>1. argv \in Seq(Word) /\ optind \in 1 .. Len(argv) + 1 /\ nextchar \in Nat \ {0}
  BY DEF TypeOK, WordsInv
<1>2. /\ w \in DOMAIN argv /\ w \in 1 .. Len(argv) /\ argv[w].kind = "options"
      /\ opts \in Seq(Opt) /\ k \in 1 .. Len(opts)
      /\ k # 1 => w = optind
      /\ opt \in Opt /\ opt = opts[k]
  BY <1>1, OptionHere
<1>3. PassedNow = OperandsUpTo[w - 1] /\ GivenUpTo[w - 1] = GivenUpTo[optind - 1]
  BY PassedNowIs
<1>4. /\ IF k < Len(opts) THEN optind' = w /\ nextchar' = k + 1 ELSE optind' = w + 1 /\ nextchar' = 1
      /\ passed' = OperandsUpTo[w - 1]
  BY <1>3 DEF NextOption
<1>5. /\ GivenUpTo[w - 1] \in Seq(Text)
      /\ GivenUpTo[w] = GivenUpTo[w - 1] \o GivenIn(w)[Len(opts)]
  <2>1. w - 1 \in 0 .. Len(argv)
    BY <1>2
  <2> QED
    BY <1>1, <1>2, <2>1, GivenUpToIs
<1>6. /\ GivenIn(w)[0] = <<>>
      /\ GivenIn(w)[k] = GivenIn(w)[k - 1] \o GivenBy(opt)
      /\ GivenIn(w)[k - 1] \in Seq(Text)
  <2>1. k - 1 \in 0 .. Len(opts)
    BY <1>2
  <2> QED
    BY <1>1, <1>2, <2>1, GivenInIs
<1>7. GivenBy(opt) \in Seq(Text)
  BY <1>2, GivenByIsSeq
<1>8. OperandsUpTo' = OperandsUpTo /\ GivenUpTo' = GivenUpTo /\ \A v : GivenIn(v)' = GivenIn(v)
  <2>1. \A v : GivenIn(v)' = GivenIn(v)
    BY DEF GivenIn
  <2> QED
    BY <2>1 DEF OperandsUpTo, GivenUpTo
<1> HIDE DEF opts, ThisWord, opt
<1>9. SoFar = GivenUpTo[w - 1] \o GivenIn(w)[k - 1]
  <2>1. CASE k = 1
    <3>1. SoFar = GivenUpTo[w - 1]
      BY <1>3, <2>1 DEF SoFar
    <3>2. GivenIn(w)[k - 1] = <<>>
      BY <1>6, <2>1
    <3> QED
      BY <1>5, <3>1, <3>2, ConcatEmptySeq
  <2>2. CASE k # 1
    BY <1>2, <2>2 DEF SoFar
  <2> QED
    BY <2>1, <2>2
<1>10. SoFar' = GivenUpTo[w - 1] \o GivenIn(w)[k]
  <2>1. CASE k < Len(opts)
    <3>1. optind' = w /\ nextchar' = k + 1
      BY <1>4, <2>1
    <3>3. nextchar' # 1 /\ nextchar' - 1 = k
      BY <1>2, <3>1
    <3>2. GivenIn(optind)' = GivenIn(w)
      BY <3>1 DEF GivenIn
    <3> QED
      BY <1>8, <3>1, <3>2, <3>3 DEF SoFar
  <2>2. CASE ~ (k < Len(opts))
    <3>1. optind' = w + 1 /\ nextchar' = 1 /\ k = Len(opts) /\ optind' - 1 = w
      BY <1>2, <1>4, <2>2
    <3>2. SoFar' = GivenUpTo[w]
      BY <1>8, <3>1 DEF SoFar
    <3> QED
      BY <1>5, <3>1, <3>2
  <2> QED
    BY <2>1, <2>2
<1>11. passed' = OperandsUpTo'[optind' - 1]
  <2>1. CASE optind' = w
    BY <1>4, <1>8, <2>1
  <2>2. CASE optind' = w + 1
    <3>1. optind' - 1 = w /\ argv[w].kind # "operand"
      BY <1>2, <2>2
    <3>2. OperandsUpTo[w] = OperandsUpTo[w - 1]
      BY <1>1, <1>2, <3>1, OperandsUpToIs
    <3> QED
      BY <1>4, <1>8, <3>1, <3>2
  <2> QED
    BY <1>4, <2>1, <2>2
<1>12. SoFar' = SoFar \o GivenBy(opt)
  <2>1. Before(Before(GivenUpTo[w - 1], GivenIn(w)[k - 1]), GivenBy(opt))
          = Before(GivenUpTo[w - 1], Before(GivenIn(w)[k - 1], GivenBy(opt)))
    BY <1>5, <1>6, <1>7, BeforeAssociative
  <2> QED
    BY <1>6, <1>9, <1>10, <2>1, Zenon DEF Before
<1>13. SoFar \in Seq(Text)
  <2>1. GivenUpTo[w - 1] \o GivenIn(w)[k - 1] \in Seq(Text)
    BY <1>5, <1>6, ConcatProperties
  <2> QED
    BY <1>9, <2>1, Zenon
<1> QED
  BY <1>11, <1>12, <1>13

(* A pattern that is added is one more taken. *)
LEMMA AddTakes ==
  ASSUME TypeOK, LengthsFit, NEW CONSTANT given \in Seq(Text), NEW CONSTANT k \in Nat, k < Len(given),
         Taken(given, k), add_pattern(given[k + 1])
  PROVE  Taken(given, k + 1)'
<1> DEFINE text == given[k + 1]
<1>1. k + 1 \in 1 .. Len(given) /\ matchall \in BOOLEAN /\ pats \in Seq(Text)
  BY DEF TypeOK
<1>2. text \in Text
  BY <1>1
<1>3. \A n \in 1 .. k + 1 : n \in 1 .. k \/ n = k + 1
  OBVIOUS
<1>4. k + 1 \in 1 .. k + 1 /\ 1 .. k \subseteq 1 .. k + 1
  OBVIOUS
<1>5. CASE matchall /\ UNCHANGED patterns
  <2>1. pats' = pats /\ matchall' = matchall
    BY <1>5 DEF patterns
  <2>2. \E n \in 1 .. k : given[n] = <<>>
    BY <1>5 DEF Taken
  <2> QED
    BY <1>4, <1>5, <2>1, <2>2 DEF Taken
<1>6. CASE ~ matchall /\ text = <<>> /\ pats' = <<text>> /\ matchall' = TRUE
  BY <1>4, <1>6 DEF Taken
<1>7. CASE ~ matchall /\ text # <<>> /\ pats' = Append(pats, Chopped(text)) /\ matchall' = matchall
  <2> DEFINE chopped == Chopped(text)
  <2>1. ~ (\E n \in 1 .. k + 1 : given[n] = <<>>)
    BY <1>3, <1>7 DEF Taken
  <2>2. Len(pats) = k /\ \A n \in 1 .. k : pats[n] = Chopped(given[n])
    BY <1>7 DEF Taken
  <2>3. pats' = Append(pats, chopped)
    BY <1>7
  <2>4. chopped = Chopped(given[k + 1])
    OBVIOUS
  <2> HIDE DEF chopped, Chopped
  <2>5. Len(pats') = k + 1 /\ pats'[k + 1] = chopped /\ \A n \in 1 .. k : pats'[n] = pats[n]
    BY <1>1, <2>2, <2>3
  <2>6. \A n \in 1 .. k + 1 : pats'[n] = Chopped(given[n])
    BY <1>3, <2>2, <2>4, <2>5
  <2> QED
    BY <1>7, <2>1, <2>5, <2>6 DEF Taken
<1> QED
  BY <1>5, <1>6, <1>7 DEF add_pattern

LEMMA TakenOfMore ==
  ASSUME NEW CONSTANT given \in Seq(Text), NEW CONSTANT more \in Seq(Text), NEW CONSTANT k \in 0 .. Len(given),
         Taken(given, k)
  PROVE  Taken(given \o more, k)
<1>1. \A n \in 1 .. Len(given) + Len(more) : (given \o more)[n] = IF n <= Len(given) THEN given[n] ELSE more[n - Len(given)]
  BY ConcatProperties
<1>2. Len(given) \in Nat /\ Len(more) \in Nat
  OBVIOUS
<1>3. \A n \in 1 .. k : (given \o more)[n] = given[n]
  <2> SUFFICES ASSUME NEW n \in 1 .. k PROVE (given \o more)[n] = given[n]
    OBVIOUS
  <2>1. n \in 1 .. Len(given) + Len(more) /\ n <= Len(given)
    BY <1>2
  <2> QED
    BY <1>1, <2>1
<1> QED
  BY <1>3 DEF Taken

LEMMA OptionRight ==
  ASSUME TypeOK, WordsInv, MoreOptions
  PROVE  OptionIsRight(opt)
<1>1. /\ ThisWord \in DOMAIN argv /\ argv[ThisWord].opts \in Seq(Opt)
      /\ nextchar \in 1 .. Len(argv[ThisWord].opts)
      /\ opt = argv[ThisWord].opts[nextchar]
  BY OptionHere
<1> HIDE DEF ThisWord, opt
<1>2. nextchar \in DOMAIN argv[ThisWord].opts
  BY <1>1
<1>3. WordIsRight(argv[ThisWord])
  BY <1>1 DEF WordsInv
<1> QED
  BY <1>1, <1>2, <1>3, Zenon DEF WordIsRight

(* A line gives what read_patterns passes on. *)
LEMMA LineGiven ==
  ASSUME NEW line \in Text \ {<<>>}, \A k \in 1 .. Len(line) - 1 : line[k] # NL
  PROVE  LinePattern(line) = IF line = <<NL>> THEN <<>> ELSE line
<1>1. line \in Seq(Char) /\ Len(line) \in Nat /\ Len(line) > 0
  BY DEF Text
<1>2. CASE line[1] = NL
  <2>1. Len(line) = 1
    <3> SUFFICES ASSUME Len(line) # 1 PROVE FALSE
      OBVIOUS
    <3>1. PICK n \in Nat : n = Len(line)
      BY <1>1
    <3>2. n > 0 /\ n # 1
      BY <1>1, <3>1
    <3>3. 1 \in 1 .. n - 1
      BY <3>2
    <3> QED
      BY <1>2, <3>1, <3>3
  <2>2. line = <<NL>>
    <3> DEFINE only == <<NL>>
    <3>1. Len(only) = 1 /\ only[1] = NL
      OBVIOUS
    <3>2. only \in Seq(Char)
      BY <1>1, <1>2, <2>1
    <3> HIDE DEF only
    <3>3. \A n \in 1 .. Len(line) : line[n] = only[n]
      BY <1>2, <2>1, <3>1
    <3> QED
      BY <1>1, <2>1, <3>1, <3>2, <3>3, SeqEqual DEF only
  <2> QED
    BY <1>2, <2>2 DEF LinePattern
<1>3. CASE line[1] # NL
  <2>1. line # <<NL>>
    BY <1>3
  <2> QED
    BY <1>3, <2>1 DEF LinePattern
<1> QED
  BY <1>2, <1>3

(* The settings give nothing. *)
LEMMA PatternSettings ==
  ASSUME IInv, PatternInv, Settings
  PROVE  PatternInv'
<1>1. TypeOK /\ WordsInv
  BY DEF IInv
<1>2. /\ MoreOptions /\ NextOption /\ c \notin {"e", "f"} /\ pc = "getopt"
      /\ UNCHANGED <<argv, pc, needpattern, lines, pats, lens, matchall>>
  <2> USE DEF patterns, MoreOptions
  <2> HIDE DEF c
  <2>1. Setting
    BY DEF Settings, Digit, Context, DefaultContext, MaxCount, Flag, IgnoreCase, OnlyMatching, WordMatch,
           Color, Headers, Behave, NamePattern
  <2>2. c \notin {"e", "f"}
    BY DEF Settings, Digit, Context, DefaultContext, MaxCount, Flag, IgnoreCase, OnlyMatching, WordMatch,
           Color, Headers, Behave, NamePattern, PlainFlags, BehaviourOptions, Recursive
  <2> QED
    BY <2>1, <2>2 DEF Setting
<1>3. Reading /\ lines = <<>>
  BY <1>2 DEF PatternInv
<1>4. /\ SoFar \in Seq(Text) /\ SoFar' = SoFar \o GivenBy(opt)
      /\ passed' = OperandsUpTo'[optind' - 1]
  BY <1>1, <1>2, <1>3, SoFarStep DEF Reading
<1>5. GivenBy(opt) = <<>>
  BY <1>1, <1>2, OptionHere, GivenByIsSeq DEF c
<1>6. SoFar' = SoFar
  <2>1. SoFar \o <<>> = SoFar
    BY <1>4, ConcatEmptySeq
  <2> QED
    BY <1>4, <1>5, <2>1
<1>7. ReadOf({"e"})' <=> ReadOf({"e"})
  BY <1>1, <1>2, AdvanceReads
<1>8. ReadOf({"e", "f"})' <=> ReadOf({"e", "f"})
  BY <1>1, <1>2, AdvanceReads
<1> HIDE DEF SoFar, ReadOf, c
<1>9. Collected(SoFar, Len(SoFar) - Len(lines))'
  BY <1>2, <1>3, <1>6 DEF Reading, Collected, Taken
<1> QED
  BY <1>2, <1>3, <1>4, <1>7, <1>8, <1>9 DEF PatternInv, Reading, RightLines

LEMMA PatternGiven ==
  ASSUME IInv, PatternInv, Pattern
  PROVE  PatternInv'
<1>1. TypeOK /\ WordsInv /\ LengthsFit
  BY DEF IInv
<1>2. /\ MoreOptions /\ NextOption /\ c = "e" /\ pc = "getopt" /\ add_pattern(opt.text)
      /\ needpattern' = FALSE /\ UNCHANGED <<argv, pc, lines>>
  BY DEF Pattern, MoreOptions
<1>3. Reading /\ lines = <<>>
  BY <1>2 DEF PatternInv
<1>4. /\ SoFar \in Seq(Text) /\ SoFar' = SoFar \o GivenBy(opt)
      /\ passed' = OperandsUpTo'[optind' - 1]
  BY <1>1, <1>2, <1>3, SoFarStep DEF Reading
<1>5. opt \in Opt /\ opt.c = "e"
  BY <1>1, <1>2, OptionHere DEF c
<1>6. opt.text \in Text /\ GivenBy(opt) = <<opt.text>>
  BY <1>5, Zenon DEF Opt, GivenBy
<1>7. pats' # <<>>
  <2> HIDE DEF add_pattern, opt
  <2> QED
    BY <1>1, <1>2, <1>6, AddKeeps
<1>8. ReadOf({"e", "f"})'
  BY <1>1, <1>2, AdvanceReads
<1> HIDE DEF SoFar, ReadOf, c, opt, add_pattern
<1>9. PICK before, after, k : before = SoFar /\ after = SoFar' /\ k = Len(SoFar)
  OBVIOUS
<1> DEFINE more == <<opt.text>>
<1>10. /\ before \in Seq(Text) /\ k \in Nat /\ k = Len(before) /\ after = before \o more
       /\ more \in Seq(Text) /\ Len(more) = 1 /\ more[1] = opt.text
  <2>1. more \in Seq(Text) /\ Len(more) = 1 /\ more[1] = opt.text
    BY <1>6
  <2>2. before \in Seq(Text)
    BY <1>4, <1>9
  <2>3. after = before \o more
    BY <1>4, <1>6, <1>9, Zenon
  <2> HIDE DEF more
  <2> QED
    BY <1>9, <2>1, <2>2, <2>3
<1> HIDE DEF more
<1>11. /\ after \in Seq(Text) /\ Len(after) = k + 1 /\ after[k + 1] = opt.text
  <2>1. /\ before \o more \in Seq(Text) /\ Len(before \o more) = Len(before) + Len(more)
        /\ \A n \in 1 .. Len(before) + Len(more) :
             (before \o more)[n] = IF n <= Len(before) THEN before[n] ELSE more[n - Len(before)]
    BY <1>10, ConcatProperties
  <2>2. Len(before) + Len(more) = k + 1 /\ k + 1 \in 1 .. k + 1 /\ ~ (k + 1 <= Len(before)) /\ (k + 1) - Len(before) = 1
    BY <1>10
  <2> QED
    BY <1>10, <2>1, <2>2
<1>12. Taken(before, k)
  <2>1. Len(lines) = 0 /\ k - 0 = k
    BY <1>3, <1>10
  <2> QED
    BY <1>3, <1>9, <2>1 DEF Reading, Collected
<1>13. Taken(after, k)
  <2> PICK m \in Seq(Text) : m = more
    BY <1>10
  <2>1. k \in 0 .. Len(before)
    BY <1>10
  <2> QED
    BY <1>10, <1>12, <2>1, TakenOfMore
<1>14. Taken(after, k + 1)'
  <2>1. k < Len(after)
    BY <1>10, <1>11
  <2> QED
    BY <1>1, <1>2, <1>10, <1>11, <1>13, <2>1, AddTakes
<1>15. Collected(SoFar, Len(SoFar) - Len(lines))'
  <2>1. Len(lines') = 0 /\ Len(after) - 0 = k + 1 /\ k + 1 \in Nat /\ Len(after) = (k + 1) + 0
    BY <1>2, <1>3, <1>10, <1>11
  <2>2. Collected(after, k + 1)'
    BY <1>14, <2>1 DEF Collected
  <2> QED
    BY <1>9, <2>1, <2>2
<1> QED
  BY <1>2, <1>3, <1>4, <1>7, <1>8, <1>15 DEF PatternInv, Reading, RightLines

(* A file gives its lines, which read_patterns takes one by one. *)
LEMMA PatternFileGiven ==
  ASSUME IInv, PatternInv, PatternFile
  PROVE  PatternInv'
<1>1. TypeOK /\ WordsInv
  BY DEF IInv
<1>2. /\ MoreOptions /\ NextOption /\ c = "f" /\ pc = "getopt" /\ opt.kind # "missing"
      /\ lines' = IF opt.kind = "dir" THEN <<>> ELSE opt.lines
      /\ pc' = "read_patterns"
      /\ needpattern' = FALSE /\ UNCHANGED <<argv, pats, lens, matchall>>
  BY DEF PatternFile, MoreOptions, patterns
<1>3. Reading /\ lines = <<>>
  BY <1>2 DEF PatternInv
<1>4. /\ SoFar \in Seq(Text) /\ SoFar' = SoFar \o GivenBy(opt)
      /\ passed' = OperandsUpTo'[optind' - 1]
  BY <1>1, <1>2, <1>3, SoFarStep DEF Reading
<1>5. opt \in Opt /\ opt.c = "f" /\ OptionIsRight(opt)
  BY <1>1, <1>2, OptionHere, OptionRight DEF c
<1> HIDE DEF c, opt
<1>6. /\ opt.kind \in {"", "file", "dir", "missing"} /\ opt.lines \in Seq(Text \ {<<>>})
      /\ opt.kind # ""
      /\ \A n \in DOMAIN opt.lines : \A k \in 1 .. Len(opt.lines[n]) - 1 : opt.lines[n][k] # NL
  <2>1. opt.kind \in {"", "file", "dir", "missing"} /\ opt.lines \in Seq(Text \ {<<>>})
    BY <1>5, Zenon DEF Opt
  <2> QED
    BY <1>5, <2>1, Zenon DEF OptionIsRight
<1>7. RightLines'
  <2>1. CASE opt.kind = "dir"
    <3>1. lines' = <<>>
      BY <1>2, <2>1
    <3> QED
      BY <3>1 DEF RightLines
  <2>2. CASE opt.kind # "dir"
    <3>1. lines' = opt.lines
      BY <1>2, <2>2
    <3> QED
      BY <1>6, <3>1, Zenon DEF RightLines
  <2> QED
    BY <2>1, <2>2
<1> DEFINE more == GivenBy(opt)
<1>8. /\ more \in Seq(Text) /\ Len(more) = Len(lines')
      /\ \A n \in 1 .. Len(lines') : more[n] = LinePattern(lines'[n])
  <2>1. more \in Seq(Text)
    BY <1>5, GivenByIsSeq
  <2>2. CASE opt.kind = "dir"
    <3>1. lines' = <<>> /\ more = <<>>
      BY <1>2, <1>5, <2>2 DEF GivenBy
    <3> QED
      BY <2>1, <3>1
  <2>3. CASE opt.kind # "dir"
    <3>1. opt.kind = "file" /\ lines' = opt.lines
      BY <1>2, <1>6, <2>3
    <3>2. more = [n \in DOMAIN opt.lines |-> IF opt.lines[n] = <<NL>> THEN <<>> ELSE opt.lines[n]]
      BY <1>5, <3>1 DEF GivenBy
    <3>3. DOMAIN opt.lines = 1 .. Len(opt.lines) /\ Len(opt.lines) \in Nat
      <4>1. opt.lines \in Seq(Text \ {<<>>})
        BY <1>6
      <4> QED
        BY <4>1, LenProperties
    <3>4. ASSUME NEW n \in 1 .. Len(opt.lines) PROVE more[n] = LinePattern(opt.lines[n])
      <4>1. PICK line : line = opt.lines[n]
        OBVIOUS
      <4>2. line \in Text \ {<<>>} /\ \A k \in 1 .. Len(line) - 1 : line[k] # NL
        <5>1. opt.lines \in Seq(Text \ {<<>>})
          BY <1>6
        <5>2. opt.lines[n] \in Text \ {<<>>}
          BY <5>1, ElementOfSeq
        <5>3. n \in DOMAIN opt.lines
          BY <3>3
        <5> QED
          BY <1>6, <4>1, <5>2, <5>3, Zenon
      <4>3. LinePattern(line) = IF line = <<NL>> THEN <<>> ELSE line
        BY <4>2, LineGiven
      <4>4. more[n] = IF line = <<NL>> THEN <<>> ELSE line
        BY <3>2, <3>3, <4>1
      <4> QED
        BY <4>1, <4>3, <4>4, Zenon
    <3>5. DOMAIN more = 1 .. Len(opt.lines)
      BY <3>2, <3>3
    <3> HIDE DEF more
    <3>6. Len(more) = Len(opt.lines)
      BY <2>1, <3>3, <3>5, LenProperties
    <3> QED
      BY <2>1, <3>1, <3>4, <3>6
  <2> QED
    BY <2>2, <2>3
<1>9. ReadOf({"e", "f"})' /\ (ReadOf({"e"})' <=> ReadOf({"e"}))
  BY <1>1, <1>2, AdvanceReads
<1> HIDE DEF SoFar, ReadOf, more
<1>10. PICK before, after, k : before = SoFar /\ after = SoFar' /\ k = Len(SoFar)
  OBVIOUS
<1>11. before \in Seq(Text) /\ k \in Nat /\ k = Len(before) /\ after = before \o more
  <2>1. before \in Seq(Text)
    BY <1>4, <1>10
  <2> QED
    BY <1>4, <1>10, <2>1 DEF more
<1>12. PICK ls : ls = lines'
  OBVIOUS
<1>13. ls \in Seq(Text \ {<<>>}) /\ Len(ls) \in Nat
  BY <1>7, <1>12 DEF RightLines
<1>14. /\ after \in Seq(Text) /\ Len(after) = k + Len(ls)
       /\ \A n \in 1 .. Len(ls) : after[k + n] = LinePattern(ls[n])
  <2>1. /\ before \o more \in Seq(Text) /\ Len(before \o more) = Len(before) + Len(more)
        /\ \A n \in 1 .. Len(before) + Len(more) :
             (before \o more)[n] = IF n <= Len(before) THEN before[n] ELSE more[n - Len(before)]
    BY <1>8, <1>11, ConcatProperties
  <2>2. Len(more) = Len(ls)
    BY <1>8, <1>12
  <2>3. after \in Seq(Text) /\ Len(after) = k + Len(ls)
    BY <1>11, <2>1, <2>2
  <2>4. ASSUME NEW n \in 1 .. Len(ls) PROVE after[k + n] = LinePattern(ls[n])
    <3>1. k + n \in 1 .. Len(before) + Len(more) /\ ~ (k + n <= Len(before)) /\ (k + n) - Len(before) = n
      BY <1>11, <1>13, <2>2
    <3>2. (before \o more)[k + n] = more[n]
      BY <2>1, <3>1
    <3>3. more[n] = LinePattern(ls[n])
      BY <1>8, <1>12
    <3> QED
      BY <1>11, <3>2, <3>3
  <2> QED
    BY <2>3, <2>4
<1>15. Taken(before, k)
  <2>1. Len(lines) = 0 /\ k - 0 = k
    BY <1>3, <1>11
  <2> QED
    BY <1>3, <1>10, <2>1 DEF Reading, Collected
<1>16. Taken(after, k)
  <2> PICK m \in Seq(Text) : m = more
    BY <1>8
  <2>1. k \in 0 .. Len(before)
    BY <1>11
  <2> QED
    BY <1>11, <1>15, <2>1, TakenOfMore
<1>17. Collected(SoFar, Len(SoFar) - Len(lines))'
  <2>1. Len(after) - Len(ls) = k
    BY <1>11, <1>13, <1>14
  <2>2. Taken(after, k)'
    BY <1>2, <1>16 DEF Taken
  <2>3. Collected(after, k)'
    BY <1>11, <1>12, <1>14, <2>2 DEF Collected
  <2> QED
    BY <1>10, <1>12, <2>1, <2>3
<1> QED
  BY <1>2, <1>4, <1>7, <1>9, <1>17 DEF PatternInv, Reading

(* What leaves the words and the place in them leaves what is given alone. *)
LEMMA GivenStays ==
  ASSUME argv' = argv
  PROVE  /\ OperandsUpTo' = OperandsUpTo /\ GivenUpTo' = GivenUpTo /\ LastWord' = LastWord
         /\ UNCHANGED <<optind, nextchar>> => SoFar' = SoFar
<1>1. \A v : GivenIn(v)' = GivenIn(v)
  BY DEF GivenIn
<1>2. OperandsUpTo' = OperandsUpTo /\ GivenUpTo' = GivenUpTo /\ LastWord' = LastWord
  BY <1>1 DEF OperandsUpTo, GivenUpTo, LastWord
<1>3. ASSUME UNCHANGED <<optind, nextchar>> PROVE SoFar' = SoFar
  <2>1. GivenIn(optind)' = GivenIn(optind)
    BY <1>3 DEF GivenIn
  <2> QED
    BY <1>2, <1>3, <2>1 DEF SoFar
<1> QED
  BY <1>2, <1>3

LEMMA PatternLine ==
  ASSUME IInv, PatternInv, SoFar \in Seq(Text), ReadPattern
  PROVE  PatternInv'
<1>1. TypeOK /\ WordsInv /\ LengthsFit
  BY DEF IInv
<1>2. /\ pc = "read_patterns" /\ pc' = "read_patterns"
      /\ lines # <<>> /\ lines' = Tail(lines) /\ add_pattern(LinePattern(Head(lines)))
      /\ UNCHANGED <<argv, optind, nextchar, passed, needpattern>>
  BY DEF ReadPattern, getopt
<1>3. Reading /\ RightLines
  BY <1>2 DEF PatternInv
<1>4. OperandsUpTo' = OperandsUpTo /\ SoFar' = SoFar /\ \A cs : ReadOf(cs)' <=> ReadOf(cs)
  BY <1>2, GivenStays, PlaceStays
<1> HIDE DEF SoFar, ReadOf, add_pattern
<1>5. PICK given, ls, k : given = SoFar /\ ls = lines /\ k = Len(SoFar) - Len(lines)
  OBVIOUS
<1>6. /\ given \in Seq(Text) /\ ls \in Seq(Text \ {<<>>}) /\ ls # <<>>
      /\ k \in Nat /\ Len(given) = k + Len(ls)
      /\ \A n \in 1 .. Len(ls) : given[k + n] = LinePattern(ls[n])
      /\ Taken(given, k)
  BY <1>2, <1>3, <1>5 DEF Reading, Collected, RightLines
<1>7. Len(ls) \in Nat /\ Len(ls) > 0
  <2>1. ls \in Seq(Text \ {<<>>}) /\ ls # <<>>
    BY <1>6
  <2> QED
    BY <2>1, EmptySeq
<1>8. PICK m \in Nat : m = Len(ls)
  BY <1>7
<1> DEFINE rest == Tail(ls)
<1>9. /\ rest \in Seq(Text \ {<<>>}) /\ Len(rest) = m - 1
      /\ \A n \in 1 .. m - 1 : rest[n] = ls[n + 1]
  <2>1. ls \in Seq(Text \ {<<>>}) /\ ls # <<>>
    BY <1>6
  <2> QED
    BY <1>8, <2>1, HeadTailProperties
<1>10. Head(ls) = ls[1] /\ Head(ls) \in Text
  <2>1. ls \in Seq(Text \ {<<>>}) /\ ls # <<>>
    BY <1>6
  <2>2. Head(ls) \in Text \ {<<>>}
    BY <2>1, HeadTailProperties
  <2> QED
    BY <2>2
<1> HIDE DEF rest
<1>11. given[k + 1] = LinePattern(Head(ls))
  BY <1>6, <1>7, <1>10
<1>12. Taken(given, k + 1)'
  <2>1. k < Len(given)
    BY <1>6, <1>7
  <2>2. add_pattern(given[k + 1])
    BY <1>2, <1>5, <1>11
  <2> QED
    BY <1>1, <1>6, <2>1, <2>2, AddTakes
<1>13. lines' = rest
  BY <1>2, <1>5 DEF rest
<1>14. /\ k + 1 \in Nat /\ Len(given) = (k + 1) + Len(rest) /\ Len(given) - Len(rest) = k + 1
  BY <1>6, <1>8, <1>9
<1>15. ASSUME NEW n \in 1 .. Len(rest) PROVE given[(k + 1) + n] = LinePattern(rest[n])
  <2>1. n \in 1 .. m - 1 /\ n + 1 \in 1 .. m /\ k + (n + 1) = (k + 1) + n
    BY <1>6, <1>8, <1>9, <1>15
  <2>2. given[k + (n + 1)] = LinePattern(ls[n + 1])
    BY <1>6, <1>8, <2>1
  <2> QED
    BY <1>9, <2>1, <2>2
<1>16. Collected(given, k + 1)'
  BY <1>12, <1>13, <1>14, <1>15 DEF Collected
<1>17. Reading'
  <2>1. ~ needpattern
    BY <1>2 DEF PatternInv
  <2> QED
    BY <2>1, <1>2, <1>3, <1>4, <1>5, <1>13, <1>14, <1>16 DEF Reading
<1>18. RightLines'
  <2>1. ASSUME NEW n \in 1 .. m - 1, NEW j \in 1 .. Len(rest[n]) - 1 PROVE rest[n][j] # NL
    <3>1. rest[n] = ls[n + 1]
      BY <1>9
    <3>2. n + 1 \in DOMAIN ls
      <4>1. DOMAIN ls = 1 .. m
        BY <1>6, <1>8, LenProperties
      <4> QED
        BY <4>1
    <3>3. j \in 1 .. Len(ls[n + 1]) - 1
      BY <3>1
    <3> QED
      BY <1>3, <1>5, <3>1, <3>2, <3>3, Zenon DEF RightLines
  <2>2. DOMAIN rest = 1 .. m - 1
    BY <1>9, LenProperties
  <2> QED
    BY <1>9, <1>13, <2>1, <2>2, Zenon DEF RightLines
<1>19. pats' # <<>>
  <2>1. LinePattern(Head(lines)) \in Text
    BY <1>5, <1>10 DEF LinePattern, Text
  <2> QED
    BY <1>1, <1>2, <2>1, AddKeeps
<1> QED
  BY <1>2, <1>4, <1>17, <1>18, <1>19 DEF PatternInv

LEMMA SoFarIsSeq ==
  ASSUME TypeOK, WordsInv
  PROVE  SoFar \in Seq(Text)
<1>1. argv \in Seq(Word) /\ optind \in 1 .. Len(argv) + 1 /\ nextchar \in Nat \ {0}
  BY DEF TypeOK, WordsInv
<1>2. GivenUpTo[optind - 1] \in Seq(Text)
  <2>1. optind - 1 \in 0 .. Len(argv)
    BY <1>1
  <2> QED
    BY <1>1, <2>1, GivenUpToIs
<1>3. CASE nextchar = 1
  BY <1>2, <1>3 DEF SoFar
<1>4. CASE nextchar # 1
  <2>1. optind \in DOMAIN argv /\ nextchar <= Len(argv[optind].opts)
    BY <1>4 DEF WordsInv
  <2>2. argv[optind].opts \in Seq(Opt)
    BY <1>1, <2>1, OptsAreSeq
  <2>3. nextchar - 1 \in 0 .. Len(argv[optind].opts)
    BY <1>1, <2>1, <2>2
  <2>4. GivenIn(optind)[nextchar - 1] \in Seq(Text)
    BY <1>1, <2>1, <2>3, GivenInIs
  <2>5. GivenUpTo[optind - 1] \o GivenIn(optind)[nextchar - 1] \in Seq(Text)
    BY <1>2, <2>4, ConcatProperties
  <2> QED
    BY <1>4, <2>5 DEF SoFar
<1> QED
  BY <1>3, <1>4

LEMMA PatternStays ==
  ASSUME PatternInv, UNCHANGED <<argv, optind, nextchar, passed, needpattern, lines, pats, matchall>>,
         pc' = "getopt" => lines = <<>>,
         pc' \in {"getopt", "read_patterns"} => pc \in {"getopt", "read_patterns"},
         pc' = "read_patterns" => pc = "read_patterns"
  PROVE  PatternInv'
<1>1. OperandsUpTo' = OperandsUpTo /\ SoFar' = SoFar /\ \A cs : ReadOf(cs)' <=> ReadOf(cs)
  BY GivenStays, PlaceStays
<1> HIDE DEF SoFar, ReadOf
<1>2. Reading => Reading'
  BY <1>1 DEF Reading, Collected, Taken
<1>3. RightLines => RightLines'
  BY DEF RightLines
<1> QED
  BY <1>1, <1>2, <1>3 DEF PatternInv

(* Where the options are over, all is read that is given. *)
LEMMA AllIsRead ==
  ASSUME IInv, PatternInv, OptionsOver
  PROVE  /\ GivenByOptions \in Seq(Text)
         /\ Taken(GivenByOptions, Len(GivenByOptions))
         /\ Operands = AllOperands
         /\ \A cs : IsGiven(cs) <=> ReadOf(cs)
<1>1. /\ TypeOK /\ WordsInv
      /\ \A w \in DOMAIN argv : w < optind => argv[w].kind # "--"
  BY DEF IInv, HeaderInv
<1>2. /\ argv \in Seq(Word) /\ optind \in 1 .. Len(argv) + 1 /\ nextchar \in Nat \ {0}
      /\ \A w \in DOMAIN argv : WordIsRight(argv[w])
  BY <1>1 DEF TypeOK, WordsInv
<1>3. pc = "getopt" /\ lines = <<>> /\ Reading
  BY DEF OptionsOver, PatternInv
<1>4. \A cs : IsGiven(cs) <=> ReadOf(cs)
  BY <1>1, OptionsOverThere, GivenIsRead
<1>5. /\ ThisWord \in optind .. Len(argv) + 1
      /\ ThisWord <= Len(argv) => argv[ThisWord].kind # "operand"
      /\ \A v \in optind .. ThisWord - 1 : argv[v].kind = "operand"
  BY <1>2, ThisWordIs
<1>6. ThisWord <= Len(argv) => argv[ThisWord].kind # "options"
  BY DEF OptionsOver, MoreOptions
<1>7. /\ PassedNow = OperandsUpTo[ThisWord - 1]
      /\ GivenUpTo[ThisWord - 1] = GivenUpTo[optind - 1]
  BY <1>1, <1>3, PassedNowIs DEF Reading
<1>8. Operands = PassedNow \o TextsOf(SubSeq(argv, ThisWord + 1, Len(argv)))
  BY DEF Operands
<1> HIDE DEF ThisWord
<1>9. PICK end : end = ThisWord
  OBVIOUS
<1>10. nextchar = 1
  <2> SUFFICES ASSUME nextchar # 1 PROVE FALSE
    OBVIOUS
  <2>1. optind \in DOMAIN argv /\ argv[optind].kind = "options"
    BY <1>1 DEF WordsInv
  <2>2. CASE optind = end
    BY <1>2, <1>6, <1>9, <2>1, <2>2
  <2>3. CASE optind # end
    <3>1. optind \in optind .. end - 1
      BY <1>2, <1>5, <1>9, <2>3
    <3> QED
      BY <1>5, <1>9, <2>1, <3>1
  <2> QED
    BY <2>2, <2>3
<1>11. LastWord = end - 1
  <2>1. end \in 1 .. Len(argv) + 1 /\ Len(argv) \in Nat
    BY <1>2, <1>5, <1>9
  <2>2. ASSUME end <= Len(argv) PROVE argv[end].kind = "--"
    <3>1. end \in DOMAIN argv
      BY <2>1, <2>2
    <3>2. argv[end] \in Word
      BY <1>2, <3>1
    <3>3. argv[end].kind \in {"options", "--", "operand"}
      BY <3>2, Zenon DEF Word
    <3> QED
      BY <1>5, <1>6, <1>9, <2>2, <3>3
  <2>3. ASSUME NEW w \in 1 .. end - 1 PROVE argv[w].kind # "--"
    <3>1. CASE w < optind
      <4>1. w \in DOMAIN argv
        BY <1>2, <2>1
      <4> QED
        BY <1>1, <3>1, <4>1
    <3>2. CASE ~ (w < optind)
      <4>1. w \in optind .. end - 1
        BY <1>2, <2>1, <3>2
      <4> QED
        BY <1>5, <1>9, <4>1
    <3> QED
      BY <3>1, <3>2
  <2> QED
    BY <1>2, <2>1, <2>2, <2>3, LastWordIs
<1>12. GivenByOptions = SoFar
  BY <1>7, <1>9, <1>10, <1>11 DEF GivenByOptions, SoFar
<1>13. Operands = AllOperands
  <2>1. LastWord + 2 = end + 1
    BY <1>2, <1>5, <1>9, <1>11
  <2> QED
    BY <1>7, <1>8, <1>9, <1>11, <2>1 DEF AllOperands
<1>14. SoFar \in Seq(Text)
  BY <1>1, SoFarIsSeq
<1>15. Taken(SoFar, Len(SoFar))
  <2>1. Len(lines) = 0 /\ Len(SoFar) - 0 = Len(SoFar)
    BY <1>3, <1>14
  <2> QED
    BY <1>3, <2>1 DEF Reading, Collected
<1> QED
  BY <1>4, <1>12, <1>13, <1>14, <1>15

LEMMA GivenWordsStay ==
  ASSUME argv' = argv
  PROVE  /\ \A cs : IsGiven(cs)' <=> IsGiven(cs)
         /\ GivenByOptions' = GivenByOptions /\ AllOperands' = AllOperands /\ Given' = Given
<1>1. OperandsUpTo' = OperandsUpTo /\ GivenUpTo' = GivenUpTo /\ LastWord' = LastWord
  BY GivenStays
<1>2. \A cs : IsGiven(cs)' <=> IsGiven(cs)
  BY <1>1 DEF IsGiven
<1>3. GivenByOptions' = GivenByOptions /\ AllOperands' = AllOperands
  BY <1>1 DEF GivenByOptions, AllOperands
<1>4. IsGiven({"e", "f"})' <=> IsGiven({"e", "f"})
  BY <1>2
<1> HIDE DEF IsGiven
<1> QED
  BY <1>2, <1>3, <1>4 DEF Given

LEMMA PatternsAllGiven ==
  ASSUME IInv, PatternInv, OptionsDone
  PROVE  AllGiven'
<1>1. TypeOK /\ WordsInv /\ LengthsFit
  BY DEF IInv
<1>2. /\ OptionsOver /\ pc = "getopt" /\ argv' = argv
      /\ IF needpattern THEN Operands # <<>> ELSE pats # <<>>
      /\ TakePattern
  BY DEF OptionsDone, OptionsOver
<1> HIDE DEF OptionsOver, TakePattern
<1>3. /\ GivenByOptions \in Seq(Text)
      /\ Taken(GivenByOptions, Len(GivenByOptions))
      /\ Operands = AllOperands
      /\ IsGiven({"e", "f"}) <=> ReadOf({"e", "f"})
  BY <1>2, AllIsRead
<1>4. Given' = Given /\ AllOperands' = AllOperands /\ (IsGiven({"e", "f"})' <=> IsGiven({"e", "f"}))
  BY <1>2, GivenWordsStay
<1>5. /\ needpattern <=> ~ ReadOf({"e", "f"})
      /\ needpattern => pats = <<>> /\ ~ matchall
  BY <1>2 DEF PatternInv, Reading
<1>6. Operands \in Seq(Text)
  BY <1>1, PassedAreTexts
<1>7. matchall \in BOOLEAN /\ pats \in Seq(Text)
  BY <1>1 DEF TypeOK
<1> HIDE DEF GivenByOptions, AllOperands, Operands, IsGiven, ReadOf
<1>8. CASE needpattern
  <2>1. /\ Given = <<Head(Operands)>> /\ ~ IsGiven({"e", "f"})
        /\ pats = <<>> /\ ~ matchall
        /\ add_pattern(Head(Operands)) /\ files' = Tail(Operands)
    BY <1>2, <1>3, <1>5, <1>8 DEF Given, TakePattern
  <2>2. PICK text \in Text : text = Head(Operands)
    BY <1>2, <1>6, <1>8, HeadTailProperties
  <2>3. files' = (IF IsGiven({"e", "f"}) THEN AllOperands ELSE Tail(AllOperands))'
    BY <1>3, <1>4, <2>1
  <2> DEFINE given == <<text>>
  <2>4. Given' = given /\ given # <<>> /\ DOMAIN given = {1} /\ given[1] = text
    BY <1>4, <2>1, <2>2
  <2>5. CASE text = <<>>
    <3>1. pats' = << <<>> >> /\ matchall'
      BY <2>1, <2>2, <2>5 DEF add_pattern
    <3> HIDE DEF given
    <3> QED
      BY <2>3, <2>4, <2>5, <3>1 DEF AllGiven
  <2>6. CASE text # <<>>
    <3>1. pats' = Append(<<>>, Chopped(text)) /\ matchall' = matchall
      BY <2>1, <2>2, <2>6 DEF add_pattern
    <3>2. pats' = [n \in DOMAIN given |-> Chopped(given[n])]
      <4> HIDE DEF Chopped
      <4>1. Append(<<>>, Chopped(text)) = <<Chopped(text)>>
        OBVIOUS
      <4> QED
        BY <2>4, <3>1, <4>1
    <3> HIDE DEF given
    <3> QED
      BY <2>1, <2>3, <2>4, <2>6, <3>1, <3>2 DEF AllGiven
  <2> QED
    BY <2>5, <2>6
<1>9. CASE ~ needpattern
  <2>1. /\ Given = GivenByOptions /\ IsGiven({"e", "f"})
        /\ pats # <<>> /\ pats' = pats /\ matchall' = matchall /\ files' = Operands
    BY <1>2, <1>3, <1>5, <1>9 DEF Given, TakePattern, patterns
  <2>2. PICK given \in Seq(Text) : given = GivenByOptions
    BY <1>3
  <2>3. /\ matchall <=> \E n \in 1 .. Len(given) : given[n] = <<>>
        /\ ~ matchall => Len(pats) = Len(given) /\ \A n \in 1 .. Len(given) : pats[n] = Chopped(given[n])
    BY <1>3, <2>2 DEF Taken
  <2>4. DOMAIN given = 1 .. Len(given) /\ Len(given) \in Nat
    BY <2>2
  <2>5. files' = (IF IsGiven({"e", "f"}) THEN AllOperands ELSE Tail(AllOperands))'
    BY <1>3, <1>4, <2>1
  <2>6. Given' = given
    BY <1>4, <2>1, <2>2
  <2>7. CASE matchall
    <3>1. pats = << <<>> >>
      BY <1>1, <2>7 DEF LengthsFit
    <3>2. given # <<>>
      BY <2>3, <2>7
    <3> QED
      BY <2>1, <2>3, <2>4, <2>5, <2>6, <2>7, <3>1, <3>2 DEF AllGiven
  <2>8. CASE ~ matchall
    <3>1. given # <<>>
      BY <1>7, <2>1, <2>3, <2>8
    <3>2. pats = [n \in DOMAIN given |-> Chopped(given[n])]
      <4> HIDE DEF Chopped
      <4>1. pats = [n \in 1 .. Len(given) |-> pats[n]]
        BY <1>7, <2>3, <2>8
      <4> QED
        BY <2>3, <2>4, <2>8, <4>1
    <3> QED
      BY <2>1, <2>3, <2>4, <2>5, <2>6, <2>8, <3>1, <3>2 DEF AllGiven
  <2> QED
    BY <2>7, <2>8
<1> QED
  BY <1>8, <1>9

LEMMA NothingGiven ==
  ASSUME IInv, PatternInv, EmptyPatternFile
  PROVE  (IsGiven({"f"}) /\ Given = <<>>)'
<1>1. TypeOK /\ LengthsFit
  BY DEF IInv
<1>2. OptionsOver /\ ~ needpattern /\ pats = <<>> /\ argv' = argv
  BY DEF EmptyPatternFile, Exit
<1> HIDE DEF OptionsOver
<1>3. /\ GivenByOptions \in Seq(Text)
      /\ Taken(GivenByOptions, Len(GivenByOptions))
      /\ \A cs : IsGiven(cs) <=> ReadOf(cs)
  BY <1>2, AllIsRead
<1>4. Given' = Given /\ (IsGiven({"f"})' <=> IsGiven({"f"}))
  BY <1>2, GivenWordsStay
<1>5. ReadOf({"e", "f"}) /\ ~ ReadOf({"e"})
  BY <1>2 DEF PatternInv
<1>6. ReadOf({"f"})
  BY <1>5, Zenon DEF ReadOf
<1> HIDE DEF GivenByOptions, IsGiven, ReadOf
<1>7. Given = GivenByOptions
  BY <1>3, <1>5 DEF Given
<1>8. GivenByOptions = <<>>
  <2>1. ~ matchall
    BY <1>1, <1>2 DEF LengthsFit
  <2>2. Len(GivenByOptions) = 0
    BY <1>2, <1>3, <2>1 DEF Taken
  <2> QED
    BY <1>3, <2>2
<1> QED
  BY <1>3, <1>4, <1>6, <1>7, <1>8

LEMMA InitPatternInv == Init => PatternInv /\ FinalInv
<1> SUFFICES ASSUME Init PROVE PatternInv /\ FinalInv
  OBVIOUS
<1>1. /\ argv \in Seq(Word) /\ optind = 1 /\ nextchar = 1 /\ passed = <<>> /\ pc = "getopt"
      /\ needpattern = TRUE /\ lines = <<>> /\ pats = <<>> /\ matchall = FALSE
  BY InitIInv DEF Init, IInv, WordsInv
<1>2. \A w \in DOMAIN argv : \A n \in DOMAIN argv[w].opts : w \in Nat /\ w >= 1 /\ n \in Nat /\ n >= 1
  <2>1. \A w \in DOMAIN argv : argv[w].opts \in Seq(Opt)
    BY <1>1, OptsAreSeq
  <2> QED
    BY <1>1, <2>1
<1>3. \A cs : ~ ReadOf(cs)
  BY <1>1, <1>2 DEF ReadOf, Passed
<1>4. SoFar = <<>> /\ passed = OperandsUpTo[optind - 1]
  <2>1. GivenUpTo[0] = <<>> /\ OperandsUpTo[0] = <<>> /\ optind - 1 = 0
    BY <1>1, GivenUpToIs, OperandsUpToIs
  <2> QED
    BY <1>1, <2>1 DEF SoFar
<1> HIDE DEF SoFar, ReadOf
<1>5. Collected(SoFar, Len(SoFar) - Len(lines))
  <2>1. Len(<<>>) = 0
    BY EmptySeq
  <2>2. Len(SoFar) - Len(lines) = 0
    BY <1>1, <1>4, <2>1
  <2> QED
    BY <1>1, <1>4, <2>1, <2>2 DEF Collected, Taken
<1>6. Reading
  BY <1>1, <1>4, <1>5 DEF Reading
<1>7. RightLines
  BY <1>1 DEF RightLines
<1> QED
  BY <1>1, <1>3, <1>6, <1>7 DEF PatternInv, FinalInv

(* Main takes the first operand only if nothing else gave a pattern. *)
LEMMA PatternDone ==
  ASSUME PatternInv, OptionsDone
  PROVE  PatternInv'
<1>1. /\ pc' = "compile" /\ UNCHANGED <<argv, optind, nextchar, passed, needpattern, lines>>
      /\ ~ needpattern => pats' = pats
  BY DEF OptionsDone, TakePattern, getopt, patterns
<1>2. \A cs : ReadOf(cs)' <=> ReadOf(cs)
  BY <1>1, PlaceStays
<1>3. ReadOf({"e"}) => ReadOf({"e", "f"})
  BY Zenon DEF ReadOf
<1> HIDE DEF ReadOf
<1>4. RightLines'
  BY <1>1 DEF PatternInv, RightLines
<1> QED
  BY <1>1, <1>2, <1>3, <1>4 DEF PatternInv

LEMMA NextPatternInv == IInv /\ PatternInv /\ FinalInv /\ [Next]_vars => PatternInv' /\ FinalInv'
<1> SUFFICES ASSUME IInv, PatternInv, FinalInv, [Next]_vars PROVE PatternInv' /\ FinalInv'
  OBVIOUS
<1> HIDE DEF c, opt
<1>1. CASE Settings
  <2>1. pc' = "getopt"
    BY <1>1 DEF Settings, Digit, Context, DefaultContext, MaxCount, Flag, IgnoreCase, OnlyMatching, WordMatch,
                Color, Headers, Behave, NamePattern, Setting, MoreOptions
  <2> QED
    BY <1>1, <2>1, PatternSettings DEF FinalInv
<1>2. CASE Pattern
  <2>1. pc' = "getopt"
    BY <1>2 DEF Pattern, MoreOptions
  <2> QED
    BY <1>2, <2>1, PatternGiven DEF FinalInv
<1>3. CASE PatternFile
  <2>1. pc' = "read_patterns"
    BY <1>3 DEF PatternFile
  <2> QED
    BY <1>3, <2>1, PatternFileGiven DEF FinalInv
<1>4. CASE ReadPattern
  <2>1. pc' = "read_patterns"
    BY <1>4 DEF ReadPattern
  <2>2. SoFar \in Seq(Text)
    BY SoFarIsSeq DEF IInv
  <2> QED
    BY <1>4, <2>1, <2>2, PatternLine DEF FinalInv
<1>5. CASE PatternsRead
  <2>1. /\ pc = "read_patterns" /\ pc' = "getopt" /\ lines = <<>>
        /\ UNCHANGED <<argv, optind, nextchar, passed, needpattern, lines, pats, matchall>>
    BY <1>5 DEF PatternsRead, getopt, patterns
  <2> QED
    BY <2>1, PatternStays DEF FinalInv
<1>6. CASE OptionsDone
  <2>1. pc' = "compile"
    BY <1>6 DEF OptionsDone
  <2>2. AllGiven'
    BY <1>6, PatternsAllGiven
  <2> QED
    BY <1>6, <2>1, <2>2, PatternDone DEF FinalInv
<1>7. CASE EmptyPatternFile
  <2>1. /\ pc' = "exited"
        /\ UNCHANGED <<argv, optind, nextchar, passed, needpattern, lines, pats, matchall>>
    BY <1>7 DEF EmptyPatternFile, Exit, getopt, patterns
  <2> QED
    BY <1>7, <2>1, NothingGiven, PatternStays DEF FinalInv
<1>8. CASE ReadFailed \/ Refused \/ Version \/ Usage \/ NotCompiled
  <2>1. Exit(0) \/ Exit(2)
    BY <1>8, Zenon DEF ReadFailed, Refused, Version, Usage, NotCompiled
  <2>2. /\ pc' = "exited" /\ status' # 1
        /\ UNCHANGED <<argv, optind, nextchar, passed, needpattern, lines, pats, matchall>>
    BY <2>1 DEF Exit, getopt, patterns
  <2> QED
    BY <2>2, PatternStays DEF FinalInv
<1>9. CASE Compiled \/ UNCHANGED vars
  <2>1. /\ UNCHANGED <<argv, optind, nextchar, passed, needpattern, lines, pats, matchall, files>>
        /\ \/ pc = "compile" /\ pc' = "search"
           \/ pc' = pc /\ status' = status
    BY <1>9 DEF Compiled, vars, getopt, patterns
  <2>2. PatternInv'
    BY <2>1, PatternStays DEF PatternInv
  <2>3. /\ \A cs : IsGiven(cs)' <=> IsGiven(cs)
        /\ AllOperands' = AllOperands /\ Given' = Given
    BY <2>1, GivenWordsStay
  <2> HIDE DEF IsGiven, AllOperands, Given
  <2>4. AllGiven => AllGiven'
    BY <2>1, <2>3 DEF AllGiven
  <2> QED
    BY <2>1, <2>2, <2>3, <2>4 DEF FinalInv
<1> QED
  BY <1>1, <1>2, <1>3, <1>4, <1>5, <1>6, <1>7, <1>8, <1>9, Zenon DEF Next, Patterns

(* For options and operands in any number and order: what is searched for are   *)
(* the patterns of all -e and -f in order, or else the first operand, and the    *)
(* other operands are files; an empty pattern replaces them all, and grep gives  *)
(* up with status 1 only where -f is given and there is no line in any file.     *)
THEOREM PatternsRight == Spec => []PatternsAsGiven
<1>1. FinalInv => PatternsAsGiven
  BY DEF FinalInv, AllGiven, PatternsAsGiven
<1> QED
  BY <1>1, Invariance, InitPatternInv, NextPatternInv, PTL DEF Spec
=============================================================================
