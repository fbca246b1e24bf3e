------------------------------- MODULE Compile -------------------------------
(***************************************************************************)
(* frec_mcompile: every pattern is compiled by frec_compile, as a literal    *)
(* for Boyer-Moore or else by frec_preprocess_heur, which reads it once,      *)
(* one character per step, and collects the fragments of plain text that      *)
(* each match must have.  Then the way to match all of them is chosen.       *)
(*                                                                         *)
(* A pattern is its text and what it means to the original library: whether  *)
(* that takes it, its anchors, and for each item (a character, a bracket, an  *)
(* item with its repetition) where it ends and which words it stands for, on  *)
(* its own and with all before it.  Memory does not run out here, but the     *)
(* table of Wu-Manber may.                                                 *)
(***************************************************************************)
EXTENDS RegexParser, Preg, FiniteSets

CONSTANTS PatternLists,
          MAX_FRAGMENTS,
          Uninitialized     \* what may be read where nothing was written

Pattern == [text : Seq(STRING), valid : BOOLEAN, extended : BOOLEAN, reg_newline : BOOLEAN,
            reg_literal : BOOLEAN, bol : BOOLEAN, eol : BOOLEAN,
            items : Seq([length : Nat, own : SUBSET Seq(STRING), words : SUBSET Seq(STRING)])]

ASSUME FragmentsAssumption == MAX_FRAGMENTS \in Nat \ {0}
ASSUME PatternsAssumption ==
  \A ps \in PatternLists : ps \in Seq(Pattern) /\ ps # <<>> /\ \A n \in DOMAIN ps :
    LET items == ps[n].items
    IN /\ items # <<>> /\ items[1].length = 0 /\ items[1].words = {<<>>}
       /\ items[Len(items)].length = Len(ps[n].text)

VARIABLES patterns,
          pc,
          k,                      \* the pattern that is compiled
          at, escaped, fragment,  \* frec_preprocess_heur
          fragments, max_length, length_known, may_match_lf, has_literal_prefix,
          frecs,                  \* the compiled patterns
          type, err, wu_manber,   \* of mfrec; err counts from zero
          freed                   \* patterns that were freed again

parser  == <<at, escaped, fragment, fragments, max_length, length_known, may_match_lf, has_literal_prefix>>
mfrec   == <<type, err, wu_manber, freed>>
vars    == <<patterns, pc, k, parser, frecs, mfrec>>

p == patterns[k]
Char(n) == p.text[n]
MaxOf(a, b) == IF a > b THEN a ELSE b

Init ==
  /\ patterns \in PatternLists
  /\ pc = "frec_compile" /\ k = 1
  /\ at = 1 /\ escaped = FALSE /\ fragment = <<>>
  /\ fragments = <<>> /\ max_length = 0 /\ length_known = TRUE
  /\ may_match_lf = FALSE /\ has_literal_prefix = TRUE
  /\ frecs = <<>>
  /\ type = "unset" /\ err = -1 /\ wu_manber = <<>> /\ freed = {}
-----------------------------------------------------------------------------
(* frec_compile *)
Compiled(kind, lit, max) ==
  /\ frecs' = Append(frecs, [kind |-> kind, lit |-> lit, max |-> max])
  /\ k' = k + 1
  /\ pc' = IF k < Len(patterns) THEN "frec_compile" ELSE "mcompile"
  /\ UNCHANGED <<patterns, mfrec>>

is_literal(q) == q.reg_literal \/ IsPatternLiteral(q.text, q.extended)

(* bm_compile_full takes what is plain but for a leading '^'.               *)
CompilesFull(q) == IsPatternLiteral(Stripped(q.text), q.extended)

CompileLiteral ==
  /\ pc = "frec_compile" /\ p.valid
  /\ is_literal(p)
  /\ Compiled("literal", p.text, -1)
  /\ UNCHANGED parser

CompileFull ==
  /\ pc = "frec_compile" /\ p.valid
  /\ ~ is_literal(p) /\ CompilesFull(p)
  /\ Compiled("literal", StandsFor(Stripped(p.text), p.extended), -1)
  /\ UNCHANGED parser

(* heur_parser_init, and the first lines of frec_preprocess_heur. *)
CompileHeuristic ==
  /\ pc = "frec_compile" /\ p.valid
  /\ ~ is_literal(p) /\ ~ CompilesFull(p)
  /\ pc' = "preprocess"
  /\ at' = 1 /\ escaped' = FALSE /\ fragment' = <<>>
  /\ fragments' = <<>> /\ max_length' = 0 /\ length_known' = TRUE
  /\ may_match_lf' = FALSE /\ has_literal_prefix' = TRUE
  /\ UNCHANGED <<patterns, k, frecs, mfrec>>

(* frec_mregfree: the patterns before the one that failed, or all.           *)
Until(e) == IF e # -1 THEN e ELSE Len(patterns)

(* The original library does not take the pattern. *)
BadPattern ==
  /\ pc = "frec_compile" /\ ~ p.valid
  /\ err' = k - 1
  /\ freed' = 1 .. Until(k - 1)
  /\ pc' = "failed"
  /\ UNCHANGED <<patterns, k, parser, frecs, type, wu_manber>>
-----------------------------------------------------------------------------
(* frec_preprocess_heur *)
Reading == pc = "preprocess" /\ at <= Len(p.text)
Result == Reads(Char(at), escaped, p.extended)

Advance(to) ==
  /\ escaped' = Escapes(Char(at), escaped)
  /\ at' = to + 1

Skip ==
  /\ Reading /\ Result = "SHOULD_SKIP"
  /\ Advance(at)
  /\ UNCHANGED <<patterns, pc, k, fragment, fragments, max_length, length_known, may_match_lf,
                 has_literal_prefix, frecs, mfrec>>

NormalChar ==
  /\ Reading /\ Result \in {"NORMAL_CHAR", "NORMAL_NEWLINE"}
  /\ Advance(at)
  /\ fragment' = Append(fragment, IF Result = "NORMAL_NEWLINE" THEN Newline ELSE Char(at))
  /\ max_length' = max_length + 1
  /\ may_match_lf' = (may_match_lf \/ Result = "NORMAL_NEWLINE")
  /\ UNCHANGED <<patterns, pc, k, fragments, length_known, has_literal_prefix, frecs, mfrec>>

(* No heuristic: the original matcher is left alone with the pattern. *)
GiveUp == Compiled("none", <<>>, -1) /\ UNCHANGED parser

Unsupported ==
  /\ Reading /\ Result \in {"BAD_PATTERN", "SPEC_PIPE"}
  /\ GiveUp

(* Faulty: the last character is kept. *)
RequiredWhole == fragment
(* The part of the fragment that each match must have. *)
Required ==
  IF Result \in {"SPEC_CURLYBRACE", "SPEC_ASTERISK", "SPEC_QMARK"}
  THEN SubSeq(fragment, 1, MaxOf(0, Len(fragment) - 1)) ELSE fragment

VariableLength == {"SPEC_CURLYBRACE", "SPEC_ASTERISK", "SPEC_QMARK", "SPEC_PLUS", "SPEC_PAREN"}

(* heur_parser_push *)
CanPush(f) == f = <<>> \/ Len(fragments) < MAX_FRAGMENTS
Push(f) ==
  /\ fragments' = IF f = <<>> THEN fragments ELSE Append(fragments, f)
  /\ has_literal_prefix' = (has_literal_prefix /\ (f # <<>> \/ fragments # <<>>))

TooManyFragments ==
  /\ Reading /\ Result \notin Plain \cup {"BAD_PATTERN", "SPEC_PIPE"}
  /\ ~ CanPush(Required)
  /\ GiveUp

(* A special character ends the fragment; what it opens is skipped up to to. *)
EndFragment(to, width, lf) ==
  /\ CanPush(Required)
  /\ Push(Required)
  /\ fragment' = <<>>
  /\ length_known' = (length_known /\ Result \notin VariableLength)
  /\ max_length' = max_length + width
  /\ may_match_lf' = (may_match_lf \/ lf)
  /\ Advance(to)
  /\ UNCHANGED <<patterns, pc, k, frecs, mfrec>>

Special ==
  /\ Reading
  /\ Result \in {"SPEC_ASTERISK", "SPEC_QMARK", "SPEC_PLUS", "SPEC_CARET", "SPEC_DOLLAR"}
  /\ EndFragment(at, 0, FALSE)

Dot ==
  /\ Reading /\ Result = "SPEC_DOT"
  /\ EndFragment(at, 1, TRUE)

(* handle_square_bracket: from a to the first ']', with no '[' before it.    *)
Negated(s, a) == a < Len(s) /\ s[a + 1] = "^"
Inside(s, a) == (IF Negated(s, a) THEN a + 2 ELSE a + 1) .. Len(s)
BracketEnds(s, a) == {n \in Inside(s, a) : s[n] \in {"[", "]"}}
BracketEnd(s, a) ==
  IF BracketEnds(s, a) = {} THEN Len(s) + 1
  ELSE CHOOSE n \in BracketEnds(s, a) : \A m \in BracketEnds(s, a) : n <= m
BracketOpensAnother(s, a) == BracketEnds(s, a) # {} /\ s[BracketEnd(s, a)] = "["
BracketMatchesLf(s, a) == Negated(s, a) \/ \E n \in Inside(s, a) : n < BracketEnd(s, a) /\ s[n] = Newline

Bracket ==
  /\ Reading /\ Result = "SPEC_BRACKET"
  /\ ~ BracketOpensAnother(p.text, at)
  /\ EndFragment(BracketEnd(p.text, at), 1, BracketMatchesLf(p.text, at))

(* handle_enclosure: from a to where as many are closed as were opened.      *)
Closes(c) == IF c = "(" THEN ")" ELSE "}"
Depth(s, a, n) == Cardinality({m \in a .. n : s[m] = s[a]}) - Cardinality({m \in a .. n : s[m] = Closes(s[a])})
EnclosureEnds(s, a) == {n \in a .. Len(s) : Depth(s, a, n) = 0}
EnclosureEnd(s, a) == CHOOSE n \in EnclosureEnds(s, a) : \A m \in EnclosureEnds(s, a) : n <= m
EnclosureMatchesLf(s, a) == \E n \in a .. EnclosureEnd(s, a) : s[n] \in {".", Newline}

Enclosure ==
  /\ Reading /\ Result \in {"SPEC_PAREN", "SPEC_CURLYBRACE"}
  /\ EnclosureEnds(p.text, at) # {}
  /\ EndFragment(EnclosureEnd(p.text, at), 0, EnclosureMatchesLf(p.text, at))

(* Neither is closed.                                                       *)
Unclosed(result, s, a) ==
  \/ result = "SPEC_BRACKET" /\ BracketOpensAnother(s, a)
  \/ result \in {"SPEC_PAREN", "SPEC_CURLYBRACE"} /\ EnclosureEnds(s, a) = {}

NotClosed == Reading /\ Unclosed(Result, p.text, at) /\ GiveUp

LastFragment ==
  /\ pc = "preprocess" /\ at > Len(p.text)
  /\ IF CanPush(fragment)
     THEN /\ pc' = "build_heuristic"
          /\ fragments' = IF fragment = <<>> THEN fragments ELSE Append(fragments, fragment)
          /\ UNCHANGED <<patterns, k, at, escaped, fragment, max_length, length_known, may_match_lf,
                         has_literal_prefix, frecs, mfrec>>
     ELSE GiveUp

(* Faulty: whether the first fragment begins each match is not asked. *)
HeurTypeByNewlineFlag == IF p.reg_newline \/ ~ may_match_lf THEN "longest" ELSE "prefix"
(* build_heuristic *)
HeurType ==
  IF length_known \/ p.reg_newline \/ ~ may_match_lf THEN "longest"
  ELSE IF has_literal_prefix THEN "prefix" ELSE "none"

(* The first of the longest fragments. *)
Longest ==
  CHOOSE n \in DOMAIN fragments : \A m \in DOMAIN fragments :
    Len(fragments[n]) > Len(fragments[m]) \/ (Len(fragments[n]) = Len(fragments[m]) /\ n <= m)

(* Without fragments the place of the first one is read all the same.        *)
BestFragments ==
  IF fragments = <<>> THEN Uninitialized
  ELSE {fragments[IF HeurType = "prefix" THEN 1 ELSE Longest]}

BuildHeuristic ==
  /\ pc = "build_heuristic"
  /\ IF HeurType = "none" THEN Compiled("none", <<>>, -1)
     ELSE \E f \in BestFragments : Compiled(HeurType, f, IF length_known THEN max_length ELSE -1)
  /\ UNCHANGED parser
-----------------------------------------------------------------------------
(* frec_mcompile, all patterns being compiled.  The literals that the        *)
(* Wu-Manber matcher is given are those of the patterns, or the patterns.    *)
NoHeur == \E n \in DOMAIN frecs : frecs[n].kind = "none"
are_literal == \A n \in DOMAIN patterns : is_literal(patterns[n])

ChooseSingle ==
  /\ pc = "mcompile" /\ Len(patterns) = 1
  /\ type' = "MHEUR_SINGLE" /\ pc' = "compiled"
  /\ UNCHANGED <<patterns, k, parser, frecs, err, wu_manber, freed>>

ChooseLiteral ==
  /\ pc = "mcompile" /\ Len(patterns) > 1
  /\ are_literal
  /\ type' = "MHEUR_LITERAL" /\ pc' = "wm_compile"
  /\ wu_manber' = [n \in DOMAIN patterns |-> patterns[n].text]
  /\ UNCHANGED <<patterns, k, parser, frecs, err, freed>>

ChooseNone ==
  /\ pc = "mcompile" /\ Len(patterns) > 1
  /\ ~ are_literal /\ NoHeur
  /\ type' = "MHEUR_NONE" /\ pc' = "compiled"
  /\ UNCHANGED <<patterns, k, parser, frecs, err, wu_manber, freed>>

(* Faulty: the literals of the patterns are not used. *)
PatternTexts == [n \in DOMAIN patterns |-> patterns[n].text]
PatRefs == [n \in DOMAIN frecs |-> frecs[n].lit]

ChooseLongest ==
  /\ pc = "mcompile" /\ Len(patterns) > 1
  /\ ~ are_literal /\ ~ NoHeur
  /\ type' = "MHEUR_LONGEST" /\ pc' = "wm_compile"
  /\ wu_manber' = PatRefs
  /\ UNCHANGED <<patterns, k, parser, frecs, err, freed>>

WmCompiles ==
  /\ pc = "wm_compile"
  /\ pc' = "compiled"
  /\ UNCHANGED <<patterns, k, parser, frecs, mfrec>>

WmCompileFails ==
  /\ pc = "wm_compile"
  /\ freed' = 1 .. Until(err)
  /\ pc' = "failed"
  /\ UNCHANGED <<patterns, k, parser, frecs, type, err, wu_manber>>

Preprocess ==
  \/ Skip \/ NormalChar \/ Unsupported \/ TooManyFragments
  \/ Special \/ Dot \/ Bracket \/ Enclosure \/ NotClosed
  \/ LastFragment \/ BuildHeuristic
Choose == ChooseSingle \/ ChooseLiteral \/ ChooseNone \/ ChooseLongest
Next ==
  \/ CompileLiteral \/ CompileFull \/ CompileHeuristic \/ BadPattern
  \/ Preprocess \/ Choose \/ WmCompiles \/ WmCompileFails

Spec == Init /\ [][Next]_vars
-----------------------------------------------------------------------------
(* What patterns mean to the original library, item by item, where heuristic.c  *)
(* has a notion of it.  A bracket is one that ends at its first ']'; what a     *)
(* group matches has a line feed only if there is one, or '.', in its text; and *)
(* an item has one repetition at most.                                       *)
HasNewline(w) == \E n \in DOMAIN w : w[n] = Newline

(* The character at a, or behind an escaping backslash there, and its meaning.  *)
HeadAt(s, a) == IF s[a] = Backslash THEN a + 1 ELSE a
AnswerAt(q, a) == Reads(q.text[HeadAt(q.text, a)], q.text[a] = Backslash, q.extended)
CharAt(q, a) == IF AnswerAt(q, a) = "NORMAL_NEWLINE" THEN Newline ELSE q.text[HeadAt(q.text, a)]

(* What begins at a ends at to... *)
EndsAt(q, a, to) ==
  LET head == HeadAt(q.text, a)
  IN /\ head <= to /\ ~ Unclosed(AnswerAt(q, a), q.text, head)
     /\ to = CASE AnswerAt(q, a) = "SPEC_BRACKET" -> BracketEnd(q.text, head)
               [] AnswerAt(q, a) \in {"SPEC_PAREN", "SPEC_CURLYBRACE"} -> EnclosureEnd(q.text, head)
               [] OTHER -> head

(* ...or frec_preprocess_heur gives up there, before to. *)
StopsAt(q, a, to) ==
  /\ a <= to /\ HeadAt(q.text, a) <= to
  /\ \/ AnswerAt(q, a) \in {"BAD_PATTERN", "SPEC_PIPE"}
     \/ Unclosed(AnswerAt(q, a), q.text, HeadAt(q.text, a))

Literally == {"NORMAL_CHAR", "NORMAL_NEWLINE"}
OneOfMany == {"SPEC_DOT", "SPEC_BRACKET"}
Anchors == {"SPEC_CARET", "SPEC_DOLLAR"}
Repetitions == {"SPEC_CURLYBRACE", "SPEC_ASTERISK", "SPEC_QMARK", "SPEC_PLUS"}

MatchesLf(q, a) ==
  \/ AnswerAt(q, a) \in {"NORMAL_NEWLINE", "SPEC_DOT"}
  \/ AnswerAt(q, a) = "SPEC_BRACKET" /\ BracketMatchesLf(q.text, HeadAt(q.text, a))
  \/ AnswerAt(q, a) = "SPEC_PAREN" /\ EnclosureMatchesLf(q.text, HeadAt(q.text, a))

(* The words of an item, without a repetition and with that at r.             *)
MeansOnce(q, a, own) ==
  /\ AnswerAt(q, a) \in Literally => own = {<<CharAt(q, a)>>}
  /\ AnswerAt(q, a) \in OneOfMany => \A w \in own : Len(w) = 1
  /\ AnswerAt(q, a) \in Anchors => own = {<<>>}
MeansRepeated(q, a, r, own) ==
  AnswerAt(q, r) = "SPEC_PLUS" /\ AnswerAt(q, a) \in Literally =>
    \A w \in own : w # <<>> /\ Head(w) = CharAt(q, a)

(* An item from a to to: it ends at mid, but for a repetition behind that.     *)
ItemMeans(q, a, to, own) ==
  \/ StopsAt(q, a, to)
  \/ \E mid \in a .. to :
       /\ AnswerAt(q, a) \in Literally \cup OneOfMany \cup Anchors \cup {"SPEC_PAREN"}
       /\ EndsAt(q, a, mid)
       /\ \/ StopsAt(q, mid + 1, to)
          \/ /\ \A w \in own : HasNewline(w) => MatchesLf(q, a)
             /\ \/ mid = to /\ MeansOnce(q, a, own)
                \/ /\ mid < to /\ EndsAt(q, mid + 1, to)
                   /\ AnswerAt(q, mid + 1) \in Repetitions /\ MeansRepeated(q, a, mid + 1, own)

Joined(before, own) == {u \o v : u \in before, v \in own}
Words(q) == q.items[Len(q.items)].words

(* In front of a pattern '^' is an anchor, at its end '$'; with REG_LITERAL      *)
(* there are none.  In its items they are anchors as well, and '*' repeats    *)
(* something (Anchors, Repetitions): a basic expression in which they are     *)
(* ordinary characters, like a^b, a$b or *a, is not one of these patterns.   *)
PatternMeans(q) ==
  /\ q.reg_literal => Words(q) = {q.text} /\ ~ q.bol /\ ~ q.eol
  /\ q.bol => q.text # <<>> /\ q.text[1] = "^"
  /\ q.eol => q.text # <<>> /\ q.text[Len(q.text)] = "$"
  /\ q.valid /\ ~ q.reg_literal => \A n \in 1 .. Len(q.items) - 1 :
       LET before == q.items[n]
           item   == q.items[n + 1]
       IN /\ before.length < item.length
          /\ item.words = Joined(before.words, item.own)
          /\ ItemMeans(q, before.length + 1, item.length, item.own)

(* The empty pattern is not given with others: grep has it replace them.       *)
ASSUME MeaningAssumption ==
  \A ps \in PatternLists : \A n \in DOMAIN ps :
    PatternMeans(ps[n]) /\ (Len(ps) > 1 => ps[n].text # <<>>)
-----------------------------------------------------------------------------
(* The words of the part of the pattern that was read, at the end of an item. *)
ItemsRead == {n \in DOMAIN p.items : p.items[n].length = at - 1}

Places(u, w, from) == {n \in from .. Len(w) - Len(u) : SubSeq(w, n + 1, n + Len(u)) = u}

(* The strings of fs occur in w one behind the other, and last ends it: the   *)
(* first place is the best for each.                                        *)
FirstEnd(u, w, from) ==
  IF Places(u, w, from) = {} THEN Len(w) + 1
  ELSE (CHOOSE x \in Places(u, w, from) : \A y \in Places(u, w, from) : x <= y) + Len(u)
Behind(fs, w) ==
  LET behind[n \in 0 .. Len(fs)] == IF n = 0 THEN 0 ELSE FirstEnd(fs[n], w, behind[n - 1])
  IN behind
OccurIn(fs, w, last) ==
  LET rest == Len(w) - Len(last)
  IN Behind(fs, w)[Len(fs)] <= rest /\ SubSeq(w, rest + 1, Len(w)) = last

(* Whatever was read of a pattern, at the end of each item: every word that   *)
(* it stands for has all fragments, in order and apart from each other, and   *)
(* ends with the one that is not finished; is not longer than max_length if   *)
(* that is known; has a line feed only if that was noticed; and begins with   *)
(* the first fragment if has_literal_prefix says so.                        *)
FragmentsInEveryWord ==
  pc = "preprocess" => \A n \in ItemsRead : \A w \in p.items[n].words :
    /\ OccurIn(fragments, w, fragment)
    /\ length_known => Len(w) <= max_length
    /\ HasNewline(w) => may_match_lf
    /\ has_literal_prefix => IsStart(IF fragments = <<>> THEN fragment ELSE fragments[1], w)

(* What match.c is given of pattern n. *)
Preg(n) == [kind |-> frecs[n].kind, lit |-> frecs[n].lit, max |-> frecs[n].max,
            words |-> Words(patterns[n]), bol |-> patterns[n].bol, eol |-> patterns[n].eol]

(* Patterns with a fragment at all; literals without escapes (run bm_escapes) *)
(* and without '^', to which a terminator is added; and, with REG_NEWLINE, no *)
(* pattern with a line feed of its own, for which the bound of a line is      *)
(* wrong.                                                                  *)
Covered(n) ==
  /\ frecs[n].lit \notin Uninitialized
  /\ frecs[n].kind = "literal" =>
       patterns[n].reg_literal \/ \A m \in DOMAIN patterns[n].text : patterns[n].text[m] \notin {Backslash, "^"}
  /\ patterns[n].reg_newline => \A w \in Words(patterns[n]) : ~ HasNewline(w)

(* A compiled pattern is what the matchers take it for: its literal is in     *)
(* each match, not farther from its ends than the bound or the ends of the    *)
(* line, or at its start.  Match assumes no more than this.                  *)
Promise == \A n \in DOMAIN frecs : Covered(n) => KeepsPromise(Preg(n), Newline)

(* When many patterns are searched for at once, the list that Wu-Manber gets  *)
(* has for each pattern, under its number, a literal that no match lacks.     *)
CandidatesComplete ==
  pc = "compiled" /\ type \in {"MHEUR_LITERAL", "MHEUR_LONGEST"} =>
    /\ DOMAIN wu_manber = DOMAIN patterns
    /\ \A n \in DOMAIN patterns : Covered(n) =>
         wu_manber[n] # <<>> /\ \A w \in Words(patterns[n]) : IsInfix(wu_manber[n], w)

(* When the list cannot be compiled, for a pattern or for Wu-Manber, what was *)
(* compiled of the patterns is freed, and nothing is freed that was not.      *)
FailureFreesCompiled == pc = "failed" => freed = DOMAIN frecs

(* Where Wu-Manber is chosen, each pattern has a place in its list, and where  *)
(* the literals are those of the heuristics, no pattern is without one.       *)
EveryPatternListed ==
  pc \in {"wm_compile", "compiled"} /\ type \in {"MHEUR_LITERAL", "MHEUR_LONGEST"} =>
    /\ DOMAIN wu_manber = DOMAIN patterns
    /\ type = "MHEUR_LONGEST" => \A n \in DOMAIN frecs : frecs[n].kind # "none"
=============================================================================
