----------------------------- MODULE BoyerMoore -----------------------------
(***************************************************************************)
(* The single-pattern matcher: frec_compile decides whether a pattern is a  *)
(* literal, bm_compile_literal or bm_compile_full builds the turbo          *)
(* Boyer-Moore tables, bm_execute searches a text.  Each loop is modelled   *)
(* one iteration per step.  Strings are single-byte ones of 7-bit           *)
(* characters, compiled without REG_ICASE; "NUL" is the terminator.         *)
(*                                                                         *)
(* Positions count from 0 as in C; position q is element q + 1.             *)
(***************************************************************************)
EXTENDS Integers, Sequences, RegexParser, MapOps

CONSTANTS Char,       \* the alphabet
          Inputs,     \* what frec_compile may be given: records
                      \*   [pattern, extended, literal]
          Texts,      \* the texts bm_execute may be given
          Flags       \* the sets of execution flags it may be given

ASSUME InputsAssumption ==
  /\ \A in \in Inputs : /\ in.pattern \in Seq(Char)
                        /\ in.extended \in BOOLEAN /\ in.literal \in BOOLEAN
  /\ \A t \in Texts : t \in Seq(Char)
  /\ "NUL" \in Char
  /\ \A fl \in Flags : fl \subseteq {"REG_NOTBOL", "REG_NOTEOL"}

VARIABLES input,                         \* the pattern and flags of frec_compile
          pc,                            \* which loop is running
          pattern,                       \* comp->pattern
          has_bol, has_eol, has_glob,    \* comp->has_..._anchor, has_glob_match
          bad_shifts, good_shifts,       \* comp->bad_shifts_stnd, good_shifts
          suff,                          \* the suffix lengths computed so far
          i, j, f, g,                    \* loop variables
          given, eflags,                 \* the text and the flags of bm_execute
          text,                          \* what of the text is searched
          srch_pos, shift, prev_suf,     \* the state of exec_turbo_bm
          result, ret                    \* what the calls report

comp == <<pattern, has_bol, has_eol, has_glob, bad_shifts, good_shifts>>
asked == <<given, eflags>>
vars == <<input, asked, pc, comp, suff, i, j, f, g, text, srch_pos, shift, prev_suf, result, ret>>

len == Len(pattern)
PattChar(x) == pattern[x + 1]
TextChar(q) == text[q + 1]
GivenChar(q) == given[q + 1]

NoResult == [soffset |-> -1, eoffset |-> -1]
MaxOf(a, b) == IF a > b THEN a ELSE b
MinOf(a, b) == IF a < b THEN a ELSE b
-----------------------------------------------------------------------------
Init ==
  /\ input \in Inputs
  /\ pc = "start"
  /\ pattern = <<>>
  /\ has_bol = FALSE /\ has_eol = FALSE /\ has_glob = FALSE
  /\ bad_shifts = <<>> /\ good_shifts = <<>> /\ suff = <<>>
  /\ i = 0 /\ j = 0 /\ f = 0 /\ g = 0
  /\ given = <<>> /\ eflags = {} /\ text = <<>>
  /\ srch_pos = 0 /\ shift = 0 /\ prev_suf = 0
  /\ result = NoResult
  /\ ret = "none"

Return(code) == pc' = "failed" /\ ret' = code

(* compile_literal: an empty pattern matches everything, another one is     *)
(* copied, and every character starts with the shift of an absent one.      *)
CompileLiteralOf(p) ==
  /\ pattern' = p
  /\ has_glob' = (p = <<>>)
  /\ bad_shifts' = [c \in Char |-> Len(p)]
  /\ pc' = IF p = <<>> THEN "ready" ELSE "badc"
  /\ UNCHANGED ret

(* REG_LITERAL was given, or nothing in the pattern is special; the pattern *)
(* is then used as it is, its escaping backslashes included.                *)
CompileLiteral ==
  /\ pc = "start"
  /\ input.literal \/ IsPatternLiteral(input.pattern, input.extended)
  /\ CompileLiteralOf(input.pattern)
  /\ UNCHANGED <<input, asked, has_bol, has_eol, good_shifts, suff, i, j, f, g, text,
                 srch_pos, shift, prev_suf, result>>

CompileFull ==
  /\ pc = "start"
  /\ ~ input.literal
  /\ ~ IsPatternLiteral(input.pattern, input.extended)
  /\ has_bol' = StepsOverCaret(input.pattern)
  /\ has_eol' = EndsWithDollar(input.pattern)
  /\ IF IsPatternLiteral(Stripped(input.pattern), input.extended)
     THEN CompileLiteralOf(StandsFor(Stripped(input.pattern), input.extended))
     ELSE Return("REG_BADPAT") /\ UNCHANGED <<pattern, has_glob, bad_shifts>>
  /\ UNCHANGED <<input, asked, good_shifts, suff, i, j, f, g, text, srch_pos, shift, prev_suf, result>>

(* The compilation struct, the copy of the pattern or the table of suffixes *)
(* gets no memory.                                                         *)
OutOfMemory ==
  /\ \/ pc = "start"
     \/ pc = "badc" /\ i = len - 1
  /\ Return("REG_ESPACE")
  /\ UNCHANGED <<input, asked, comp, suff, i, j, f, g, text, srch_pos, shift, prev_suf, result>>

(* fill_badc_shifts_stnd: the last character is left out. *)
FillBadChar ==
  /\ pc = "badc"
  /\ i < len - 1
  /\ bad_shifts' = [bad_shifts EXCEPT ![PattChar(i)] = len - 1 - i]
  /\ i' = i + 1
  /\ UNCHANGED <<input, asked, pc, pattern, has_bol, has_eol, has_glob, good_shifts, suff, j, f, g,
                 text, srch_pos, shift, prev_suf, result, ret>>

(* calculate_good_shifts: before the loop over the suffixes. *)
StartSuffixes ==
  /\ pc = "badc"
  /\ i = len - 1
  /\ suff' = [x \in {len - 1} |-> len]
  /\ f' = 0 /\ g' = len - 1
  /\ i' = len - 2
  /\ pc' = "suffixes"
  /\ UNCHANGED <<input, asked, comp, j, text, srch_pos, shift, prev_suf, result, ret>>

(* Where the comparison of the pattern with its own end stops. *)
StopsAt(from, end) ==
  CHOOSE x \in -1 .. from :
    /\ \A y \in x + 1 .. from : PattChar(y) = PattChar(y + len - 1 - end)
    /\ x >= 0 => PattChar(x) # PattChar(x + len - 1 - end)

(* Faulty: a suffix that may reach further is not compared on. *)
KnownSuffixAlways == i > g

(* What is known of an earlier suffix holds for this one, if it ends before *)
(* the place up to which the pattern is known.                             *)
KnownSuffix == i > g /\ suff[len - 1 + i - f] < i - g

NextSuffix ==
  /\ pc = "suffixes"
  /\ i >= 0
  /\ IF KnownSuffix
     THEN suff' = Assoc(suff, i, suff[len - 1 + i - f]) /\ UNCHANGED <<f, g>>
     ELSE /\ f' = i
          /\ g' = StopsAt(MinOf(i, g), i)
          /\ suff' = Assoc(suff, i, i - g')
  /\ i' = i - 1
  /\ UNCHANGED <<input, asked, pc, comp, j, text, srch_pos, shift, prev_suf, result, ret>>

StartGoodShifts ==
  /\ pc = "suffixes"
  /\ i < 0
  /\ good_shifts' = [x \in 0 .. len - 1 |-> len]
  /\ j' = 0
  /\ i' = len - 1
  /\ pc' = "prefixes"
  /\ UNCHANGED <<input, asked, pattern, has_bol, has_eol, has_glob, bad_shifts, suff, f, g, text,
                 srch_pos, shift, prev_suf, result, ret>>

(* A suffix that is a prefix bounds the shift at every place before it. *)
NextPrefix ==
  /\ pc = "prefixes"
  /\ i >= 0
  /\ IF suff[i] = i + 1
     THEN /\ good_shifts' = [x \in DOMAIN good_shifts |->
                               IF x \in j .. len - 2 - i /\ good_shifts[x] = len
                               THEN len - 1 - i ELSE good_shifts[x]]
          /\ j' = MaxOf(j, len - 1 - i)
     ELSE UNCHANGED <<good_shifts, j>>
  /\ i' = i - 1
  /\ UNCHANGED <<input, asked, pc, pattern, has_bol, has_eol, has_glob, bad_shifts, suff, f, g, text,
                 srch_pos, shift, prev_suf, result, ret>>

StartInner ==
  /\ pc = "prefixes"
  /\ i < 0
  /\ i' = 0
  /\ pc' = "inner"
  /\ UNCHANGED <<input, asked, comp, suff, j, f, g, text, srch_pos, shift, prev_suf, result, ret>>

(* A suffix that recurs inside the pattern after another character. *)
NextInner ==
  /\ pc = "inner"
  /\ i <= len - 2
  /\ good_shifts' = [good_shifts EXCEPT ![len - 1 - suff[i]] = len - 1 - i]
  /\ i' = i + 1
  /\ UNCHANGED <<input, asked, pc, pattern, has_bol, has_eol, has_glob, bad_shifts, suff, j, f, g, text,
                 srch_pos, shift, prev_suf, result, ret>>

Compiled ==
  /\ pc = "inner"
  /\ i > len - 2
  /\ pc' = "ready"
  /\ UNCHANGED <<input, asked, comp, suff, i, j, f, g, text, srch_pos, shift, prev_suf, result, ret>>
-----------------------------------------------------------------------------
(* bm_execute: what matches everything matches at once; an anchor that may  *)
(* not match at the border of the text cuts a character off.                *)
WithoutFirst(t, fl) ==
  IF has_bol /\ "REG_NOTBOL" \in fl /\ t # <<>> THEN Tail(t) ELSE t
WithoutLast(t, fl) ==
  IF has_eol /\ "REG_NOTEOL" \in fl /\ t # <<>> THEN SubSeq(t, 1, Len(t) - 1) ELSE t

Execute ==
  /\ pc = "ready"
  /\ given' \in Texts /\ eflags' \in Flags
  /\ text' = IF has_glob THEN given' ELSE WithoutLast(WithoutFirst(given', eflags'), eflags')
  /\ IF has_glob
     THEN /\ pc' = "done" /\ ret' = "REG_OK"
          /\ result' = [soffset |-> 0, eoffset |-> Len(text')]
     ELSE /\ IF len > Len(text')
             THEN pc' = "done" /\ ret' = "REG_NOMATCH"
             ELSE pc' = "window" /\ UNCHANGED ret
          /\ UNCHANGED result
  /\ srch_pos' = 0
  /\ shift' = len
  /\ prev_suf' = 0
  /\ UNCHANGED <<input, comp, suff, i, j, f, g>>

(* Faulty: the last character of the window is not compared. *)
FirstComparedOneShort == len - 2

(* The head of the search loop: a new window, or the end of the text. *)
FirstCompared == len - 1

OpenWindow ==
  /\ pc = "window"
  /\ srch_pos + len <= Len(text)
  /\ i' = FirstCompared
  /\ pc' = "compare"
  /\ UNCHANGED <<input, asked, comp, suff, j, f, g, text, srch_pos, shift, prev_suf, result, ret>>

(* Faulty: the last window of the text is not looked at. *)
PastTheEndEarly == srch_pos + len >= Len(text)

PastTheEnd == srch_pos + len > Len(text)

EndOfText ==
  /\ pc = "window"
  /\ PastTheEnd
  /\ pc' = "done"
  /\ ret' = "REG_NOMATCH"
  /\ UNCHANGED <<input, asked, comp, suff, i, j, f, g, text, srch_pos, shift, prev_suf, result>>

(* Faulty: passes over at every further place. *)
PassOverTwice(x) == IF prev_suf # 0 /\ x <= len - 1 - shift THEN x - prev_suf ELSE x

(* The place to compare when x is next: what the last shift brought under   *)
(* the window as known to agree is passed over.                            *)
PassOver(x) == IF prev_suf # 0 /\ x = len - 1 - shift THEN x - prev_suf ELSE x

CompareChar ==
  /\ pc = "compare"
  /\ i >= 0
  /\ PattChar(i) = TextChar(srch_pos + i)
  /\ i' = PassOver(i - 1)
  /\ UNCHANGED <<input, asked, pc, comp, suff, j, f, g, text, srch_pos, shift, prev_suf, result, ret>>

(* Faulty: what already agreed is not deducted. *)
BadShiftWhole(c, v) == bad_shifts[c]

BadShift(c, v) == bad_shifts[c] - v

(* Faulty: the shift that is never zero is left out. *)
ShiftByTextOnly(turbo, bad, good) == MaxOf(MaxOf(turbo, bad), 0)

(* Characters differ: the greatest of three shifts is taken, and more than   *)
(* the remembered length if it is the shift of the bad character.          *)
ShiftBy(turbo, bad, good) ==
  LET greatest == MaxOf(MaxOf(turbo, bad), good)
  IN IF greatest # good /\ turbo < bad THEN MaxOf(greatest, prev_suf + 1) ELSE greatest

(* How many of the v characters that agreed still do after the shift s:     *)
(* this is only known of the good shift.                                   *)
StillAgree(s, v, good) == IF s = good THEN MinOf(len - s, v) ELSE 0

Mismatch ==
  /\ pc = "compare"
  /\ i >= 0
  /\ PattChar(i) # TextChar(srch_pos + i)
  /\ LET v == len - 1 - i
     IN /\ shift' = ShiftBy(prev_suf - v, BadShift(TextChar(srch_pos + i), v), good_shifts[i])
        /\ prev_suf' = StillAgree(shift', v, good_shifts[i])
  /\ srch_pos' = srch_pos + shift'
  /\ pc' = "window"
  /\ UNCHANGED <<input, asked, comp, suff, i, j, f, g, text, result, ret>>

(* The anchors the pattern has match around an occurrence at q. *)
AnchorsMatch(q) ==
  /\ has_bol /\ q # 0 => TextChar(q - 1) = Newline
  /\ has_eol /\ q + len # Len(text) => TextChar(q + len) = Newline

FullMatch ==
  /\ pc = "compare"
  /\ i < 0
  /\ AnchorsMatch(srch_pos)
  /\ result' = [soffset |-> srch_pos, eoffset |-> srch_pos + len]
  /\ ret' = "REG_OK"
  /\ pc' = "done"
  /\ UNCHANGED <<input, asked, comp, suff, i, j, f, g, text, srch_pos, shift, prev_suf>>

(* The anchors refuse the match: the search goes on by the shift that is    *)
(* left from the window before.                                            *)
AnchorsRefuse ==
  /\ pc = "compare"
  /\ i < 0
  /\ ~ AnchorsMatch(srch_pos)
  /\ srch_pos' = srch_pos + shift
  /\ pc' = "window"
  /\ UNCHANGED <<input, asked, comp, suff, i, j, f, g, text, shift, prev_suf, result, ret>>

Compile ==
  \/ CompileLiteral \/ CompileFull \/ OutOfMemory \/ FillBadChar \/ StartSuffixes \/ NextSuffix
  \/ StartGoodShifts \/ NextPrefix \/ StartInner \/ NextInner \/ Compiled
Search ==
  OpenWindow \/ EndOfText \/ CompareChar \/ Mismatch \/ FullMatch \/ AnchorsRefuse
Next == Compile \/ Execute \/ Search

(* One thread runs each call to its end. *)
Spec == Init /\ [][Next]_vars /\ WF_vars(Compile) /\ WF_vars(Search)
-----------------------------------------------------------------------------
(* The tables as the literature defines them, whatever way they are         *)
(* computed.  A character's shift is its distance from the end of the       *)
(* pattern, at its last place but the very last...                         *)
LastPlace(c) ==
  {x \in 0 .. len - 2 : PattChar(x) = c /\ \A y \in x + 1 .. len - 2 : PattChar(y) # c}

(* ...and the good shift of a place is the least by which the matched       *)
(* suffix meets itself again, after a character other than the mismatched.  *)
SuffixFits(x, s) ==
  /\ \A y \in x + 1 .. len - 1 : y - s >= 0 => PattChar(y - s) = PattChar(y)
  /\ x - s >= 0 => PattChar(x - s) # PattChar(x)

(* The tables bm_compile leaves behind are the ones of Boyer and Moore: the *)
(* linear-time loops over suff compute the least shift at every place.      *)
TablesAreBoyerMoore ==
  pc \in {"ready", "window"} /\ ~ has_glob =>
    /\ \A c \in Char :
         IF LastPlace(c) = {} THEN bad_shifts[c] = len
         ELSE \E x \in LastPlace(c) : bad_shifts[c] = len - 1 - x
    /\ \A x \in 0 .. len - 1 :
         /\ SuffixFits(x, good_shifts[x])
         /\ \A s \in 1 .. good_shifts[x] - 1 : ~ SuffixFits(x, s)

(* All characters right of the one being compared agree, also those the     *)
(* turbo variant passed over by what it remembers of the last window.       *)
PassedCharsAgree ==
  pc = "compare" => \A x \in MaxOf(i + 1, 0) .. len - 1 : PattChar(x) = TextChar(srch_pos + x)

(* The stripped pattern occurs at q, where its anchors allow it. *)
OccursAt(q) ==
  /\ q + len <= Len(text)
  /\ \A x \in 0 .. len - 1 : PattChar(x) = TextChar(q + x)
  /\ AnchorsMatch(q)

(* Two rules of the search are wrong for some patterns.  The first: a shift  *)
(* that is the bad character's must exceed the remembered length.  If what  *)
(* is remembered is the pattern's beginning, which met its end by a shift s, *)
(* an occurrence may begin within it, d places on: it agrees with what is   *)
(* remembered and with what agreed right of the mismatch at x, and only the  *)
(* shift of that rule passes it.                                           *)
RemembersBeginning(s) == \E x \in 0 .. s - 1 : good_shifts[x] = s
PassedByRule(s, x, d) ==
  LET v   == len - 1 - x
      bad == BadShift(PattChar(x - d), v)
  IN /\ SuffixFits(x, d)
     /\ \A y \in d .. len - s - 1 : PattChar(y - d) = PattChar(y)
     /\ bad > good_shifts[x] /\ bad > len - s - v
Misled ==
  \E s \in 1 .. len - 1 :
    /\ RemembersBeginning(s)
    /\ \E x \in len - s .. len - 1 : \E d \in 1 .. len - s : d <= x /\ PassedByRule(s, x, d)

(* The second: after a match that '^' refuses the shift is an old one.  It   *)
(* passes no occurrence if these cannot overlap, as the terminator at the   *)
(* end of such a pattern is its only one.                                  *)
OneTerminator == has_bol => \A x \in 0 .. len - 2 : PattChar(x) # "NUL"

ShiftsAreSafe == ~ Misled /\ OneTerminator

(* No shift, of whichever kind, moves the window over an occurrence, unless  *)
(* the pattern is one of those for which the rules above are wrong.         *)
NothingSkipped ==
  pc \in {"window", "compare"} /\ ShiftsAreSafe => \A q \in 0 .. srch_pos - 1 : ~ OccursAt(q)

(* An occurrence in the text as the caller gave it: there an anchor matches  *)
(* next to a newline, and at the border unless the flags forbid it.         *)
OccursInGiven(q) ==
  /\ q + len <= Len(given)
  /\ \A x \in 0 .. len - 1 : PattChar(x) = GivenChar(q + x)
  /\ has_bol => \/ q = 0 /\ "REG_NOTBOL" \notin eflags
                \/ q > 0 /\ GivenChar(q - 1) = Newline
  /\ has_eol => \/ q + len = Len(given) /\ "REG_NOTEOL" \notin eflags
                \/ q + len < Len(given) /\ GivenChar(q + len) = Newline

(* Nothing is cut off.  Where it is, bm_execute takes the cut for a border    *)
(* of the text, and behind a cut first character its offsets are one short.  *)
NothingCutOff ==
  /\ ~ (has_bol /\ "REG_NOTBOL" \in eflags)
  /\ ~ (has_eol /\ "REG_NOTEOL" \in eflags)

(* The match reported is an occurrence in the caller's text, and but for      *)
(* those patterns the first one; the empty pattern matches the whole text.   *)
(* This is said only of texts of which nothing is cut off.                  *)
ReportsFirst ==
  ret = "REG_OK" /\ NothingCutOff =>
    IF has_glob THEN result = [soffset |-> 0, eoffset |-> Len(given)]
    ELSE /\ OccursInGiven(result.soffset)
         /\ result.eoffset = result.soffset + len
         /\ ShiftsAreSafe => \A q \in 0 .. result.soffset - 1 : ~ OccursInGiven(q)

(* But for those patterns REG_NOMATCH is the truth about the stripped pattern *)
(* and the caller's text, whatever was cut off for the flags.               *)
NoMatchIsTrue ==
  ret = "REG_NOMATCH" /\ ShiftsAreSafe => \A q \in 0 .. Len(given) : ~ OccursInGiven(q)

(* Calls of the compiler and of the search return: every shift is positive. *)
Returns ==
  /\ pc = "start" ~> pc \in {"failed", "ready"}
  /\ pc = "window" ~> pc = "done"

(* What a literal pattern denotes: itself under REG_LITERAL, else what is   *)
(* left when its escapes are resolved.                                     *)
Denoted == IF input.literal THEN input.pattern ELSE StandsFor(input.pattern, input.extended)

(* check_interface_single.c expects a literal pattern with escapes to be    *)
(* found where the text it stands for is.                                  *)
EscapesResolved ==
  ret = "REG_NOMATCH" /\ IsPatternLiteral(input.pattern, input.extended) =>
    \A q \in 0 .. Len(given) - Len(Denoted) : SubSeq(given, q + 1, q + Len(Denoted)) # Denoted

(* bm.h says that bm_execute finds the first match, of any pattern. *)
FirstMatchFound == ret = "REG_NOMATCH" => \A q \in 0 .. Len(given) : ~ OccursInGiven(q)
=============================================================================
