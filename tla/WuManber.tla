------------------------------ MODULE WuManber ------------------------------
(***************************************************************************)
(* The multi-pattern matcher of wm-comp.c: wm_compile builds one table that *)
(* maps a character to a shift and to the patterns it begins (prefix list)  *)
(* or almost ends (suffix list); wm_execute slides a window of the length   *)
(* of the shortest pattern over the text.  Both loops are modelled one      *)
(* iteration per step.  WM_B is 2, yet the table is keyed by one character. *)
(*                                                                         *)
(* A search does not change the compiled structure (wm_execute takes it as  *)
(* const), so one search per compilation shows all there is to see.         *)
(* Positions and ids count from 0 as in C; position q is element q + 1.     *)
(***************************************************************************)
EXTENDS Integers, Sequences, MapOps

CONSTANTS Char,           \* the alphabet
          PatternLists,   \* the pattern lists wm_compile may be given
          Texts           \* the texts wm_execute may be given

WM_B == 2                 \* also the default shift
WM_MAXPAT == 64           \* places in a prefix or suffix list

(* A one-character pattern makes wm_execute read in front of the text, and  *)
(* more than WM_MAXPAT patterns may overrun a list: callers must not.       *)
ASSUME PatternsAssumption ==
  \A pl \in PatternLists :
    /\ pl \in Seq(Seq(Char))
    /\ Len(pl) \in 1 .. WM_MAXPAT
    /\ \A n \in DOMAIN pl : Len(pl[n]) >= WM_B

ASSUME TextsAssumption == \A t \in Texts : t \in Seq(Char)

VARIABLES patterns,       \* comp->patterns
          pc,             \* which loop is running
          i, j,           \* the loop variables of wm_compile
          len_shortest,   \* comp->len_shortest
          shift,          \* comp->shift, a finite map from characters to entries
          put_ret,        \* the last reply of hashtable_put
          text, pos,      \* wm_execute: the text and the end of the window
          k,              \* wm_execute: the entry of the prefix list looked at
          result, ret     \* what the call reports

comp == <<patterns, len_shortest, shift>>
vars == <<patterns, pc, i, j, len_shortest, shift, put_ret, text, pos, k, result, ret>>

count == Len(patterns)
Ids == 0 .. count - 1
Pattern(id) == patterns[id + 1]
PatternChar(id, n) == patterns[id + 1][n + 1]
TextChar(q) == text[q + 1]

NoResult == [soffset |-> -1, eoffset |-> -1, pattern_id |-> -1]
FreshEntry(s) == [shift |-> s, prefix_list |-> <<>>, suffix_list |-> <<>>]
MinOf(a, b) == IF a < b THEN a ELSE b
-----------------------------------------------------------------------------
Init ==
  /\ patterns \in PatternLists
  /\ pc = "measure"
  /\ i = 1 /\ j = 0
  /\ len_shortest = Len(patterns[1])
  /\ shift = EmptyMap
  /\ put_ret = "none"
  /\ text = <<>> /\ pos = 0 /\ k = 0
  /\ result = NoResult
  /\ ret = "none"

(* wm_compile gives up: a failed malloc or a put that was not accepted. *)
GiveUp(code) ==
  /\ pc' = "failed"
  /\ ret' = code

(* One iteration of the loop that finds the shortest pattern. *)
Measure ==
  /\ pc = "measure"
  /\ i < count
  /\ len_shortest' = MinOf(Len(Pattern(i)), len_shortest)
  /\ i' = i + 1
  /\ UNCHANGED <<patterns, pc, j, shift, put_ret, text, pos, k, result, ret>>

(* hashtable_init: the empty table, or no memory for it (as wm_comp_init). *)
CreateTable ==
  /\ pc = "measure"
  /\ i = count
  /\ \/ pc' = "fill" /\ i' = 0 /\ ret' = ret
     \/ GiveUp("REG_ESPACE") /\ i' = i
  /\ UNCHANGED <<patterns, j, len_shortest, shift, put_ret, text, pos, k, result>>

TableSize == 2 * count * 2

(* Faulty versions of NewEntry that the properties must tell from the code: *)
(* no minimum over the occurrences of a character, ids added in front of a  *)
(* list.                                                                   *)
NewEntryNoMinimum(c) ==
  LET s   == len_shortest - WM_B - j
      old == IF c \in DOMAIN shift THEN [shift[c] EXCEPT !.shift = s] ELSE FreshEntry(s)
  IN IF j = 0 THEN [old EXCEPT !.prefix_list = Append(@, i)]
     ELSE IF j = len_shortest - WM_B
     THEN [old EXCEPT !.suffix_list = Append(@, i)]
     ELSE old

NewEntryInFront(c) ==
  LET s   == len_shortest - WM_B - j
      old == IF c \in DOMAIN shift THEN [shift[c] EXCEPT !.shift = MinOf(@, s)]
             ELSE FreshEntry(s)
  IN IF j = 0 THEN [old EXCEPT !.prefix_list = <<i>> \o @]
     ELSE IF j = len_shortest - WM_B
     THEN [old EXCEPT !.suffix_list = <<i>> \o @]
     ELSE old

(* The entry the loop body computes for character j of pattern i. *)
NewEntry(c) ==
  LET s   == len_shortest - WM_B - j
      old == IF c \in DOMAIN shift
             THEN [shift[c] EXCEPT !.shift = MinOf(@, s)]
             ELSE FreshEntry(s)
  IN IF j = 0 THEN [old EXCEPT !.prefix_list = Append(@, i)]
     ELSE IF j = len_shortest - WM_B
     THEN [old EXCEPT !.suffix_list = Append(@, i)]
     ELSE old

(* One iteration of the loop over the characters of pattern i. *)
FillChar ==
  /\ pc = "fill"
  /\ i < count
  /\ j <= len_shortest - WM_B
  /\ LET c == PatternChar(i, j)
     IN /\ put_ret' \in PutReplies(shift, TableSize, c)
        /\ \/ /\ put_ret' \in Accepted
              /\ shift' = Assoc(shift, c, NewEntry(c))
              /\ j' = j + 1
              /\ UNCHANGED <<pc, ret>>
           \/ /\ put_ret' \notin Accepted
              /\ GiveUp("REG_BADPAT")
              /\ UNCHANGED <<shift, j>>
  /\ UNCHANGED <<patterns, i, len_shortest, text, pos, k, result>>

NextPattern ==
  /\ pc = "fill"
  /\ i < count
  /\ j > len_shortest - WM_B
  /\ i' = i + 1
  /\ j' = 0
  /\ UNCHANGED <<patterns, pc, len_shortest, shift, put_ret, text, pos, k, result, ret>>

(* wm_compile has returned REG_OK... *)
Compiled == pc = "fill" /\ i = count

(* ...and the caller searches a text. *)
Execute ==
  /\ Compiled
  /\ pc' = "search"
  /\ text' \in Texts
  /\ pos' = len_shortest
  /\ UNCHANGED <<comp, i, j, put_ret, k, result, ret>>
-----------------------------------------------------------------------------
InSearch == pc = "search" /\ pos <= Len(text)

LastChar == TextChar(pos - WM_B)
FirstChar == TextChar(pos - len_shortest)

(* Faulty: the default shift does not allow for the window's last character. *)
CurrShiftTooFar ==
  IF LastChar \in DOMAIN shift THEN shift[LastChar].shift ELSE WM_B + 1

CurrShift == IF LastChar \in DOMAIN shift THEN shift[LastChar].shift ELSE WM_B

Skip ==
  /\ InSearch
  /\ CurrShift # 0
  /\ pos' = pos + CurrShift
  /\ UNCHANGED <<comp, pc, i, j, put_ret, text, k, result, ret>>

NoPrefix ==
  /\ InSearch
  /\ CurrShift = 0
  /\ FirstChar \notin DOMAIN shift
  /\ pos' = pos + 1
  /\ UNCHANGED <<comp, pc, i, j, put_ret, text, k, result, ret>>

BeginScan ==
  /\ InSearch
  /\ CurrShift = 0
  /\ FirstChar \in DOMAIN shift
  /\ pc' = "scan"
  /\ k' = 1
  /\ UNCHANGED <<comp, i, j, put_ret, text, pos, result, ret>>

prefix_list == shift[FirstChar].prefix_list
suffix_list == IF LastChar \in DOMAIN shift THEN shift[LastChar].suffix_list ELSE <<>>

(* The inner loop reaches an equal id: nothing before it makes it break. *)
InSuffixList(id) ==
  \E n \in DOMAIN suffix_list :
    /\ suffix_list[n] = id
    /\ \A b \in 1 .. n - 1 : suffix_list[b] <= id

(* Faulty: a pattern that ends with the text is not compared. *)
TextHasNotAtEnd(id, q) ==
  /\ q < Len(text) - Len(Pattern(id))
  /\ \A n \in 0 .. Len(Pattern(id)) - 1 : PatternChar(id, n) = TextChar(q + n)

(* string_compare of the whole pattern with the text under the window. *)
TextHas(id, q) ==
  /\ q <= Len(text) - Len(Pattern(id))
  /\ \A n \in 0 .. Len(Pattern(id)) - 1 : PatternChar(id, n) = TextChar(q + n)

(* Faulty: equal ids count as a match without comparing the pattern. *)
HitNotCompared == InSuffixList(prefix_list[k])

(* The pattern that entry k of the prefix list names lies at the window. *)
Hit == InSuffixList(prefix_list[k]) /\ TextHas(prefix_list[k], pos - len_shortest)

ScanHit ==
  /\ pc = "scan"
  /\ k \in DOMAIN prefix_list
  /\ Hit
  /\ LET id == prefix_list[k]
         text_st == pos - len_shortest
     IN result' = [soffset |-> text_st, eoffset |-> text_st + Len(Pattern(id)),
                   pattern_id |-> id]
  /\ pc' = "done"
  /\ ret' = "REG_OK"
  /\ UNCHANGED <<comp, i, j, put_ret, text, pos, k>>

ScanMiss ==
  /\ pc = "scan"
  /\ k \in DOMAIN prefix_list
  /\ ~ Hit
  /\ k' = k + 1
  /\ UNCHANGED <<comp, pc, i, j, put_ret, text, pos, result, ret>>

(* Faulty: the window stays where it is after an unsuccessful scan. *)
ScanEndStuck ==
  /\ pc = "scan"
  /\ k > Len(prefix_list)
  /\ pc' = "search"
  /\ UNCHANGED <<comp, i, j, put_ret, text, pos, k, result, ret>>

ScanEnd ==
  /\ pc = "scan"
  /\ k > Len(prefix_list)
  /\ pc' = "search"
  /\ pos' = pos + 1
  /\ UNCHANGED <<comp, i, j, put_ret, text, k, result, ret>>

EndOfText ==
  /\ pc = "search"
  /\ pos > Len(text)
  /\ pc' = "done"
  /\ ret' = "REG_NOMATCH"
  /\ UNCHANGED <<comp, i, j, put_ret, text, pos, k, result>>

Compile == Measure \/ CreateTable \/ FillChar \/ NextPattern
Search == Skip \/ NoPrefix \/ BeginScan \/ ScanHit \/ ScanMiss \/ ScanEnd \/ EndOfText
Next == Compile \/ Execute \/ Search

(* One thread runs the call to its end: while a loop can step, it does. *)
Spec == Init /\ [][Next]_vars /\ WF_vars(Compile) /\ WF_vars(Search)
-----------------------------------------------------------------------------
(* The variables have the types of the structures they stand for. *)
Entry == [shift : Nat, prefix_list : Seq(Ids), suffix_list : Seq(Ids)]

TypeOK ==
  /\ patterns \in PatternLists
  /\ pc \in {"measure", "fill", "failed", "search", "scan", "done"}
  /\ i \in 0 .. count /\ j \in Nat
  /\ len_shortest \in Nat
  /\ DOMAIN shift \subseteq Char
  /\ \A c \in DOMAIN shift : shift[c] \in Entry
  /\ put_ret \in {"none", "HASH_OK", "HASH_UPDATED", "HASH_FULL", "HASH_FAIL"}
  /\ text \in Seq(Char)
  /\ pos \in Nat /\ k \in Nat
  /\ result \in [soffset : Int, eoffset : Int, pattern_id : Int]
  /\ ret \in {"none", "REG_OK", "REG_NOMATCH", "REG_ESPACE", "REG_BADPAT"}

Searching == pc \in {"search", "scan", "done"}

(* Pattern id occurs in the text at offset q. *)
Occurs(id, q) ==
  /\ q + Len(Pattern(id)) <= Len(text)
  /\ \A n \in 0 .. Len(Pattern(id)) - 1 : PatternChar(id, n) = TextChar(q + n)

(* The finished table never shifts too far: a character at place n of a     *)
(* pattern shifts the window by at most the distance that brings this place *)
(* under the window's last tabulated column.                               *)
ShiftTableSafe ==
  Searching =>
    \A id \in Ids : \A n \in 0 .. len_shortest - WM_B :
      /\ PatternChar(id, n) \in DOMAIN shift
      /\ shift[PatternChar(id, n)].shift <= len_shortest - WM_B - n

StrictlyIncreasing(s) == \A a, b \in DOMAIN s : a < b => s[a] < s[b]

(* The merge of the two id lists in wm_execute breaks off at the first      *)
(* greater id, which loses no candidate only because wm_compile leaves both *)
(* lists sorted, without repetition and so within their WM_MAXPAT places.   *)
ListsSorted ==
  \A c \in DOMAIN shift :
    /\ StrictlyIncreasing(shift[c].prefix_list)
    /\ StrictlyIncreasing(shift[c].suffix_list)
    /\ Len(shift[c].prefix_list) <= WM_MAXPAT
    /\ Len(shift[c].suffix_list) <= WM_MAXPAT

(* Whatever shifts were taken, no occurrence of any pattern begins in front *)
(* of the window: the search never jumps over a match.                      *)
NothingSkipped ==
  len_shortest > WM_B /\ pc \in {"search", "scan"} =>
    \A q \in 0 .. pos - len_shortest - 1, id \in Ids : ~ Occurs(id, q)

(* A reported match is an occurrence of the named pattern; nothing occurs   *)
(* further left, and no pattern earlier in the list occurs there.           *)
ReportsFirst ==
  len_shortest > WM_B /\ ret = "REG_OK" =>
    /\ result.pattern_id \in Ids
    /\ Occurs(result.pattern_id, result.soffset)
    /\ result.eoffset = result.soffset + Len(Pattern(result.pattern_id))
    /\ \A q \in 0 .. result.soffset - 1, id \in Ids : ~ Occurs(id, q)
    /\ \A id \in 0 .. result.pattern_id - 1 : ~ Occurs(id, result.soffset)

(* REG_NOMATCH is the truth: no pattern occurs anywhere in the text. *)
NoMatchIsTrue ==
  len_shortest > WM_B /\ ret = "REG_NOMATCH" =>
    \A q \in 0 .. Len(text), id \in Ids : ~ Occurs(id, q)

(* Calls of wm_compile and wm_execute return, whatever the shifts are. *)
Returns ==
  /\ pc = "measure" ~> (pc = "failed" \/ Compiled)
  /\ pc = "search" ~> pc = "done"

(* With patterns of three characters and more, the matcher implements the   *)
(* abstract FirstMatch: one answer, the first occurrence or the truth that  *)
(* there is none.                                                          *)
Abstract ==
  INSTANCE FirstMatch WITH
    status <- CASE pc \in {"measure", "fill"} -> "compiling"
                [] pc = "failed"              -> "rejected"
                [] pc \in {"search", "scan"}  -> "searching"
                [] pc = "done"                -> "answered"
ImplementsFirstMatch == Abstract!Spec
AnswersFirstMatch == Abstract!Safety

-----------------------------------------------------------------------------
(* The inductive invariant behind these properties, part by part.          *)

(* The loops of wm_compile stay in their ranges; len_shortest bounds the    *)
(* patterns measured so far.                                               *)
LoopInv ==
  /\ len_shortest >= WM_B
  /\ pc = "measure" => i >= 1 /\ j = 0
  /\ \A id \in Ids : (pc = "measure" /\ id >= i) \/ len_shortest <= Len(Pattern(id))
  /\ pc = "fill" => j <= len_shortest - WM_B + 1 /\ (i = count => j = 0)
  /\ Searching => i = count
  /\ pc # "done" => ret \notin {"REG_OK", "REG_NOMATCH"}

Filling == pc = "fill" \/ Searching

(* Character n of pattern id has been put into the table. *)
Entered(id, n) == id < i \/ (id = i /\ n < j)

(* Each character entered so far has a shift that is small enough, and its  *)
(* pattern is listed under its first and its last tabulated character.      *)
TableComplete ==
  Filling =>
    \A id \in Ids : \A n \in 0 .. len_shortest - WM_B :
      Entered(id, n) =>
        LET c == PatternChar(id, n)
        IN /\ c \in DOMAIN shift
           /\ shift[c].shift <= len_shortest - WM_B - n
           /\ n = 0 => \E x \in DOMAIN shift[c].prefix_list :
                          shift[c].prefix_list[x] = id
           /\ n # 0 /\ n = len_shortest - WM_B =>
                \E x \in DOMAIN shift[c].suffix_list : shift[c].suffix_list[x] = id

(* A list of ids is increasing and skips none without having room for it. *)
IdList(s) == StrictlyIncreasing(s) /\ \A x \in DOMAIN s : x <= s[x] + 1

(* No entry holds a larger shift than the window allows, an unsorted list   *)
(* or an id of a place that is still to come.                              *)
TableSound ==
  \A c \in DOMAIN shift :
    /\ shift[c].shift <= len_shortest - WM_B
    /\ IdList(shift[c].prefix_list)
    /\ IdList(shift[c].suffix_list)
    /\ pc = "fill" =>
         /\ \A x \in DOMAIN shift[c].prefix_list : Entered(shift[c].prefix_list[x], 0)
         /\ \A x \in DOMAIN shift[c].suffix_list :
              Entered(shift[c].suffix_list[x], len_shortest - WM_B)

(* While the lists are scanned, the window is one whose last character has  *)
(* shift 0, and the entries before k were no hit.                          *)
ScanInv ==
  /\ pc = "measure" => shift = EmptyMap
  /\ pc \in {"search", "scan"} => pos >= len_shortest
  /\ pc = "scan" =>
       /\ pos <= Len(text)
       /\ LastChar \in DOMAIN shift
       /\ FirstChar \in DOMAIN shift
       /\ k \in 1 .. Len(prefix_list) + 1
       /\ \A x \in 1 .. k - 1 :
            ~ (InSuffixList(prefix_list[x]) /\ TextHas(prefix_list[x], pos - len_shortest))

IInv ==
  /\ TypeOK
  /\ LoopInv
  /\ TableComplete
  /\ TableSound
  /\ ScanInv
  /\ NothingSkipped
  /\ ReportsFirst
  /\ NoMatchIsTrue
-----------------------------------------------------------------------------
(* check_wu_manber.c asserts that wm_compile succeeds on every pattern list *)
(* it tries; with enough memory nothing else could make it fail.            *)
CompileFailsOnlyWithoutMemory == ret = "REG_BADPAT" => put_ret = "HASH_FAIL"
=============================================================================
