-------------------------------- MODULE Match --------------------------------
(***************************************************************************)
(* Matching with compiled patterns: execute_match of interface.c, and the   *)
(* matchers of match.c.  frec_mmatch is the caller and frec_match, with     *)
(* match_heuristic inside, the subroutine it calls; each iteration of a     *)
(* loop is one step.  The literal searches are the ones of BoyerMoore and   *)
(* WuManber and are used as what those modules show them to be, for the     *)
(* patterns they show it for (wm_execute: literals of three characters and  *)
(* more, a table that is large enough; bm_execute: those that do not        *)
(* mislead its turbo shifts).  The original matcher is the                  *)
(* external regex library, which finds the leftmost and of these the        *)
(* longest match in the text it is given.                                  *)
(*                                                                         *)
(* Texts are sections of the caller's text and are modelled as intervals:   *)
(* [from, to) are the characters from, ..., to - 1, counted from 0.         *)
(***************************************************************************)
EXTENDS Integers, Sequences, Preg

CONSTANTS Char,        \* the alphabet, with Newline
          Newline,
          PregLists,   \* the lists of compiled patterns
          Texts        \* the texts to search

(* A compiled pattern: what its compilation left behind, as it has promised... *)
(*   kind   "literal" (boyer_moore is set), "longest" or "prefix" (the type  *)
(*          of the heuristic) or "none" (neither is set)                    *)
(*   lit    the literal that is searched for                                *)
(*   max    max_length of the heuristic, -1 if it is not bounded            *)
(* ...and what the original matcher knows of it: the words of its language  *)
(* and whether it is anchored at the ends of the text.                     *)
Preg == [kind : {"literal", "longest", "prefix", "none"}, lit : Seq(Char), max : Int,
         words : SUBSET Seq(Char), bol : BOOLEAN, eol : BOOLEAN]

ASSUME PregsAssumption ==
  \A pl \in PregLists :
    pl \in Seq(Preg) /\ pl # <<>> /\ \A n \in DOMAIN pl : KeepsPromise(pl[n], Newline)
ASSUME TextsAssumption == \A t \in Texts : t \in Seq(Char)

VARIABLES pregs, nosub,    \* the compiled patterns; no offsets are wanted
          whole, range,    \* the caller's text, the part of it to search
          pc,
          text, glob,      \* frec_mmatch: the text that is left, glob_offset
          start, end,      \* frec_mmatch: the section around the candidate
          i, matches,      \* frec_mmatch: the matches of all patterns
          curr,            \* frec_match: the pattern
          sub, hglob,      \* match_heuristic: the text that is left, glob_offset
          pmatch, ret

caller == <<pregs, nosub, whole, range>>
multi  == <<text, glob, start, end, i, matches>>
vars   == <<caller, pc, multi, curr, sub, hglob, pmatch, ret>>

NoMatch == [soffset |-> -1, eoffset |-> -1]
MaxOf(a, b) == IF a > b THEN a ELSE b
MinOf(a, b) == IF a < b THEN a ELSE b
Between(from, to) == [from |-> from, to |-> to]
Length(t) == t.to - t.from
CharAt(q) == whole[q + 1]
Excerpt(from, to) == SubSeq(whole, from + 1, to)
Moved(m, by) == [soffset |-> m.soffset + by, eoffset |-> m.eoffset + by]
-----------------------------------------------------------------------------
(* The searches that are called: all work on a text t and count from its    *)
(* start.                                                                  *)

(* The places where u occurs in t. *)
PlacesOf(u, t) ==
  {q \in 0 .. Length(t) - Len(u) : Excerpt(t.from + q, t.from + q + Len(u)) = u}
Least(S) == CHOOSE x \in S : \A y \in S : x <= y
Occurrence(u, q) == [soffset |-> q, eoffset |-> q + Len(u)]

(* The matches of p in t, anchors being the ends of t; the library reports  *)
(* the longest of the leftmost ones.                                       *)
MatchesIn(p, t) ==
  {m \in [soffset : 0 .. Length(t), eoffset : 0 .. Length(t)] :
     /\ m.soffset <= m.eoffset
     /\ Excerpt(t.from + m.soffset, t.from + m.eoffset) \in p.words
     /\ p.bol => m.soffset = 0
     /\ p.eol => m.eoffset = Length(t)}
Original(p, t) ==
  CHOOSE m \in MatchesIn(p, t) : \A n \in MatchesIn(p, t) :
    m.soffset < n.soffset \/ (m.soffset = n.soffset /\ m.eoffset >= n.eoffset)

(* wm_execute on the literals of all patterns: leftmost, then first listed. *)
CandidatesIn(t) ==
  {c \in [id : DOMAIN pregs, soffset : 0 .. Length(t)] :
     c.soffset \in PlacesOf(pregs[c.id].lit, t)}
FirstCandidate(t) ==
  CHOOSE c \in CandidatesIn(t) : \A d \in CandidatesIn(t) :
    c.soffset < d.soffset \/ (c.soffset = d.soffset /\ c.id <= d.id)

(* find_lf_backward, find_lf_forward: the line feed is part of the section  *)
(* it precedes.                                                            *)
find_lf_backward(t, pos) ==
  LET lf == {q \in 0 .. pos : q < Length(t) /\ CharAt(t.from + q) = Newline}
  IN IF lf = {} THEN 0 ELSE CHOOSE q \in lf : \A r \in lf : q >= r
find_lf_forward(t, pos) ==
  LET lf == {q \in pos .. Length(t) - 1 : CharAt(t.from + q) = Newline}
  IN IF lf = {} THEN Length(t) ELSE Least(lf)

(* Where a match may begin and end whose literal is the candidate at s: the *)
(* section frec_mmatch and match_heuristic hand to the matcher.            *)
SectionStart(p, t, s) ==
  IF p.max # -1 THEN MaxOf(0, s - (p.max - Len(p.lit))) ELSE find_lf_backward(t, s)
SectionEnd(p, t, s) ==
  IF p.max # -1 THEN MinOf(Length(t), s + Len(p.lit) + (p.max - Len(p.lit)))
  ELSE find_lf_forward(t, s + Len(p.lit))
-----------------------------------------------------------------------------
(* frec_mcompile: how the patterns are going to be matched together. *)
MHeur ==
  IF Len(pregs) = 1 THEN "MHEUR_SINGLE"
  ELSE IF \A n \in DOMAIN pregs : pregs[n].kind = "literal" THEN "MHEUR_LITERAL"
  ELSE IF \E n \in DOMAIN pregs : pregs[n].kind = "none" THEN "MHEUR_NONE"
  ELSE "MHEUR_LONGEST"

(* ret is not initialized in the loops; "unset" stands for what it then has. *)
Init ==
  /\ pregs \in PregLists /\ nosub \in BOOLEAN
  /\ whole \in Texts
  /\ range \in {Between(0, Len(whole)), Between(1, Len(whole)), Between(0, Len(whole) - 1)}
  /\ pc = "execute_match"
  /\ text = range /\ glob = 0 /\ start = 0 /\ end = 0
  /\ i = 1 /\ matches = <<>>
  /\ curr = 1 /\ sub = range /\ hglob = 0
  /\ pmatch = NoMatch /\ ret = "unset"

(* frec_match is called with pattern id on the text t. *)
Call(id, t) ==
  /\ pc' = "frec_match"
  /\ curr' = id
  /\ sub' = t
  /\ hglob' = 0

Answer(next, r, m) == pc' = next /\ ret' = r /\ pmatch' = m

(* Faulty: the check lets empty parts pass. *)
EmptyRangeOnlyNegative == range.from > range.to

(* execute_match: an empty part matches nothing. *)
EmptyRange == range.from >= range.to

ExecuteEmpty ==
  /\ pc = "execute_match"
  /\ EmptyRange
  /\ pc' = "done" /\ ret' = "REG_NOMATCH"
  /\ UNCHANGED <<caller, multi, curr, sub, hglob, pmatch>>

Execute ==
  /\ pc = "execute_match"
  /\ ~ EmptyRange
  /\ IF MHeur = "MHEUR_SINGLE" THEN Call(1, text)
     ELSE pc' = MHeur /\ UNCHANGED <<curr, sub, hglob>>
  /\ UNCHANGED <<caller, multi, pmatch, ret>>

(* REG_STARTEND: the offsets are counted from the start of the whole text.  *)
Rebase ==
  /\ pc = "rebase"
  /\ Answer("done", ret, IF ret = "REG_OK" THEN Moved(pmatch, range.from) ELSE pmatch)
  /\ UNCHANGED <<caller, multi, curr, sub, hglob>>
-----------------------------------------------------------------------------
(* frec_match *)
preg == pregs[curr]

MatchLiteral ==
  /\ pc = "frec_match"
  /\ preg.kind = "literal"
  /\ IF PlacesOf(preg.lit, sub) = {} THEN Answer("returned", "REG_NOMATCH", pmatch)
     ELSE Answer("returned", "REG_OK", Occurrence(preg.lit, Least(PlacesOf(preg.lit, sub))))
  /\ UNCHANGED <<caller, multi, curr, sub, hglob>>

MatchOriginal ==
  /\ pc = "frec_match"
  /\ preg.kind = "none"
  /\ IF MatchesIn(preg, sub) = {} THEN Answer("returned", "REG_NOMATCH", pmatch)
     ELSE Answer("returned", "REG_OK", Original(preg, sub))
  /\ UNCHANGED <<caller, multi, curr, sub, hglob>>

(* Faulty: the original matcher begins behind the candidate's first place. *)
FromCandidateEnd == Between(sub.from + Least(PlacesOf(preg.lit, sub)) + 1, sub.to)

(* match_heuristic, HEUR_PREFIX: the original matcher from the first        *)
(* candidate on.                                                           *)
FromCandidate == Between(sub.from + Least(PlacesOf(preg.lit, sub)), sub.to)

MatchPrefix ==
  /\ pc = "frec_match"
  /\ preg.kind = "prefix"
  /\ IF PlacesOf(preg.lit, sub) = {} \/ MatchesIn(preg, FromCandidate) = {}
     THEN Answer("returned", "REG_NOMATCH", pmatch)
     ELSE Answer("returned", "REG_OK",
                 Moved(Original(preg, FromCandidate), FromCandidate.from - sub.from))
  /\ UNCHANGED <<caller, multi, curr, sub, hglob>>

(* match_heuristic, HEUR_LONGEST: section by section.                       *)
MatchLongest ==
  /\ pc = "frec_match"
  /\ preg.kind = "longest"
  /\ pc' = "section"
  /\ UNCHANGED <<caller, multi, curr, sub, hglob, pmatch, ret>>

HasCandidate == PlacesOf(preg.lit, sub) # {}
SecStart == SectionStart(preg, sub, Least(PlacesOf(preg.lit, sub)))
SecEnd == SectionEnd(preg, sub, Least(PlacesOf(preg.lit, sub)))
Section == Between(sub.from + SecStart, sub.from + SecEnd)

SectionsOver ==
  /\ pc = "section"
  /\ Length(sub) = 0
  /\ pc' = "returned"
  /\ UNCHANGED <<caller, multi, curr, sub, hglob, pmatch, ret>>

NoCandidate ==
  /\ pc = "section"
  /\ Length(sub) > 0
  /\ ~ HasCandidate
  /\ Answer("returned", "REG_NOMATCH", pmatch)
  /\ UNCHANGED <<caller, multi, curr, sub, hglob>>

SectionHit ==
  /\ pc = "section"
  /\ Length(sub) > 0 /\ HasCandidate
  /\ MatchesIn(preg, Section) # {}
  /\ Answer("returned", "REG_OK", Moved(Original(preg, Section), hglob + SecStart))
  /\ UNCHANGED <<caller, multi, curr, sub, hglob>>

(* Faulty: the offset is not kept up. *)
SectionMissNoOffset ==
  /\ pc = "section"
  /\ Length(sub) > 0 /\ HasCandidate
  /\ MatchesIn(preg, Section) = {}
  /\ ret' = "REG_NOMATCH"
  /\ sub' = [sub EXCEPT !.from = @ + SecEnd]
  /\ UNCHANGED <<caller, pc, multi, curr, hglob, pmatch>>

(* Faulty: the search goes on from the start of the section. *)
SectionMissFromStart ==
  /\ pc = "section"
  /\ Length(sub) > 0 /\ HasCandidate
  /\ MatchesIn(preg, Section) = {}
  /\ ret' = "REG_NOMATCH"
  /\ sub' = [sub EXCEPT !.from = @ + SecStart]
  /\ hglob' = hglob + SecStart
  /\ UNCHANGED <<caller, pc, multi, curr, pmatch>>

SectionMiss ==
  /\ pc = "section"
  /\ Length(sub) > 0 /\ HasCandidate
  /\ MatchesIn(preg, Section) = {}
  /\ ret' = "REG_NOMATCH"
  /\ sub' = [sub EXCEPT !.from = @ + SecEnd]
  /\ hglob' = hglob + SecEnd
  /\ UNCHANGED <<caller, pc, multi, curr, pmatch>>
-----------------------------------------------------------------------------
(* frec_mmatch *)
SingleReturned ==
  /\ pc = "returned"
  /\ MHeur = "MHEUR_SINGLE"
  /\ pc' = "rebase"
  /\ UNCHANGED <<caller, multi, curr, sub, hglob, pmatch, ret>>

AllLiteral ==
  /\ pc = "MHEUR_LITERAL"
  /\ IF CandidatesIn(text) = {} THEN Answer("rebase", "REG_NOMATCH", pmatch)
     ELSE LET c == FirstCandidate(text)
          IN Answer("rebase", "REG_OK", Occurrence(pregs[c.id].lit, c.soffset))
  /\ UNCHANGED <<caller, multi, curr, sub, hglob>>

(* MHEUR_LONGEST: the section around the first candidate is matched with    *)
(* the pattern of the candidate; that of a literal is the candidate.        *)
CandidateSection ==
  /\ pc = "MHEUR_LONGEST"
  /\ Length(text) > 0 /\ CandidatesIn(text) # {}
  /\ LET c == FirstCandidate(text)
         p == pregs[c.id]
     IN /\ start' = IF p.kind = "literal" THEN c.soffset ELSE SectionStart(p, text, c.soffset)
        /\ end' = IF p.kind = "literal" THEN c.soffset + Len(p.lit)
                  ELSE SectionEnd(p, text, c.soffset)
        /\ Call(c.id, Between(text.from + start', text.from + end'))
  /\ UNCHANGED <<caller, text, glob, i, matches, pmatch, ret>>

NoCandidateLeft ==
  /\ pc = "MHEUR_LONGEST"
  /\ Length(text) > 0 /\ CandidatesIn(text) = {}
  /\ Answer("rebase", "REG_NOMATCH", pmatch)
  /\ UNCHANGED <<caller, multi, curr, sub, hglob>>

TextOver ==
  /\ pc = "MHEUR_LONGEST"
  /\ Length(text) = 0
  /\ pc' = "rebase"
  /\ UNCHANGED <<caller, multi, curr, sub, hglob, pmatch, ret>>

LongestHit ==
  /\ pc = "returned"
  /\ MHeur = "MHEUR_LONGEST" /\ ret = "REG_OK"
  /\ Answer("rebase", ret, Moved(pmatch, glob + start))
  /\ UNCHANGED <<caller, multi, curr, sub, hglob>>

LongestMiss ==
  /\ pc = "returned"
  /\ MHeur = "MHEUR_LONGEST" /\ ret # "REG_OK"
  /\ text' = [text EXCEPT !.from = @ + end]
  /\ glob' = glob + end
  /\ pc' = "MHEUR_LONGEST"
  /\ UNCHANGED <<caller, start, end, i, matches, curr, sub, hglob, pmatch, ret>>

(* Faulty: one pattern too many. *)
NextPatternPastTheLast ==
  /\ pc = "MHEUR_NONE"
  /\ i <= Len(pregs) + 1
  /\ Call(i, text)
  /\ UNCHANGED <<caller, multi, pmatch, ret>>

(* MHEUR_NONE: one pattern after the other; without offsets the first match *)
(* will do.                                                                *)
NextPattern ==
  /\ pc = "MHEUR_NONE"
  /\ i <= Len(pregs)
  /\ Call(i, text)
  /\ UNCHANGED <<caller, multi, pmatch, ret>>

(* Faulty: the loop goes on after a match. *)
NoSubReturnedGoesOn ==
  /\ pc = "returned"
  /\ MHeur = "MHEUR_NONE" /\ nosub
  /\ pc' = "MHEUR_NONE" /\ i' = i + 1
  /\ UNCHANGED <<caller, text, glob, start, end, matches, curr, sub, hglob, pmatch, ret>>

NoSubReturned ==
  /\ pc = "returned"
  /\ MHeur = "MHEUR_NONE" /\ nosub
  /\ IF ret = "REG_OK" THEN pc' = "rebase" /\ UNCHANGED i
     ELSE pc' = "MHEUR_NONE" /\ i' = i + 1
  /\ UNCHANGED <<caller, text, glob, start, end, matches, curr, sub, hglob, pmatch, ret>>

PatternReturned ==
  /\ pc = "returned"
  /\ MHeur = "MHEUR_NONE" /\ ~ nosub /\ i <= Len(pregs)
  /\ matches' = Append(matches, IF ret = "REG_OK" THEN pmatch ELSE NoMatch)
  /\ i' = i + 1
  /\ pc' = "MHEUR_NONE"
  /\ UNCHANGED <<caller, text, glob, start, end, curr, sub, hglob, pmatch, ret>>

Matched == {n \in DOMAIN matches : matches[n].soffset # -1}
First == CHOOSE n \in Matched : \A k \in Matched :
           matches[n].soffset < matches[k].soffset
             \/ (matches[n].soffset = matches[k].soffset /\ n <= k)

NothingMatched ==
  /\ pc = "MHEUR_NONE"
  /\ i > Len(pregs) /\ Matched = {}
  /\ Answer("rebase", "REG_NOMATCH", pmatch)
  /\ UNCHANGED <<caller, multi, curr, sub, hglob>>

(* The first match is searched for once more, for its submatches. *)
MatchFirstAgain ==
  /\ pc = "MHEUR_NONE"
  /\ i > Len(pregs) /\ Matched # {}
  /\ Call(First, Between(text.from + matches[First].soffset, text.from + matches[First].eoffset))
  /\ UNCHANGED <<caller, multi, pmatch, ret>>

FirstReturned ==
  /\ pc = "returned"
  /\ MHeur = "MHEUR_NONE" /\ ~ nosub /\ i > Len(pregs)
  /\ pc' = "rebase"
  /\ UNCHANGED <<caller, multi, curr, sub, hglob, pmatch, ret>>

FrecMatch ==
  \/ MatchLiteral \/ MatchOriginal \/ MatchPrefix \/ MatchLongest
  \/ SectionsOver \/ NoCandidate \/ SectionHit \/ SectionMiss
FrecMMatch ==
  \/ SingleReturned \/ AllLiteral
  \/ CandidateSection \/ NoCandidateLeft \/ TextOver \/ LongestHit \/ LongestMiss
  \/ NextPattern \/ NoSubReturned \/ PatternReturned \/ NothingMatched
  \/ MatchFirstAgain \/ FirstReturned
Next == ExecuteEmpty \/ Execute \/ Rebase \/ FrecMatch \/ FrecMMatch

(* One thread runs the call to its end. *)
Spec == Init /\ [][Next]_vars /\ WF_vars(Next)
-----------------------------------------------------------------------------
Interval == [from : 0 .. Len(whole), to : 0 .. Len(whole)]
Offsets == [soffset : -1 .. Len(whole), eoffset : -1 .. Len(whole)]

(* All texts are sections of the caller's; offsets stay inside it. *)
TypeOK ==
  /\ pc \in {"execute_match", "frec_match", "section", "returned", "rebase", "done",
             "MHEUR_LITERAL", "MHEUR_LONGEST", "MHEUR_NONE"}
  /\ pc # "execute_match" /\ ~ EmptyRange => text \in Interval /\ sub \in Interval
  /\ glob \in 0 .. Len(whole) /\ hglob \in 0 .. Len(whole)
  /\ start \in 0 .. Len(whole) /\ end \in 0 .. Len(whole)
  /\ curr \in DOMAIN pregs /\ i \in 1 .. Len(pregs) + 1
  /\ \A n \in DOMAIN matches : matches[n] \in Offsets
  /\ pmatch \in Offsets
  /\ ret \in {"unset", "REG_OK", "REG_NOMATCH"}

(* Whatever way a match was found, through how many sections and texts cut   *)
(* out of texts: the offsets reported are those of a word of a pattern in    *)
(* the caller's text, inside the part to search.  (After MHEUR_NONE they     *)
(* are not: MatchFirstAgain finds them relative to the match it searches.)   *)
OffsetsNameAMatch ==
  pc = "done" /\ ret = "REG_OK" /\ MHeur # "MHEUR_NONE" =>
    /\ range.from <= pmatch.soffset /\ pmatch.eoffset <= range.to
    /\ \E n \in DOMAIN pregs : Excerpt(pmatch.soffset, pmatch.eoffset) \in pregs[n].words

(* Patterns whose sections are whole lines, or that are matched from the     *)
(* literal they begin with, and no anchor that the end of a line satisfies.  *)
Exact(p) == p.kind = "longest" => p.max = -1 /\ ~ p.eol

(* For these the heuristics are only an optimisation: frec_match answers     *)
(* what the original matcher answers on the whole text.                     *)
AnswersAsOriginal ==
  pc = "done" /\ MHeur = "MHEUR_SINGLE" /\ ~ EmptyRange /\ Exact(pregs[1]) =>
    IF MatchesIn(pregs[1], range) = {} THEN ret = "REG_NOMATCH"
    ELSE ret = "REG_OK" /\ pmatch = Moved(Original(pregs[1], range), range.from)

(* Without offsets, patterns that are tried one by one match if and only if  *)
(* one of them does.                                                       *)
NoSubIsExact ==
  pc = "done" /\ MHeur = "MHEUR_NONE" /\ nosub /\ ~ EmptyRange
      /\ (\A n \in DOMAIN pregs : Exact(pregs[n])) =>
    (ret = "REG_OK" <=> \E n \in DOMAIN pregs : MatchesIn(pregs[n], range) # {})

(* The loops over sections leave with an answer: they are entered with some  *)
(* text, so that ret is assigned before it is returned.                     *)
RetIsSet == pc \in {"returned", "rebase", "done"} => ret # "unset"

(* Each section that is given up takes some text with it.                   *)
Returns == <>(pc = "done")
-----------------------------------------------------------------------------
(* The comment on the offset of the next section: no match was found before  *)
(* its end, so that the search may go on there.                             *)
NoMatchBeforeEnd ==
  pc = "section" /\ MHeur = "MHEUR_SINGLE" =>
    \A m \in MatchesIn(preg, range) : range.from + m.soffset >= sub.from
=============================================================================
