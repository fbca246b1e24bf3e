----------------------------- MODULE FirstMatch -----------------------------
(***************************************************************************)
(* What a literal matcher of libfrec promises: after one successful         *)
(* compilation a search either reports an occurrence of a pattern such that *)
(* no pattern occurs further left, and of the patterns occurring there the  *)
(* first one of the list, or reports that no pattern occurs in the text.    *)
(* Offsets count from 0 and pattern ids index the list from 0, as in C.     *)
(***************************************************************************)
EXTENDS Integers, Sequences

CONSTANTS PatternLists,   \* the pattern lists that may be compiled
          Texts           \* the texts that may be searched

VARIABLES patterns,       \* the compiled list of patterns
          text,           \* the text of the search
          status,         \* where the matcher is with its one job
          ret,            \* the code it returned
          result          \* the match it reported

vars == <<patterns, text, status, ret, result>>

NoResult == [soffset |-> -1, eoffset |-> -1, pattern_id |-> -1]

Ids == {n - 1 : n \in DOMAIN patterns}
Pattern(id) == patterns[id + 1]

(* Pattern id occurs in the text at offset q. *)
Occurs(id, q) ==
  /\ q + Len(Pattern(id)) <= Len(text)
  /\ \A n \in 1 .. Len(Pattern(id)) : text[q + n] = Pattern(id)[n]

FirstOccurrences ==
  {r \in [soffset : 0 .. Len(text), eoffset : 0 .. Len(text), pattern_id : Ids] :
     /\ Occurs(r.pattern_id, r.soffset)
     /\ r.eoffset = r.soffset + Len(Pattern(r.pattern_id))
     /\ \A q \in 0 .. r.soffset - 1, id \in Ids : ~ Occurs(id, q)
     /\ \A id \in Ids : id < r.pattern_id => ~ Occurs(id, r.soffset)}
-----------------------------------------------------------------------------
Init ==
  /\ patterns \in PatternLists
  /\ text = <<>>
  /\ status = "compiling"
  /\ ret = "none"
  /\ result = NoResult

(* Compilation may run out of memory or of room in its table. *)
Reject ==
  /\ status = "compiling"
  /\ status' = "rejected"
  /\ ret' \in {"REG_ESPACE", "REG_BADPAT"}
  /\ UNCHANGED <<patterns, text, result>>

Ask ==
  /\ status = "compiling"
  /\ status' = "searching"
  /\ text' \in Texts
  /\ UNCHANGED <<patterns, ret, result>>

Answer ==
  /\ status = "searching"
  /\ status' = "answered"
  /\ IF FirstOccurrences = {}
     THEN ret' = "REG_NOMATCH" /\ result' = NoResult
     ELSE ret' = "REG_OK" /\ result' \in FirstOccurrences
  /\ UNCHANGED <<patterns, text>>

Next == Reject \/ Ask \/ Answer

(* What is answered, and that there is an answer. *)
Safety == Init /\ [][Next]_vars
Spec == Safety /\ WF_vars(Answer)
=============================================================================
