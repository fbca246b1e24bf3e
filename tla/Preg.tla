--------------------------------- MODULE Preg ---------------------------------
(***************************************************************************)
(* What the compilation of a pattern promises and matching relies on: how   *)
(* the literal that is searched for lies in the words of the pattern.       *)
(***************************************************************************)
EXTENDS Integers, Sequences

IsInfix(u, w) == \E n \in 0 .. Len(w) - Len(u) : SubSeq(w, n + 1, n + Len(u)) = u
IsStart(u, w) == Len(u) <= Len(w) /\ SubSeq(w, 1, Len(u)) = u

(* A compiled pattern p has its kind, literal lit and bound max, the set of  *)
(* its words and its anchors: each word is the literal, or has it, within    *)
(* the bound or in one line, or begins with it.                            *)
KeepsPromise(p, newline) ==
  CASE p.kind = "literal" -> p.words = {p.lit} /\ ~ p.bol /\ ~ p.eol
    [] p.kind = "longest" ->
         /\ p.lit # <<>>
         /\ \A w \in p.words : IsInfix(p.lit, w)
         /\ IF p.max = -1 THEN \A w \in p.words : \A n \in DOMAIN w : w[n] # newline
            ELSE Len(p.lit) <= p.max /\ \A w \in p.words : Len(w) <= p.max
    [] p.kind = "prefix"  -> /\ p.lit # <<>> /\ p.max = -1 /\ ~ p.bol
                             /\ \A w \in p.words : IsStart(p.lit, w)
    [] p.kind = "none"    -> TRUE
=============================================================================
