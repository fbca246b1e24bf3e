----------------------------- MODULE MatchProofs -----------------------------
(***************************************************************************)
(* For all lists of patterns and all texts: an answer is given, its offsets  *)
(* are those of a word of a pattern, and where the sections are whole lines   *)
(* it is the answer of the original matcher.                                *)
(***************************************************************************)
EXTENDS Match, SequenceTheorems, WellFoundedInduction, TLAPS

(* A section of the caller's text. *)
Within(t) == t \in Interval /\ t.from <= t.to

LEMMA WithinTypes ==
  ASSUME whole \in Seq(Char), NEW t, Within(t)
  PROVE  /\ t.from \in Nat /\ t.to \in Nat /\ t.from <= t.to /\ t.to <= Len(whole)
         /\ Len(whole) \in Nat /\ Length(t) \in Nat /\ Length(t) = t.to - t.from
         /\ t = Between(t.from, t.to)
<1>1. Len(whole) \in Nat
  OBVIOUS
<1>2. t \in [from : 0 .. Len(whole), to : 0 .. Len(whole)] /\ t.from <= t.to
  BY DEF Within, Interval
<1> QED
  BY <1>1, <1>2 DEF Length, Between

LEMMA BetweenIsWithin ==
  ASSUME whole \in Seq(Char), NEW f \in Nat, NEW e \in Nat, f <= e, e <= Len(whole)
  PROVE  /\ Within(Between(f, e)) /\ Length(Between(f, e)) = e - f
         /\ Between(f, e).from = f /\ Between(f, e).to = e
BY DEF Within, Interval, Between, Length

LEMMA LeastNumber ==
  ASSUME NEW T \in SUBSET Nat, T # {}
  PROVE  \E x \in T : \A y \in T : x <= y
<1>1. PICK x \in T : \A y \in T : ~ (<<y, x>> \in OpToRel(<, Nat))
  BY WFMin, NatLessThanWellFounded
<1>2. \A y \in T : <<y, x>> \in OpToRel(<, Nat) <=> y < x
  BY DEF OpToRel
<1>3. \A y \in T : ~ (y < x)
  BY <1>1, <1>2, Zenon
<1> QED
  BY <1>3

LEMMA LeastIsLeast ==
  ASSUME NEW T \in SUBSET Nat, T # {}
  PROVE  Least(T) \in T /\ \A y \in T : Least(T) <= y
<1>1. \E x \in T : \A y \in T : x <= y
  BY LeastNumber
<1> QED
  BY <1>1 DEF Least

LEMMA GreatestNumber ==
  ASSUME NEW b \in Nat, NEW T \in SUBSET (0 .. b), T # {}
  PROVE  \E x \in T : \A y \in T : x >= y
<1> DEFINE U == {b - x : x \in T}
<1>1. U \in SUBSET Nat /\ U # {}
  <2>1. \A x \in T : b - x \in Nat
    OBVIOUS
  <2> QED
    BY <2>1
<1>2. PICK z \in U : \A y \in U : z <= y
  BY <1>1, LeastNumber
<1>3. PICK x \in T : z = b - x
  BY <1>2
<1>4. \A y \in T : x >= y
  <2> TAKE y \in T
  <2>1. b - y \in U
    OBVIOUS
  <2>2. b - x <= b - y
    BY <1>2, <1>3, <2>1
  <2>3. x \in 0 .. b /\ y \in 0 .. b
    OBVIOUS
  <2> QED
    BY <2>2, <2>3, SMTT(30)
<1> QED
  BY <1>4
-----------------------------------------------------------------------------
(* Words and the text *)
LEMMA ExcerptShape ==
  ASSUME whole \in Seq(Char), NEW f \in Nat, NEW e \in Nat, f <= e, e <= Len(whole)
  PROVE  /\ Excerpt(f, e) \in Seq(Char) /\ Len(Excerpt(f, e)) = e - f
         /\ \A k \in 1 .. e - f : Excerpt(f, e)[k] = whole[f + k]
<1>1. \A k \in f + 1 .. e : whole[k] \in Char
  OBVIOUS
<1>2. /\ SubSeq(whole, f + 1, e) \in Seq(Char)
      /\ Len(SubSeq(whole, f + 1, e)) = IF f + 1 <= e THEN e - (f + 1) + 1 ELSE 0
      /\ \A k \in 1 .. e - (f + 1) + 1 : SubSeq(whole, f + 1, e)[k] = whole[(f + 1) + k - 1]
  BY <1>1, SubSeqProperties
<1>3. \A k \in 1 .. e - f : k \in 1 .. e - (f + 1) + 1 /\ (f + 1) + k - 1 = f + k
  OBVIOUS
<1> QED
  BY <1>2, <1>3 DEF Excerpt

LEMMA ExcerptOfExcerpt ==
  ASSUME whole \in Seq(Char), NEW f \in Nat, NEW e \in Nat, f <= e, e <= Len(whole),
         NEW n \in Nat, NEW l \in Nat, n + l <= e - f
  PROVE  SubSeq(Excerpt(f, e), n + 1, n + l) = Excerpt(f + n, f + n + l)
<1> DEFINE w == Excerpt(f, e)
<1>1. w \in Seq(Char) /\ Len(w) = e - f /\ \A k \in 1 .. e - f : w[k] = whole[f + k]
  BY ExcerptShape
<1>2. /\ Excerpt(f + n, f + n + l) \in Seq(Char) /\ Len(Excerpt(f + n, f + n + l)) = l
      /\ \A k \in 1 .. l : Excerpt(f + n, f + n + l)[k] = whole[f + n + k]
  <2> HIDE DEF w
  <2> DEFINE a == f + n
             z == f + n + l
  <2>1. Len(whole) \in Nat
    OBVIOUS
  <2>2. a \in Nat /\ z \in Nat /\ a <= z /\ z <= Len(whole) /\ z - a = l
    BY <2>1
  <2> HIDE DEF a, z
  <2>3. /\ Excerpt(a, z) \in Seq(Char) /\ Len(Excerpt(a, z)) = z - a
        /\ \A k \in 1 .. z - a : Excerpt(a, z)[k] = whole[a + k]
    BY <2>2, ExcerptShape
  <2> QED
    BY <2>2, <2>3 DEF a, z
<1> HIDE DEF w
<1>3. /\ SubSeq(w, n + 1, n + l) \in Seq(Char)
      /\ Len(SubSeq(w, n + 1, n + l)) = l
      /\ \A k \in 1 .. l : SubSeq(w, n + 1, n + l)[k] = w[n + k]
  <2>1. \A k \in n + 1 .. n + l : w[k] \in Char
    BY <1>1
  <2>2. /\ SubSeq(w, n + 1, n + l) \in Seq(Char)
        /\ Len(SubSeq(w, n + 1, n + l)) = IF n + 1 <= n + l THEN n + l - (n + 1) + 1 ELSE 0
        /\ \A k \in 1 .. n + l - (n + 1) + 1 : SubSeq(w, n + 1, n + l)[k] = w[(n + 1) + k - 1]
    BY <2>1, SubSeqProperties
  <2>3. \A k \in 1 .. l : k \in 1 .. n + l - (n + 1) + 1 /\ (n + 1) + k - 1 = n + k
    OBVIOUS
  <2>4. l = IF n + 1 <= n + l THEN n + l - (n + 1) + 1 ELSE 0
    OBVIOUS
  <2> QED
    BY <2>2, <2>3, <2>4
<1>4. \A k \in 1 .. l : w[n + k] = whole[f + n + k]
  <2> TAKE k \in 1 .. l
  <2>1. n + k \in 1 .. e - f /\ f + (n + k) = f + n + k
    OBVIOUS
  <2> QED
    BY <1>1, <2>1
<1>5. SubSeq(w, n + 1, n + l) = Excerpt(f + n, f + n + l)
  BY <1>2, <1>3, <1>4, SeqEqual
<1> QED
  BY <1>5 DEF w

LEMMA InfixPlace ==
  ASSUME whole \in Seq(Char), NEW f \in Nat, NEW e \in Nat, f <= e, e <= Len(whole),
         NEW u \in Seq(Char), IsInfix(u, Excerpt(f, e))
  PROVE  \E q \in f .. e - Len(u) : Excerpt(q, q + Len(u)) = u
<1>1. Len(Excerpt(f, e)) = e - f /\ Len(u) \in Nat
  BY ExcerptShape
<1>2. PICK n \in 0 .. (e - f) - Len(u) : SubSeq(Excerpt(f, e), n + 1, n + Len(u)) = u
  BY <1>1 DEF IsInfix
<1>3. n \in Nat /\ n + Len(u) <= e - f /\ f + n \in f .. e - Len(u)
  BY <1>1, <1>2
<1>4. Excerpt(f + n, f + n + Len(u)) = u
  BY <1>1, <1>2, <1>3, ExcerptOfExcerpt, ZenonT(30)
<1> QED
  BY <1>3, <1>4

LEMMA StartPlace ==
  ASSUME whole \in Seq(Char), NEW f \in Nat, NEW e \in Nat, f <= e, e <= Len(whole),
         NEW u \in Seq(Char), IsStart(u, Excerpt(f, e))
  PROVE  f + Len(u) <= e /\ Excerpt(f, f + Len(u)) = u
<1>1. Len(Excerpt(f, e)) = e - f /\ Len(u) \in Nat
  BY ExcerptShape
<1>2. Len(u) <= e - f /\ SubSeq(Excerpt(f, e), 0 + 1, 0 + Len(u)) = u
  BY <1>1 DEF IsStart
<1>3. 0 \in Nat /\ 0 + Len(u) <= e - f
  BY <1>1, <1>2
<1>4. SubSeq(Excerpt(f, e), 0 + 1, 0 + Len(u)) = Excerpt(f + 0, f + 0 + Len(u))
  BY <1>1, <1>3, ExcerptOfExcerpt, ZenonT(30)
<1> QED
  BY <1>1, <1>2, <1>4

LEMMA BreakInside ==
  ASSUME whole \in Seq(Char), NEW f \in Nat, NEW e \in Nat, f <= e, e <= Len(whole),
         NEW x \in Nat, f <= x, x < e, CharAt(x) = Newline
  PROVE  \E n \in DOMAIN Excerpt(f, e) : Excerpt(f, e)[n] = Newline
<1>1. /\ Excerpt(f, e) \in Seq(Char) /\ Len(Excerpt(f, e)) = e - f
      /\ \A k \in 1 .. e - f : Excerpt(f, e)[k] = whole[f + k]
  BY ExcerptShape
<1>2. x - f + 1 \in 1 .. e - f /\ f + (x - f + 1) = x + 1
  OBVIOUS
<1>3. Excerpt(f, e)[x - f + 1] = Newline /\ x - f + 1 \in DOMAIN Excerpt(f, e)
  BY <1>1, <1>2 DEF CharAt
<1> QED
  BY <1>3
-----------------------------------------------------------------------------
(* What the searches return *)
LEMMA PlacesAre ==
  ASSUME whole \in Seq(Char), NEW t, Within(t), NEW u \in Seq(Char)
  PROVE  /\ PlacesOf(u, t) \in SUBSET Nat
         /\ \A q \in PlacesOf(u, t) : q + Len(u) <= Length(t) /\ Excerpt(t.from + q, t.from + q + Len(u)) = u
         /\ \A q \in Nat : q + Len(u) <= Length(t) /\ Excerpt(t.from + q, t.from + q + Len(u)) = u
              => q \in PlacesOf(u, t)
<1>1. Length(t) \in Nat /\ Len(u) \in Nat
  BY WithinTypes
<1> QED
  BY <1>1 DEF PlacesOf

LEMMA BackwardIs ==
  ASSUME whole \in Seq(Char), NEW t, Within(t), NEW pos \in 0 .. Length(t)
  PROVE  /\ find_lf_backward(t, pos) \in 0 .. pos
         /\ \/ find_lf_backward(t, pos) = 0
            \/ CharAt(t.from + find_lf_backward(t, pos)) = Newline
<1> DEFINE lf == {q \in 0 .. pos : q < Length(t) /\ CharAt(t.from + q) = Newline}
<1>1. pos \in Nat
  BY WithinTypes
<1>2. CASE lf = {}
  BY <1>1, <1>2 DEF find_lf_backward
<1>3. CASE lf # {}
  <2>1. lf \in SUBSET (0 .. pos)
    OBVIOUS
  <2> HIDE DEF lf
  <2>2. \E x \in lf : \A y \in lf : x >= y
    BY <1>1, <1>3, <2>1, GreatestNumber
  <2> USE DEF lf
  <2>3. (CHOOSE q \in lf : \A r \in lf : q >= r) \in lf
    BY <2>2
  <2>4. find_lf_backward(t, pos) = CHOOSE q \in lf : \A r \in lf : q >= r
    BY <1>3 DEF find_lf_backward
  <2> QED
    BY <2>3, <2>4
<1> QED
  BY <1>2, <1>3

LEMMA ForwardIs ==
  ASSUME whole \in Seq(Char), NEW t, Within(t), NEW pos \in 0 .. Length(t)
  PROVE  /\ find_lf_forward(t, pos) \in pos .. Length(t)
         /\ \/ find_lf_forward(t, pos) = Length(t)
            \/ CharAt(t.from + find_lf_forward(t, pos)) = Newline
<1> DEFINE lf == {q \in pos .. Length(t) - 1 : CharAt(t.from + q) = Newline}
<1>1. pos \in Nat /\ Length(t) \in Nat /\ pos <= Length(t)
  BY WithinTypes
<1>2. CASE lf = {}
  BY <1>1, <1>2 DEF find_lf_forward
<1>3. CASE lf # {}
  <2>1. lf \in SUBSET Nat
    BY <1>1
  <2>2. find_lf_forward(t, pos) = Least(lf)
    BY <1>3 DEF find_lf_forward
  <2> HIDE DEF lf
  <2>3. Least(lf) \in lf
    BY <1>3, <2>1, LeastIsLeast
  <2> USE DEF lf
  <2>4. find_lf_forward(t, pos) \in {q \in pos .. Length(t) - 1 : CharAt(t.from + q) = Newline}
    BY <2>2, <2>3
  <2> HIDE DEF lf
  <2>5. /\ find_lf_forward(t, pos) \in pos .. Length(t) - 1
        /\ CharAt(t.from + find_lf_forward(t, pos)) = Newline
    BY <2>4
  <2> QED
    BY <1>1, <2>5
<1> QED
  BY <1>2, <1>3

(* The section around a candidate has the candidate in it. *)
LEMMA SectionBounds ==
  ASSUME whole \in Seq(Char), NEW t, Within(t), NEW p \in Preg, KeepsPromise(p, Newline),
         p.kind \in {"longest", "prefix"},
         NEW s \in PlacesOf(p.lit, t)
  PROVE  /\ SectionStart(p, t, s) \in 0 .. s /\ s \in Nat
         /\ SectionEnd(p, t, s) \in s + Len(p.lit) .. Length(t)
         /\ Len(p.lit) \in Nat /\ Len(p.lit) > 0
         /\ p.max = -1 => /\ SectionStart(p, t, s) = 0 \/ CharAt(t.from + SectionStart(p, t, s)) = Newline
                          /\ SectionEnd(p, t, s) = Length(t) \/ CharAt(t.from + SectionEnd(p, t, s)) = Newline
<1>1. p.lit \in Seq(Char) /\ p.max \in Int
  BY DEF Preg
<1>2. p.lit # <<>> /\ (p.max # -1 => Len(p.lit) <= p.max)
  BY DEF KeepsPromise
<1>3. Len(p.lit) \in Nat /\ Len(p.lit) > 0
  BY <1>1, <1>2
<1>4. s \in Nat /\ s + Len(p.lit) <= Length(t) /\ Length(t) \in Nat
  BY <1>1, PlacesAre, WithinTypes
<1>5. CASE p.max = -1
  <2>1. s \in 0 .. Length(t) /\ s + Len(p.lit) \in 0 .. Length(t)
    BY <1>3, <1>4
  <2>2. SectionStart(p, t, s) = find_lf_backward(t, s) /\ SectionEnd(p, t, s) = find_lf_forward(t, s + Len(p.lit))
    BY <1>5 DEF SectionStart, SectionEnd
  <2> QED
    BY <1>3, <1>4, <2>1, <2>2, BackwardIs, ForwardIs
<1>6. CASE p.max # -1
  BY <1>1, <1>2, <1>3, <1>4, <1>6, SMTT(30) DEF SectionStart, SectionEnd, MaxOf, MinOf
<1> QED
  BY <1>5, <1>6
-----------------------------------------------------------------------------
(* Matches *)
IsWord(p, t, m) ==
  /\ m \in [soffset : 0 .. Length(t), eoffset : 0 .. Length(t)]
  /\ m.soffset <= m.eoffset
  /\ Excerpt(t.from + m.soffset, t.from + m.eoffset) \in p.words
IsOriginal(m, p, t) ==
  \A n \in MatchesIn(p, t) : m.soffset < n.soffset \/ (m.soffset = n.soffset /\ m.eoffset >= n.eoffset)
IsExact(p, t, r, m) ==
  IF MatchesIn(p, t) = {} THEN r = "REG_NOMATCH" ELSE r = "REG_OK" /\ m = Original(p, t)

LEMMA MatchIsWord ==
  ASSUME NEW p, NEW t, NEW m
  PROVE  m \in MatchesIn(p, t) <=>
           /\ IsWord(p, t, m) /\ (p.bol => m.soffset = 0) /\ (p.eol => m.eoffset = Length(t))
BY DEF MatchesIn, IsWord

LEMMA WordTypes ==
  ASSUME whole \in Seq(Char), NEW p, NEW t, Within(t), NEW m, IsWord(p, t, m)
  PROVE  /\ m.soffset \in Nat /\ m.eoffset \in Nat /\ m.soffset <= m.eoffset /\ m.eoffset <= Length(t)
         /\ m = [soffset |-> m.soffset, eoffset |-> m.eoffset]
         /\ t.from + m.soffset \in Nat /\ t.from + m.eoffset \in Nat
         /\ t.from + m.soffset <= t.from + m.eoffset /\ t.from + m.eoffset <= Len(whole)
<1>1. t.from \in Nat /\ t.to \in Nat /\ t.to <= Len(whole) /\ Length(t) = t.to - t.from /\ Len(whole) \in Nat
  BY WithinTypes
<1>2. m \in [soffset : 0 .. Length(t), eoffset : 0 .. Length(t)] /\ m.soffset <= m.eoffset
  BY DEF IsWord
<1> QED
  BY <1>1, <1>2

LEMMA OriginalExists ==
  ASSUME whole \in Seq(Char), NEW p, NEW t, Within(t), MatchesIn(p, t) # {}
  PROVE  Original(p, t) \in MatchesIn(p, t) /\ IsOriginal(Original(p, t), p, t)
<1>1. \A m \in MatchesIn(p, t) : m.soffset \in Nat /\ m.eoffset \in 0 .. Length(t)
  <2> TAKE m \in MatchesIn(p, t)
  <2>1. IsWord(p, t, m)
    BY MatchIsWord
  <2> QED
    BY <2>1, WordTypes, WithinTypes
<1> DEFINE starts == {m.soffset : m \in MatchesIn(p, t)}
<1>2. starts \in SUBSET Nat /\ starts # {}
  BY <1>1
<1>3. PICK so \in starts : \A x \in starts : so <= x
  BY <1>2, LeastNumber
<1> DEFINE ends == {e \in 0 .. Length(t) : \E m \in MatchesIn(p, t) : m.soffset = so /\ m.eoffset = e}
<1>4. ends \in SUBSET (0 .. Length(t)) /\ ends # {} /\ Length(t) \in Nat
  BY <1>1, WithinTypes
<1> HIDE DEF ends
<1>5. PICK eo \in ends : \A x \in ends : eo >= x
  BY <1>4, GreatestNumber
<1> USE DEF ends
<1>6. PICK m \in MatchesIn(p, t) : m.soffset = so /\ m.eoffset = eo
  OBVIOUS
<1>7. IsOriginal(m, p, t)
  <2> SUFFICES ASSUME NEW n \in MatchesIn(p, t)
               PROVE  m.soffset < n.soffset \/ (m.soffset = n.soffset /\ m.eoffset >= n.eoffset)
    BY DEF IsOriginal
  <2>1. m.soffset \in Nat /\ n.soffset \in Nat /\ m.soffset <= n.soffset
    BY <1>1, <1>3, <1>6
  <2>2. CASE n.soffset = m.soffset
    <3>1. n.eoffset \in ends
      BY <1>1, <1>6, <2>2
    <3> QED
      BY <1>5, <1>6, <2>2, <3>1
  <2> QED
    BY <2>1, <2>2
<1> QED
  BY <1>7 DEF Original, IsOriginal

LEMMA OriginalOnly ==
  ASSUME whole \in Seq(Char), NEW p, NEW t, Within(t), NEW m \in MatchesIn(p, t), IsOriginal(m, p, t)
  PROVE  Original(p, t) = m
<1> DEFINE o == Original(p, t)
<1>1. o \in MatchesIn(p, t) /\ IsOriginal(o, p, t)
  BY OriginalExists
<1> HIDE DEF o
<1>2. IsWord(p, t, m) /\ IsWord(p, t, o)
  BY <1>1, MatchIsWord
<1>3. /\ m.soffset \in Nat /\ m.eoffset \in Nat /\ m = [soffset |-> m.soffset, eoffset |-> m.eoffset]
      /\ o.soffset \in Nat /\ o.eoffset \in Nat /\ o = [soffset |-> o.soffset, eoffset |-> o.eoffset]
  BY <1>2, WordTypes
<1>4. o.soffset = m.soffset /\ o.eoffset = m.eoffset
  BY <1>1, <1>3 DEF IsOriginal
<1>5. o = m
  BY <1>3, <1>4
<1> QED
  BY <1>5 DEF o

LEMMA MovedInside ==
  ASSUME NEW tf \in Nat, NEW tt \in Nat, NEW uf \in Nat, NEW ut \in Nat, NEW d \in Nat,
         uf = tf + d, uf <= ut, ut <= tt, NEW so \in Nat, NEW eo \in Nat, so <= eo
  PROVE  /\ eo <= ut - uf =>
              /\ so + d \in 0 .. tt - tf /\ eo + d \in 0 .. tt - tf /\ so + d <= eo + d
              /\ tf + (so + d) = uf + so /\ tf + (eo + d) = uf + eo
         /\ d <= so /\ tf + eo <= ut =>
              /\ so - d \in 0 .. ut - uf /\ eo - d \in 0 .. ut - uf /\ so - d <= eo - d
              /\ uf + (so - d) = tf + so /\ uf + (eo - d) = tf + eo
OBVIOUS

(* A word in a section is one in the text the section was cut out of. *)
LEMMA WordInSection ==
  ASSUME whole \in Seq(Char), NEW p, NEW t, Within(t), NEW u, Within(u), NEW d \in Nat,
         u.from = t.from + d, u.to <= t.to, NEW m, IsWord(p, u, m)
  PROVE  /\ IsWord(p, t, Moved(m, d))
         /\ Moved(m, d).soffset = m.soffset + d /\ Moved(m, d).eoffset = m.eoffset + d
<1>1. /\ t.from \in Nat /\ t.to \in Nat /\ u.to \in Nat /\ u.from \in Nat /\ u.from <= u.to
      /\ Length(t) = t.to - t.from /\ Length(u) = u.to - u.from
  BY WithinTypes
<1>2. /\ m.soffset \in Nat /\ m.eoffset \in Nat /\ m.soffset <= m.eoffset /\ m.eoffset <= Length(u)
      /\ Excerpt(u.from + m.soffset, u.from + m.eoffset) \in p.words
  BY WordTypes DEF IsWord
<1>3. Moved(m, d) = [soffset |-> m.soffset + d, eoffset |-> m.eoffset + d]
  BY DEF Moved
<1>4. /\ m.soffset + d \in 0 .. Length(t) /\ m.eoffset + d \in 0 .. Length(t)
      /\ m.soffset + d <= m.eoffset + d
      /\ t.from + (m.soffset + d) = u.from + m.soffset /\ t.from + (m.eoffset + d) = u.from + m.eoffset
  <2> DEFINE tf == t.from
             tt == t.to
             uf == u.from
             ut == u.to
             so == m.soffset
             eo == m.eoffset
  <2>1. /\ tf \in Nat /\ tt \in Nat /\ uf \in Nat /\ ut \in Nat /\ so \in Nat /\ eo \in Nat
        /\ uf = tf + d /\ uf <= ut /\ ut <= tt /\ so <= eo
        /\ eo <= ut - uf
        /\ Length(t) = tt - tf /\ Length(u) = ut - uf
    BY <1>1, <1>2
  <2> HIDE DEF tf, tt, uf, ut, so, eo
  <2>2. /\ so + d \in 0 .. tt - tf /\ eo + d \in 0 .. tt - tf /\ so + d <= eo + d
        /\ tf + (so + d) = uf + so /\ tf + (eo + d) = uf + eo
    BY <2>1, MovedInside
  <2> QED
    BY <2>1, <2>2 DEF tf, tt, uf, ut, so, eo
<1> QED
  BY <1>2, <1>3, <1>4 DEF IsWord

(* And a word of the text that lies in a section is one of the section. *)
LEMMA WordOfSection ==
  ASSUME whole \in Seq(Char), NEW p, NEW t, Within(t), NEW u, Within(u), NEW d \in Nat,
         u.from = t.from + d, u.to <= t.to, NEW m, IsWord(p, t, m),
         d <= m.soffset, t.from + m.eoffset <= u.to
  PROVE  /\ IsWord(p, u, [soffset |-> m.soffset - d, eoffset |-> m.eoffset - d])
<1>1. /\ t.from \in Nat /\ t.to \in Nat /\ u.to \in Nat /\ u.from \in Nat /\ u.from <= u.to
      /\ Length(t) = t.to - t.from /\ Length(u) = u.to - u.from
  BY WithinTypes
<1>2. /\ m.soffset \in Nat /\ m.eoffset \in Nat /\ m.soffset <= m.eoffset
      /\ Excerpt(t.from + m.soffset, t.from + m.eoffset) \in p.words
  BY WordTypes DEF IsWord
<1>3. /\ m.soffset - d \in 0 .. Length(u) /\ m.eoffset - d \in 0 .. Length(u)
      /\ m.soffset - d <= m.eoffset - d
      /\ u.from + (m.soffset - d) = t.from + m.soffset /\ u.from + (m.eoffset - d) = t.from + m.eoffset
  <2> DEFINE tf == t.from
             tt == t.to
             uf == u.from
             ut == u.to
             so == m.soffset
             eo == m.eoffset
  <2>1. /\ tf \in Nat /\ tt \in Nat /\ uf \in Nat /\ ut \in Nat /\ so \in Nat /\ eo \in Nat
        /\ uf = tf + d /\ uf <= ut /\ ut <= tt /\ so <= eo
        /\ d <= so /\ tf + eo <= ut
        /\ Length(t) = tt - tf /\ Length(u) = ut - uf
    BY <1>1, <1>2
  <2> HIDE DEF tf, tt, uf, ut, so, eo
  <2>2. /\ so - d \in 0 .. ut - uf /\ eo - d \in 0 .. ut - uf /\ so - d <= eo - d
        /\ uf + (so - d) = tf + so /\ uf + (eo - d) = tf + eo
    BY <2>1, MovedInside
  <2> QED
    BY <2>1, <2>2 DEF tf, tt, uf, ut, so, eo
<1> QED
  BY <1>2, <1>3 DEF IsWord

LEMMA FirstCandidateExists ==
  ASSUME whole \in Seq(Char), pregs \in Seq(Preg), NEW t, Within(t), CandidatesIn(t) # {}
  PROVE  FirstCandidate(t) \in CandidatesIn(t)
<1>1. \A c \in CandidatesIn(t) : c.soffset \in Nat /\ c.id \in Nat
  BY WithinTypes DEF CandidatesIn
<1> DEFINE starts == {c.soffset : c \in CandidatesIn(t)}
<1>2. starts \in SUBSET Nat /\ starts # {}
  BY <1>1
<1>3. PICK so \in starts : \A x \in starts : so <= x
  BY <1>2, LeastNumber
<1> DEFINE ids == {n \in Nat : \E c \in CandidatesIn(t) : c.soffset = so /\ c.id = n}
<1>4. ids \in SUBSET Nat /\ ids # {}
  BY <1>1
<1> HIDE DEF ids
<1>5. PICK n \in ids : \A x \in ids : n <= x
  BY <1>4, LeastNumber
<1> USE DEF ids
<1>6. PICK c \in CandidatesIn(t) : c.soffset = so /\ c.id = n
  OBVIOUS
<1>7. ASSUME NEW d \in CandidatesIn(t)
      PROVE  c.soffset < d.soffset \/ (c.soffset = d.soffset /\ c.id <= d.id)
  <2>1. c.soffset \in Nat /\ d.soffset \in Nat /\ c.soffset <= d.soffset
    BY <1>1, <1>3, <1>6
  <2>2. CASE d.soffset = c.soffset
    <3>1. d.id \in ids
      BY <1>1, <1>6, <2>2
    <3> QED
      BY <1>5, <1>6, <2>2, <3>1
  <2> QED
    BY <2>1, <2>2
<1> QED
  BY <1>7 DEF FirstCandidate

LEMMA FirstExists ==
  ASSUME matches \in Seq([soffset : Int, eoffset : Int]), Matched # {},
         \A n \in Matched : matches[n].soffset \in Nat
  PROVE  First \in Matched
<1>1. Matched \subseteq Nat
  <2>1. DOMAIN matches = 1 .. Len(matches)
    OBVIOUS
  <2> QED
    BY <2>1 DEF Matched
<1> DEFINE starts == {matches[n].soffset : n \in Matched}
<1>2. starts \in SUBSET Nat /\ starts # {}
  OBVIOUS
<1>3. PICK so \in starts : \A x \in starts : so <= x
  BY <1>2, LeastNumber
<1> DEFINE ids == {n \in Matched : matches[n].soffset = so}
<1>4. ids \in SUBSET Nat /\ ids # {}
  BY <1>1
<1> HIDE DEF ids
<1>5. PICK n \in ids : \A x \in ids : n <= x
  BY <1>4, LeastNumber
<1> USE DEF ids
<1>6. ASSUME NEW k \in Matched
      PROVE  matches[n].soffset < matches[k].soffset \/ (matches[n].soffset = matches[k].soffset /\ n <= k)
  <2>1. matches[n].soffset = so /\ so \in Nat /\ matches[k].soffset \in Nat /\ so <= matches[k].soffset
    BY <1>3
  <2>2. matches[k].soffset = so => n <= k
    BY <1>5
  <2> QED
    BY <2>1, <2>2
<1>7. n \in Matched
  OBVIOUS
<1> QED
  BY <1>6, <1>7 DEF First
-----------------------------------------------------------------------------
(* What frec_match answers on the text it is given *)
LEMMA LiteralAnswer ==
  ASSUME whole \in Seq(Char), NEW p \in Preg, KeepsPromise(p, Newline), p.kind = "literal", NEW t, Within(t)
  PROVE  /\ PlacesOf(p.lit, t) = {} => MatchesIn(p, t) = {}
         /\ PlacesOf(p.lit, t) # {} =>
              LET m == Occurrence(p.lit, Least(PlacesOf(p.lit, t)))
              IN IsWord(p, t, m) /\ IsExact(p, t, "REG_OK", m)
<1>1. p.lit \in Seq(Char) /\ Len(p.lit) \in Nat /\ p.words = {p.lit} /\ ~ p.bol /\ ~ p.eol
  BY DEF Preg, KeepsPromise
<1>2. Length(t) \in Nat /\ t.from \in Nat /\ t.to \in Nat /\ Length(t) = t.to - t.from /\ t.to <= Len(whole)
      /\ Len(whole) \in Nat
  BY WithinTypes
<1>3. ASSUME NEW m \in MatchesIn(p, t)
      PROVE  m.soffset \in PlacesOf(p.lit, t) /\ m.soffset \in Nat /\ m.eoffset = m.soffset + Len(p.lit)
  <2>1. IsWord(p, t, m)
    BY MatchIsWord
  <2>2. /\ m.soffset \in Nat /\ m.eoffset \in Nat /\ m.soffset <= m.eoffset /\ m.eoffset <= Length(t)
        /\ t.from + m.soffset \in Nat /\ t.from + m.eoffset \in Nat
        /\ t.from + m.soffset <= t.from + m.eoffset /\ t.from + m.eoffset <= Len(whole)
    BY <2>1, WordTypes
  <2>3. Excerpt(t.from + m.soffset, t.from + m.eoffset) = p.lit
    BY <1>1, <2>1 DEF IsWord
  <2>4. Len(Excerpt(t.from + m.soffset, t.from + m.eoffset)) = (t.from + m.eoffset) - (t.from + m.soffset)
    BY <2>2, ExcerptShape
  <2>5. m.eoffset = m.soffset + Len(p.lit)
    <3> DEFINE so == m.soffset
               eo == m.eoffset
               tf == t.from
    <3>1. so \in Nat /\ eo \in Nat /\ tf \in Nat /\ Len(p.lit) = (tf + eo) - (tf + so)
      BY <1>2, <2>2, <2>3, <2>4
    <3> HIDE DEF so, eo, tf
    <3>2. eo = so + Len(p.lit)
      BY <1>1, <3>1
    <3> QED
      BY <3>2 DEF so, eo
  <2>6. t.from + m.eoffset = t.from + m.soffset + Len(p.lit)
    BY <1>1, <1>2, <2>2, <2>5, SMTT(30)
  <2> QED
    BY <1>1, <2>2, <2>3, <2>5, <2>6, PlacesAre
<1>4. ASSUME PlacesOf(p.lit, t) # {}
      PROVE  LET m == Occurrence(p.lit, Least(PlacesOf(p.lit, t)))
             IN IsWord(p, t, m) /\ IsExact(p, t, "REG_OK", m)
  <2> DEFINE s == Least(PlacesOf(p.lit, t))
             m == Occurrence(p.lit, s)
  <2>1. s \in PlacesOf(p.lit, t) /\ (\A q \in PlacesOf(p.lit, t) : s <= q) /\ s \in Nat
    BY <1>1, <1>4, PlacesAre, LeastIsLeast
  <2>2. s + Len(p.lit) <= Length(t) /\ Excerpt(t.from + s, t.from + s + Len(p.lit)) = p.lit
    BY <1>1, <2>1, PlacesAre
  <2> HIDE DEF s
  <2>3. m.soffset = s /\ m.eoffset = s + Len(p.lit)
        /\ m \in [soffset : 0 .. Length(t), eoffset : 0 .. Length(t)]
    BY <1>1, <1>2, <2>1, <2>2 DEF Occurrence
  <2>4. IsWord(p, t, m)
    <3>1. t.from + m.eoffset = t.from + s + Len(p.lit)
      BY <1>1, <1>2, <2>1, <2>3
    <3>2. m.soffset <= m.eoffset
      BY <1>1, <2>1, <2>3
    <3> QED
      BY <1>1, <2>2, <2>3, <3>1, <3>2 DEF IsWord
  <2>5. m \in MatchesIn(p, t)
    BY <1>1, <2>4, MatchIsWord
  <2>6. IsOriginal(m, p, t)
    <3> SUFFICES ASSUME NEW n \in MatchesIn(p, t)
                 PROVE  m.soffset < n.soffset \/ (m.soffset = n.soffset /\ m.eoffset >= n.eoffset)
      BY DEF IsOriginal
    <3>1. n.soffset \in PlacesOf(p.lit, t) /\ n.soffset \in Nat /\ n.eoffset = n.soffset + Len(p.lit)
      BY <1>3
    <3>2. s <= n.soffset
      BY <2>1, <3>1
    <3> QED
      BY <1>1, <2>1, <2>3, <3>1, <3>2
  <2>7. Original(p, t) = m
    BY <2>5, <2>6, OriginalOnly
  <2> QED
    BY <2>4, <2>5, <2>7 DEF IsExact, s
<1> QED
  BY <1>3, <1>4

(* A prefix: every match begins with the literal, and so at a candidate. *)
LEMMA PrefixStarts ==
  ASSUME whole \in Seq(Char), NEW p \in Preg, KeepsPromise(p, Newline), p.kind = "prefix", NEW t, Within(t),
         NEW m \in MatchesIn(p, t)
  PROVE  m.soffset \in PlacesOf(p.lit, t)
<1>1. p.lit \in Seq(Char) /\ Len(p.lit) \in Nat /\ \A w \in p.words : IsStart(p.lit, w)
  BY DEF Preg, KeepsPromise
<1>2. IsWord(p, t, m)
  BY MatchIsWord
<1>3. /\ m.soffset \in Nat /\ m.eoffset \in Nat /\ m.soffset <= m.eoffset /\ m.eoffset <= Length(t)
      /\ t.from + m.soffset \in Nat /\ t.from + m.eoffset \in Nat
      /\ t.from + m.soffset <= t.from + m.eoffset /\ t.from + m.eoffset <= Len(whole)
  BY <1>2, WordTypes
<1>4. IsStart(p.lit, Excerpt(t.from + m.soffset, t.from + m.eoffset))
  BY <1>1, <1>2 DEF IsWord
<1>5. /\ t.from + m.soffset + Len(p.lit) <= t.from + m.eoffset
      /\ Excerpt(t.from + m.soffset, t.from + m.soffset + Len(p.lit)) = p.lit
  BY <1>1, <1>3, <1>4, StartPlace
<1>6. m.soffset + Len(p.lit) <= Length(t)
  <2>1. t.from \in Nat /\ Length(t) \in Nat
    BY WithinTypes
  <2> QED
    BY <1>1, <1>3, <1>5, <2>1, SMTT(30)
<1> QED
  BY <1>1, <1>3, <1>5, <1>6, PlacesAre

LEMMA PrefixAnswer ==
  ASSUME whole \in Seq(Char), NEW p \in Preg, KeepsPromise(p, Newline), p.kind = "prefix", NEW t, Within(t)
  PROVE  /\ PlacesOf(p.lit, t) = {} => MatchesIn(p, t) = {}
         /\ PlacesOf(p.lit, t) # {} =>
              LET s == Least(PlacesOf(p.lit, t))
                  f == Between(t.from + s, t.to)
                  m == Moved(Original(p, f), f.from - t.from)
              IN IF MatchesIn(p, f) = {} THEN MatchesIn(p, t) = {}
                 ELSE IsWord(p, t, m) /\ IsExact(p, t, "REG_OK", m)
<1>1. p.lit \in Seq(Char) /\ Len(p.lit) \in Nat /\ ~ p.bol
  BY DEF Preg, KeepsPromise
<1>2. PlacesOf(p.lit, t) = {} => MatchesIn(p, t) = {}
  BY PrefixStarts
<1>3. ASSUME PlacesOf(p.lit, t) # {}
      PROVE  LET s == Least(PlacesOf(p.lit, t))
                 f == Between(t.from + s, t.to)
                 m == Moved(Original(p, f), f.from - t.from)
             IN IF MatchesIn(p, f) = {} THEN MatchesIn(p, t) = {}
                ELSE IsWord(p, t, m) /\ IsExact(p, t, "REG_OK", m)
  <2> DEFINE s == Least(PlacesOf(p.lit, t))
             f == Between(t.from + s, t.to)
             m == Moved(Original(p, f), f.from - t.from)
  <2>1. s \in PlacesOf(p.lit, t) /\ (\A q \in PlacesOf(p.lit, t) : s <= q) /\ s \in Nat
    BY <1>1, <1>3, PlacesAre, LeastIsLeast
  <2>2. s + Len(p.lit) <= Length(t)
    BY <1>1, <2>1, PlacesAre
  <2> HIDE DEF s
  <2>3. /\ Length(t) \in Nat /\ t.from \in Nat /\ t.to \in Nat /\ Length(t) = t.to - t.from /\ t.to <= Len(whole)
        /\ Len(whole) \in Nat
    BY WithinTypes
  <2>4. Within(f) /\ f.from = t.from + s /\ f.to = t.to /\ Length(f) = t.to - (t.from + s)
    <3>1. t.from + s \in Nat /\ t.from + s <= t.to
      BY <1>1, <2>1, <2>2, <2>3, SMTT(30)
    <3> QED
      BY <2>3, <3>1, BetweenIsWithin
  <2> HIDE DEF f
  <2>5. f.from - t.from = s /\ Length(f) = Length(t) - s
    BY <2>1, <2>3, <2>4
  <2>6. ASSUME NEW n \in MatchesIn(p, t)
        PROVE  /\ n.soffset \in Nat /\ n.eoffset \in Nat /\ s <= n.soffset
               /\ [soffset |-> n.soffset - s, eoffset |-> n.eoffset - s] \in MatchesIn(p, f)
    <3>1. IsWord(p, t, n) /\ (p.eol => n.eoffset = Length(t))
      BY MatchIsWord
    <3>2. n.soffset \in Nat /\ n.eoffset \in Nat /\ n.soffset <= n.eoffset /\ n.eoffset <= Length(t) /\ s <= n.soffset
      BY <2>1, <3>1, WordTypes, PrefixStarts
    <3>3. t.from + n.eoffset <= f.to
      BY <2>3, <2>4, <3>2
    <3>4. f.to <= t.to
      BY <2>3, <2>4
    <3>5. IsWord(p, f, [soffset |-> n.soffset - s, eoffset |-> n.eoffset - s])
      BY <2>1, <2>4, <3>1, <3>2, <3>3, <3>4, WordOfSection
    <3>6. p.eol => n.eoffset - s = Length(f)
      BY <2>5, <3>1
    <3> QED
      BY <1>1, <3>2, <3>5, <3>6, MatchIsWord
  <2>7. ASSUME MatchesIn(p, f) # {}
        PROVE  IsWord(p, t, m) /\ IsExact(p, t, "REG_OK", m)
    <3> DEFINE o == Original(p, f)
    <3>1. o \in MatchesIn(p, f) /\ IsOriginal(o, p, f)
      BY <2>4, <2>7, OriginalExists
    <3> HIDE DEF o
    <3>2. IsWord(p, f, o) /\ (p.eol => o.eoffset = Length(f))
      BY <3>1, MatchIsWord
    <3>3. o.soffset \in Nat /\ o.eoffset \in Nat
      BY <2>4, <3>2, WordTypes
    <3>4. m = Moved(o, s)
      BY <2>5 DEF o
    <3>5. f.to <= t.to
      BY <2>3, <2>4
    <3>6. IsWord(p, t, m) /\ m.soffset = o.soffset + s /\ m.eoffset = o.eoffset + s
      BY <2>1, <2>4, <3>2, <3>4, <3>5, WordInSection
    <3>7. m \in MatchesIn(p, t)
      <4>1. p.eol => m.eoffset = Length(t)
        BY <2>1, <2>3, <2>5, <3>2, <3>3, <3>6
      <4> QED
        BY <1>1, <3>6, <4>1, MatchIsWord
    <3>8. IsOriginal(m, p, t)
      <4> SUFFICES ASSUME NEW n \in MatchesIn(p, t)
                   PROVE  m.soffset < n.soffset \/ (m.soffset = n.soffset /\ m.eoffset >= n.eoffset)
        BY DEF IsOriginal
      <4> DEFINE k == [soffset |-> n.soffset - s, eoffset |-> n.eoffset - s]
      <4>1. n.soffset \in Nat /\ n.eoffset \in Nat /\ s <= n.soffset /\ k \in MatchesIn(p, f)
        BY <2>6
      <4>2. k.soffset = n.soffset - s /\ k.eoffset = n.eoffset - s
        OBVIOUS
      <4> HIDE DEF k
      <4>3. o.soffset < k.soffset \/ (o.soffset = k.soffset /\ o.eoffset >= k.eoffset)
        BY <3>1, <4>1 DEF IsOriginal
      <4> QED
        BY <2>1, <3>3, <3>6, <4>1, <4>2, <4>3
    <3>9. Original(p, t) = m
      BY <3>7, <3>8, OriginalOnly
    <3> QED
      BY <3>6, <3>7, <3>9 DEF IsExact
  <2>8. MatchesIn(p, f) = {} => MatchesIn(p, t) = {}
    BY <2>6
  <2> QED
    BY <2>7, <2>8 DEF s, f
<1> QED
  BY <1>2, <1>3
-----------------------------------------------------------------------------
(* Sections, as match_heuristic forms them *)
LEMMA SectionIs ==
  ASSUME whole \in Seq(Char), preg \in Preg, KeepsPromise(preg, Newline), preg.kind = "longest",
         Within(sub), HasCandidate
  PROVE  /\ SecStart \in Nat /\ SecEnd \in Nat /\ SecStart < SecEnd /\ SecEnd <= Length(sub)
         /\ Within(Section) /\ Section.from = sub.from + SecStart /\ Section.to = sub.from + SecEnd
         /\ Section.to <= sub.to /\ Length(Section) = SecEnd - SecStart
<1> DEFINE s == Least(PlacesOf(preg.lit, sub))
<1>1. preg.lit \in Seq(Char)
  BY DEF Preg
<1>2. s \in PlacesOf(preg.lit, sub)
  BY <1>1, PlacesAre, LeastIsLeast DEF HasCandidate
<1> HIDE DEF s
<1>3. /\ SectionStart(preg, sub, s) \in 0 .. s /\ s \in Nat
      /\ SectionEnd(preg, sub, s) \in s + Len(preg.lit) .. Length(sub)
      /\ Len(preg.lit) \in Nat /\ Len(preg.lit) > 0
  BY <1>2, SectionBounds
<1>4. SecStart = SectionStart(preg, sub, s) /\ SecEnd = SectionEnd(preg, sub, s)
  BY DEF SecStart, SecEnd, s
<1>5. /\ sub.from \in Nat /\ sub.to \in Nat /\ Length(sub) \in Nat /\ Length(sub) = sub.to - sub.from
      /\ sub.to <= Len(whole) /\ Len(whole) \in Nat
  BY WithinTypes
<1>6. SecStart \in Nat /\ SecEnd \in Nat /\ SecStart < SecEnd /\ SecEnd <= Length(sub)
  BY <1>3, <1>4, <1>5
<1> DEFINE sf == sub.from
           st == sub.to
           f == sf + SecStart
           e == sf + SecEnd
<1>7. sf \in Nat /\ st \in Nat /\ SecEnd <= st - sf /\ st <= Len(whole) /\ Len(whole) \in Nat
  BY <1>5, <1>6
<1> HIDE DEF sf, st
<1>9. f \in Nat /\ e \in Nat /\ f <= e /\ e <= Len(whole) /\ e - f = SecEnd - SecStart /\ e <= st
  BY <1>6, <1>7
<1>10. Section = Between(f, e)
  BY DEF Section, sf
<1> HIDE DEF f, e
<1>11. Within(Section) /\ Section.from = f /\ Section.to = e /\ Length(Section) = e - f
  BY <1>9, <1>10, BetweenIsWithin
<1> QED
  BY <1>6, <1>9, <1>11 DEF f, e, sf, st

(* A word of a pattern whose sections are lines is inside a line. *)
LEMMA LineWord ==
  ASSUME whole \in Seq(Char), NEW p \in Preg, KeepsPromise(p, Newline), p.kind = "longest", p.max = -1,
         NEW a \in Nat, NEW e \in Nat, a <= e, e <= Len(whole), Excerpt(a, e) \in p.words
  PROVE  /\ Len(p.lit) \in Nat /\ Len(p.lit) > 0
         /\ \E q \in a .. e - Len(p.lit) : Excerpt(q, q + Len(p.lit)) = p.lit
         /\ \A x \in Nat : a <= x /\ x < e => CharAt(x) # Newline
<1>1. /\ p.lit \in Seq(Char) /\ p.lit # <<>> /\ IsInfix(p.lit, Excerpt(a, e))
      /\ \A n \in DOMAIN Excerpt(a, e) : Excerpt(a, e)[n] # Newline
  BY DEF Preg, KeepsPromise
<1>2. Len(p.lit) \in Nat /\ Len(p.lit) > 0
  BY <1>1
<1>3. \E q \in a .. e - Len(p.lit) : Excerpt(q, q + Len(p.lit)) = p.lit
  BY <1>1, InfixPlace, ZenonT(30)
<1>4. \A x \in Nat : a <= x /\ x < e => CharAt(x) # Newline
  BY <1>1, BreakInside
<1> QED
  BY <1>2, <1>3, <1>4

(* Such a word, if it is in the text that is left, is not before the section, *)
(* and if it is not in the section it is behind it.                         *)
LEMMA LineSection ==
  ASSUME whole \in Seq(Char), preg \in Preg, KeepsPromise(preg, Newline), preg.kind = "longest", preg.max = -1,
         Within(sub), NEW a \in Nat, NEW e \in Nat, a <= e, Excerpt(a, e) \in preg.words,
         sub.from <= a, e <= sub.to
  PROVE  /\ HasCandidate
         /\ sub.from + SecStart <= a
         /\ sub.from + SecEnd < a \/ e <= sub.from + SecEnd
         /\ a < e
<1>1. /\ sub.from \in Nat /\ sub.to \in Nat /\ Length(sub) \in Nat /\ Length(sub) = sub.to - sub.from
      /\ sub.to <= Len(whole) /\ Len(whole) \in Nat
  BY WithinTypes
<1>2. e <= Len(whole)
  BY <1>1
<1>3. /\ Len(preg.lit) \in Nat /\ Len(preg.lit) > 0
      /\ \E q \in a .. e - Len(preg.lit) : Excerpt(q, q + Len(preg.lit)) = preg.lit
      /\ \A x \in Nat : a <= x /\ x < e => CharAt(x) # Newline
  BY <1>2, LineWord
<1>4. PICK q \in a .. e - Len(preg.lit) : Excerpt(q, q + Len(preg.lit)) = preg.lit
  BY <1>3
<1>5. preg.lit \in Seq(Char)
  BY DEF Preg
<1> DEFINE r == q - sub.from
           lit == PlacesOf(preg.lit, sub)
           s == Least(lit)
<1>6. q \in Nat /\ a <= q /\ q + Len(preg.lit) <= e
  BY <1>3, <1>4
<1>7. r \in Nat /\ r + Len(preg.lit) <= Length(sub) /\ sub.from + r = q
  <2> DEFINE sf == sub.from
             st == sub.to
             l == Len(preg.lit)
  <2>1. sf \in Nat /\ st \in Nat /\ l \in Nat /\ Length(sub) = st - sf /\ sf <= a /\ e <= st
        /\ q + l <= e /\ r = q - sf
    BY <1>1, <1>3, <1>6
  <2> HIDE DEF sf, st, l, r
  <2>2. r \in Nat /\ r + l <= Length(sub) /\ sf + r = q
    BY <1>6, <2>1
  <2> QED
    BY <2>2 DEF sf, l
<1> HIDE DEF r
<1>8. r \in lit
  BY <1>4, <1>5, <1>7, PlacesAre
<1>9. lit \in SUBSET Nat
  BY <1>5, PlacesAre
<1>10. s \in lit /\ s <= r /\ HasCandidate
  BY <1>8, <1>9, LeastIsLeast DEF HasCandidate
<1>11. SecStart = SectionStart(preg, sub, s) /\ SecEnd = SectionEnd(preg, sub, s)
  BY DEF SecStart, SecEnd
<1> HIDE DEF s, lit
<1>12. /\ SecStart \in 0 .. s /\ s \in Nat
       /\ SecEnd \in s + Len(preg.lit) .. Length(sub)
       /\ SecStart = 0 \/ CharAt(sub.from + SecStart) = Newline
       /\ SecEnd = Length(sub) \/ CharAt(sub.from + SecEnd) = Newline
  BY <1>10, <1>11, SectionBounds DEF lit
<1> DEFINE from == sub.from + SecStart
           to == sub.from + SecEnd
<1>13. from \in Nat /\ to \in Nat /\ from <= q
  <2>1. SecStart \in Nat /\ SecEnd \in Nat /\ SecStart <= r
    BY <1>1, <1>3, <1>7, <1>10, <1>12
  <2> DEFINE sf == sub.from
  <2>2. sf \in Nat /\ sf + r = q
    BY <1>1, <1>7
  <2> HIDE DEF sf
  <2>3. sf + SecStart \in Nat /\ sf + SecEnd \in Nat /\ sf + SecStart <= q
    BY <1>7, <2>1, <2>2
  <2> QED
    BY <2>3 DEF sf
<1>14. SecStart = 0 => from = sub.from
  BY <1>1
<1>15. SecEnd = Length(sub) => to = sub.to
  BY <1>1
<1> HIDE DEF from, to
<1>16. from <= a
  <2>1. CASE SecStart = 0
    BY <1>14, <2>1
  <2>2. CASE CharAt(sub.from + SecStart) = Newline
    <3>1. ~ (a <= from /\ from < e)
      BY <1>3, <1>13, <2>2 DEF from
    <3>2. from < e
      BY <1>3, <1>6, <1>13
    <3> QED
      BY <1>13, <3>1, <3>2
  <2> QED
    BY <1>12, <2>1, <2>2
<1>17. to < a \/ e <= to
  <2>1. CASE SecEnd = Length(sub)
    BY <1>15, <2>1
  <2>2. CASE CharAt(sub.from + SecEnd) = Newline
    <3>1. ~ (a <= to /\ to < e)
      BY <1>3, <1>13, <2>2 DEF to
    <3> QED
      BY <1>13, <3>1
  <2> QED
    BY <1>12, <2>1, <2>2
<1>18. a < e
  BY <1>3, <1>6
<1> QED
  BY <1>10, <1>16, <1>17, <1>18 DEF from, to

LineStart(b, t) == t.from = b.from \/ t.from = t.to \/ CharAt(t.from) = Newline

(* The loop of match_heuristic: nothing that was passed matches. *)
Progress(b) ==
  /\ hglob \in Nat /\ sub.from = b.from + hglob /\ sub.to = b.to
  /\ Exact(preg) => LineStart(b, sub) /\ \A m \in MatchesIn(preg, b) : m.soffset >= hglob

LEMMA MatchInRest ==
  ASSUME whole \in Seq(Char), preg \in Preg, KeepsPromise(preg, Newline), preg.kind = "longest", Exact(preg),
         Within(sub), NEW b, Within(b), Progress(b), NEW m \in MatchesIn(preg, b)
  PROVE  /\ HasCandidate /\ m.soffset \in Nat /\ m.eoffset \in Nat /\ m.soffset < m.eoffset
         /\ hglob + SecStart <= m.soffset
         /\ hglob + SecEnd < m.soffset \/ m.eoffset <= hglob + SecEnd
         /\ IsWord(preg, b, m) /\ m.eoffset <= Length(b)
<1>1. IsWord(preg, b, m) /\ m.soffset >= hglob /\ preg.max = -1
  BY MatchIsWord DEF Progress, Exact
<1>2. /\ m.soffset \in Nat /\ m.eoffset \in Nat /\ m.soffset <= m.eoffset /\ m.eoffset <= Length(b)
      /\ b.from + m.soffset \in Nat /\ b.from + m.eoffset \in Nat
      /\ b.from + m.soffset <= b.from + m.eoffset
      /\ Excerpt(b.from + m.soffset, b.from + m.eoffset) \in preg.words
  BY <1>1, WordTypes DEF IsWord
<1>3. b.from \in Nat /\ b.to \in Nat /\ Length(b) = b.to - b.from /\ hglob \in Nat
      /\ sub.from = b.from + hglob /\ sub.to = b.to
  BY WithinTypes DEF Progress
<1>4. sub.from <= b.from + m.soffset /\ b.from + m.eoffset <= sub.to
  BY <1>1, <1>2, <1>3, SMTT(30)
<1>5. /\ HasCandidate /\ sub.from + SecStart <= b.from + m.soffset
      /\ sub.from + SecEnd < b.from + m.soffset \/ b.from + m.eoffset <= sub.from + SecEnd
      /\ b.from + m.soffset < b.from + m.eoffset
  BY <1>1, <1>2, <1>4, LineSection
<1>6. SecStart \in Nat /\ SecEnd \in Nat
  BY <1>5, SectionIs
<1> DEFINE so == m.soffset
           eo == m.eoffset
           bf == b.from
<1>7. so \in Nat /\ eo \in Nat /\ bf \in Nat /\ bf + hglob + SecStart <= bf + so /\ bf + so < bf + eo
      /\ (bf + hglob + SecEnd < bf + so \/ bf + eo <= bf + hglob + SecEnd)
  BY <1>2, <1>3, <1>5
<1> HIDE DEF so, eo, bf
<1>8. hglob + SecStart <= so /\ so < eo /\ (hglob + SecEnd < so \/ eo <= hglob + SecEnd)
  BY <1>3, <1>6, <1>7
<1> QED
  BY <1>1, <1>2, <1>5, <1>8 DEF so, eo

LEMMA MatchInSection ==
  ASSUME whole \in Seq(Char), preg \in Preg, KeepsPromise(preg, Newline), preg.kind = "longest", Exact(preg),
         Within(sub), NEW b, Within(b), Progress(b), NEW m \in MatchesIn(preg, b),
         m.eoffset <= hglob + SecEnd
  PROVE  [soffset |-> m.soffset - (hglob + SecStart), eoffset |-> m.eoffset - (hglob + SecStart)]
           \in MatchesIn(preg, Section)
<1>1. /\ HasCandidate /\ m.soffset \in Nat /\ m.eoffset \in Nat
      /\ hglob + SecStart <= m.soffset /\ IsWord(preg, b, m)
  BY MatchInRest
<1>2. /\ SecStart \in Nat /\ SecEnd \in Nat
      /\ Within(Section) /\ Section.from = sub.from + SecStart /\ Section.to = sub.from + SecEnd
      /\ Section.to <= sub.to
  BY <1>1, SectionIs
<1>3. b.from \in Nat /\ hglob \in Nat /\ sub.from = b.from + hglob /\ sub.to = b.to
  BY WithinTypes DEF Progress
<1> DEFINE d == hglob + SecStart
<1>4. d \in Nat /\ d <= m.soffset /\ Section.from = b.from + d /\ Section.to <= b.to
  BY <1>1, <1>2, <1>3
<1>5. b.from + m.eoffset <= Section.to
  BY <1>1, <1>2, <1>3
<1> HIDE DEF d
<1>6. IsWord(preg, Section, [soffset |-> m.soffset - d, eoffset |-> m.eoffset - d])
  BY <1>1, <1>2, <1>4, <1>5, WordOfSection
<1>7. ~ preg.eol /\ (preg.bol => m.soffset = 0)
  BY MatchIsWord DEF Exact
<1>8. preg.bol => m.soffset - d = 0
  BY <1>1, <1>4, <1>7
<1>9. [soffset |-> m.soffset - d, eoffset |-> m.eoffset - d] \in MatchesIn(preg, Section)
  BY <1>6, <1>7, <1>8, MatchIsWord
<1> QED
  BY <1>9 DEF d

LEMMA SectionMatch ==
  ASSUME whole \in Seq(Char), preg \in Preg, KeepsPromise(preg, Newline), preg.kind = "longest", Exact(preg),
         Within(sub), NEW b, Within(b), Progress(b), HasCandidate, NEW m \in MatchesIn(preg, Section)
  PROVE  Moved(m, hglob + SecStart) \in MatchesIn(preg, b)
<1>1. /\ SecStart \in Nat /\ SecEnd \in Nat /\ SecStart < SecEnd /\ SecEnd <= Length(sub)
      /\ Within(Section) /\ Section.from = sub.from + SecStart /\ Section.to = sub.from + SecEnd
      /\ Section.to <= sub.to
  BY SectionIs
<1>2. b.from \in Nat /\ hglob \in Nat /\ sub.from = b.from + hglob /\ sub.to = b.to /\ LineStart(b, sub)
  BY WithinTypes DEF Progress
<1> DEFINE d == hglob + SecStart
<1>3. d \in Nat /\ Section.from = b.from + d /\ Section.to <= b.to
  BY <1>1, <1>2
<1> HIDE DEF d
<1>4. IsWord(preg, Section, m) /\ (preg.bol => m.soffset = 0) /\ ~ preg.eol /\ preg.max = -1
  BY MatchIsWord DEF Exact
<1>5. IsWord(preg, b, Moved(m, d)) /\ Moved(m, d).soffset = m.soffset + d
  BY <1>1, <1>3, <1>4, WordInSection
<1>6. preg.bol => d = 0
  <2> SUFFICES ASSUME preg.bol, d # 0 PROVE FALSE
    OBVIOUS
  <2>1. CharAt(Section.from) = Newline
    <3>1. CASE SecStart # 0
      <4> DEFINE s == Least(PlacesOf(preg.lit, sub))
      <4>1. preg.lit \in Seq(Char)
        BY DEF Preg
      <4>2. s \in PlacesOf(preg.lit, sub)
        BY <4>1, PlacesAre, LeastIsLeast DEF HasCandidate
      <4>3. SecStart = SectionStart(preg, sub, s)
        BY DEF SecStart
      <4> HIDE DEF s
      <4>4. SecStart = 0 \/ CharAt(sub.from + SecStart) = Newline
        BY <1>4, <4>2, <4>3, SectionBounds
      <4> QED
        BY <1>1, <3>1, <4>4
    <3>2. CASE SecStart = 0
      <4>1. hglob # 0
        BY <1>2, <3>2 DEF d
      <4>2. sub.from # b.from /\ Section.from = sub.from
        BY <1>1, <1>2, <3>2, <4>1
      <4>3. sub.from # sub.to
        BY <1>1, <3>2, WithinTypes
      <4> QED
        BY <1>2, <4>2, <4>3 DEF LineStart
    <3> QED
      BY <3>1, <3>2
  <2>2. /\ m.soffset = 0 /\ m.eoffset \in Nat
        /\ Section.from + m.soffset \in Nat /\ Section.from + m.eoffset \in Nat
        /\ Section.from + m.soffset <= Section.from + m.eoffset /\ Section.from + m.eoffset <= Len(whole)
        /\ Excerpt(Section.from + m.soffset, Section.from + m.eoffset) \in preg.words
    BY <1>1, <1>4, WordTypes DEF IsWord
  <2> DEFINE a == Section.from + m.soffset
             e == Section.from + m.eoffset
  <2>3. a \in Nat /\ e \in Nat /\ a <= e /\ e <= Len(whole) /\ Excerpt(a, e) \in preg.words
    BY <2>2
  <2>4. a = Section.from
    BY <2>2, <1>1, WithinTypes
  <2> HIDE DEF a, e
  <2>5. /\ Len(preg.lit) \in Nat /\ Len(preg.lit) > 0
        /\ \E q \in a .. e - Len(preg.lit) : Excerpt(q, q + Len(preg.lit)) = preg.lit
        /\ \A x \in Nat : a <= x /\ x < e => CharAt(x) # Newline
    BY <1>4, <2>3, LineWord
  <2>6. a < e
    BY <2>3, <2>5
  <2> QED
    BY <2>1, <2>3, <2>4, <2>5, <2>6
<1>7. preg.bol => Moved(m, d).soffset = 0
  BY <1>4, <1>5, <1>6
<1>8. Moved(m, d) \in MatchesIn(preg, b)
  BY <1>4, <1>5, <1>7, MatchIsWord
<1> QED
  BY <1>8 DEF d

LEMMA SectionAnswers ==
  ASSUME whole \in Seq(Char), preg \in Preg, KeepsPromise(preg, Newline), preg.kind = "longest", Exact(preg),
         Within(sub), NEW b, Within(b), Progress(b)
  PROVE  /\ Length(sub) = 0 => MatchesIn(preg, b) = {}
         /\ ~ HasCandidate => MatchesIn(preg, b) = {}
         /\ HasCandidate /\ MatchesIn(preg, Section) = {} =>
              \A m \in MatchesIn(preg, b) : m.soffset >= hglob + SecEnd
         /\ HasCandidate /\ MatchesIn(preg, Section) # {} =>
              IsExact(preg, b, "REG_OK", Moved(Original(preg, Section), hglob + SecStart))
<1>1. hglob \in Nat /\ \A m \in MatchesIn(preg, b) : m.soffset >= hglob
  BY DEF Progress
<1>2. Length(sub) = 0 => MatchesIn(preg, b) = {}
  <2> SUFFICES ASSUME Length(sub) = 0, NEW m \in MatchesIn(preg, b) PROVE FALSE
    OBVIOUS
  <2>1. m.soffset \in Nat /\ m.eoffset \in Nat /\ m.soffset < m.eoffset /\ m.eoffset <= Length(b)
        /\ m.soffset >= hglob
    BY <1>1, MatchInRest
  <2>2. Length(b) = hglob
    <3>1. /\ sub.from \in Nat /\ sub.to \in Nat /\ Length(sub) = sub.to - sub.from
          /\ b.from \in Nat /\ b.to \in Nat /\ Length(b) = b.to - b.from
      BY WithinTypes
    <3>2. sub.from = b.from + hglob /\ sub.to = b.to
      BY DEF Progress
    <3> QED
      BY <1>1, <3>1, <3>2
  <2> QED
    BY <1>1, <2>1, <2>2
<1>3. ~ HasCandidate => MatchesIn(preg, b) = {}
  BY MatchInRest
<1>4. ASSUME HasCandidate, MatchesIn(preg, Section) = {}, NEW m \in MatchesIn(preg, b)
      PROVE  m.soffset >= hglob + SecEnd
  <2>1. SecEnd \in Nat
    BY <1>4, SectionIs
  <2>2. m.soffset \in Nat /\ (hglob + SecEnd < m.soffset \/ m.eoffset <= hglob + SecEnd)
    BY MatchInRest
  <2>3. ~ (m.eoffset <= hglob + SecEnd)
    BY <1>4, MatchInSection
  <2> QED
    BY <1>1, <2>1, <2>2, <2>3
<1>5. ASSUME HasCandidate, MatchesIn(preg, Section) # {}
      PROVE  IsExact(preg, b, "REG_OK", Moved(Original(preg, Section), hglob + SecStart))
  <2> DEFINE o == Original(preg, Section)
             d == hglob + SecStart
             x == Moved(o, d)
  <2>1. /\ SecStart \in Nat /\ SecEnd \in Nat /\ SecStart < SecEnd
        /\ Within(Section) /\ Length(Section) = SecEnd - SecStart
    BY <1>5, SectionIs
  <2>2. o \in MatchesIn(preg, Section) /\ IsOriginal(o, preg, Section)
    BY <1>5, <2>1, OriginalExists
  <2> HIDE DEF o
  <2>3. o.soffset \in Nat /\ o.eoffset \in Nat /\ o.soffset <= o.eoffset /\ o.eoffset <= SecEnd - SecStart
    <3>1. IsWord(preg, Section, o)
      BY <2>2, MatchIsWord
    <3> QED
      BY <2>1, <3>1, WordTypes
  <2>4. x \in MatchesIn(preg, b)
    BY <1>5, <2>2, SectionMatch
  <2>5. x.soffset = o.soffset + d /\ x.eoffset = o.eoffset + d /\ d \in Nat
    BY <1>1, <2>1 DEF Moved
  <2>6. d = hglob + SecStart
    OBVIOUS
  <2> HIDE DEF x, d
  <2>7. IsOriginal(x, preg, b)
    <3> SUFFICES ASSUME NEW n \in MatchesIn(preg, b)
                 PROVE  x.soffset < n.soffset \/ (x.soffset = n.soffset /\ x.eoffset >= n.eoffset)
      BY DEF IsOriginal
    <3>1. /\ n.soffset \in Nat /\ n.eoffset \in Nat
          /\ hglob + SecEnd < n.soffset \/ n.eoffset <= hglob + SecEnd
      BY MatchInRest
    <3>2. CASE hglob + SecEnd < n.soffset
      BY <1>1, <2>1, <2>3, <2>5, <2>6, <3>1, <3>2
    <3>3. CASE n.eoffset <= hglob + SecEnd
      <4> DEFINE k == [soffset |-> n.soffset - d, eoffset |-> n.eoffset - d]
      <4>1. k \in MatchesIn(preg, Section)
        BY <2>6, <3>3, MatchInSection
      <4>2. k.soffset = n.soffset - d /\ k.eoffset = n.eoffset - d
        OBVIOUS
      <4> HIDE DEF k
      <4>3. o.soffset < k.soffset \/ (o.soffset = k.soffset /\ o.eoffset >= k.eoffset)
        BY <2>2, <4>1 DEF IsOriginal
      <4> QED
        BY <2>3, <2>5, <3>1, <4>2, <4>3
    <3> QED
      BY <3>1, <3>2, <3>3
  <2>8. Original(preg, b) = x
    BY <2>4, <2>7, OriginalOnly
  <2>9. IsExact(preg, b, "REG_OK", x)
    BY <2>4, <2>8 DEF IsExact
  <2> QED
    BY <2>9 DEF x, d, o
<1> QED
  BY <1>2, <1>3, <1>4, <1>5
-----------------------------------------------------------------------------
(* The invariant *)
InCall == pc \in {"frec_match", "section", "returned"}
Started == pc # "execute_match" /\ ~ EmptyRange

CallerInv ==
  /\ pregs \in PregLists /\ nosub \in BOOLEAN /\ whole \in Texts
  /\ range \in {Between(0, Len(whole)), Between(1, Len(whole)), Between(0, Len(whole) - 1)}
  /\ pc = "execute_match" => text = range /\ sub = range /\ glob = 0 /\ i = 1 /\ matches = <<>> /\ ret = "unset"
  /\ EmptyRange => pc \in {"execute_match", "done"}
  /\ EmptyRange /\ pc = "done" => ret = "REG_NOMATCH"

(* frec_mmatch: the text that is left is the end of the range; only the loop  *)
(* over sections takes something from it, and gives up nothing unanswered.    *)
TextInv ==
  Started =>
    /\ Within(text) /\ text.to = range.to /\ text.from = range.from + glob
    /\ MHeur # "MHEUR_LONGEST" => text = range
    /\ pc = "MHEUR_LITERAL" => MHeur = "MHEUR_LITERAL"
    /\ pc = "MHEUR_LONGEST" => MHeur = "MHEUR_LONGEST" /\ (Length(text) = 0 => ret = "REG_NOMATCH")
    /\ pc = "MHEUR_NONE" => MHeur = "MHEUR_NONE"
    /\ InCall => MHeur # "MHEUR_LITERAL"
    /\ InCall /\ MHeur = "MHEUR_LONGEST" => start <= end /\ end <= Length(text)
    /\ InCall /\ MHeur = "MHEUR_SINGLE" => curr = 1

(* The text that frec_match was called with. *)
Base ==
  IF MHeur = "MHEUR_LONGEST" THEN Between(text.from + start, text.from + end)
  ELSE IF MHeur = "MHEUR_NONE" /\ i > Len(pregs)
  THEN Between(text.from + matches[First].soffset, text.from + matches[First].eoffset)
  ELSE text

CallInv ==
  InCall =>
    /\ Within(Base) /\ Within(sub)
    /\ preg.kind = "longest" => Length(Base) > 0
    /\ pc = "frec_match" => sub = Base /\ hglob = 0
    /\ pc = "section" => /\ preg.kind = "longest" /\ Progress(Base)
                         /\ Length(sub) = 0 => ret = "REG_NOMATCH"
    /\ pc = "returned" => /\ ret \in {"REG_OK", "REG_NOMATCH"}
                          /\ ret = "REG_OK" => IsWord(preg, Base, pmatch)
                          /\ Exact(preg) => IsExact(preg, Base, ret, pmatch)

(* MHEUR_NONE: what the patterns before the present one gave. *)
NoneInv ==
  (InCall \/ pc = "MHEUR_NONE") /\ MHeur = "MHEUR_NONE" =>
    /\ matches \in Seq([soffset : Int, eoffset : Int])
    /\ IF nosub THEN matches = <<>> ELSE Len(matches) = i - 1
    /\ \A n \in Matched : IsWord(pregs[n], text, matches[n])
    /\ InCall /\ i <= Len(pregs) => curr = i
    /\ InCall /\ i > Len(pregs) => ~ nosub /\ Matched # {} /\ curr = First
    /\ nosub => \A n \in 1 .. i - 1 : Exact(pregs[n]) => MatchesIn(pregs[n], range) = {}

AnyMatches == \E n \in DOMAIN pregs : MatchesIn(pregs[n], range) # {}

(* The answer, before its offsets are counted from the start of the whole text. *)
AnswerInv ==
  pc = "rebase" =>
    /\ ret \in {"REG_OK", "REG_NOMATCH"}
    /\ ret = "REG_OK" => /\ pmatch \in [soffset : 0 .. Length(range), eoffset : 0 .. Length(range)]
                         /\ MHeur # "MHEUR_NONE" => \E n \in DOMAIN pregs : IsWord(pregs[n], range, pmatch)
    /\ MHeur = "MHEUR_SINGLE" /\ Exact(pregs[1]) => IsExact(pregs[1], range, ret, pmatch)
    /\ MHeur = "MHEUR_NONE" /\ nosub /\ (\A n \in DOMAIN pregs : Exact(pregs[n])) =>
         (ret = "REG_OK" <=> AnyMatches)

DoneInv == pc = "done" => ret # "unset" /\ OffsetsNameAMatch /\ AnswersAsOriginal /\ NoSubIsExact

IInv == TypeOK /\ CallerInv /\ TextInv /\ CallInv /\ NoneInv /\ AnswerInv /\ DoneInv

LEMMA PregFacts ==
  ASSUME CallerInv
  PROVE  /\ whole \in Seq(Char) /\ Len(whole) \in Nat
         /\ pregs \in Seq(Preg) /\ Len(pregs) \in Nat /\ Len(pregs) >= 1 /\ DOMAIN pregs = 1 .. Len(pregs)
         /\ \A n \in DOMAIN pregs : pregs[n] \in Preg /\ KeepsPromise(pregs[n], Newline)
<1>1. pregs \in Seq(Preg) /\ pregs # <<>> /\ \A n \in DOMAIN pregs : KeepsPromise(pregs[n], Newline)
  BY PregsAssumption DEF CallerInv
<1>2. whole \in Seq(Char)
  BY TextsAssumption DEF CallerInv
<1> QED
  BY <1>1, <1>2

LEMMA RangeIs ==
  ASSUME CallerInv, ~ EmptyRange
  PROVE  /\ Within(range) /\ range.from \in Nat /\ range.to \in Nat /\ range.to <= Len(whole)
         /\ Length(range) \in Nat /\ Length(range) > 0 /\ Length(range) = range.to - range.from
<1>1. Len(whole) \in Nat
  BY PregFacts
<1>2. PICK f \in {0, 1} : \E e \in {Len(whole), Len(whole) - 1} : range = Between(f, e)
  BY DEF CallerInv
<1>3. PICK e \in {Len(whole), Len(whole) - 1} : range = Between(f, e)
  BY <1>2
<1>4. range.from = f /\ range.to = e /\ f < e /\ f \in Nat /\ e \in Nat /\ e <= Len(whole)
  BY <1>1, <1>3 DEF Between, EmptyRange
<1> QED
  BY <1>1, <1>3, <1>4 DEF Within, Interval, Length, Between

LEMMA InCallIsStarted ==
  ASSUME CallerInv, pc \notin {"execute_match", "done"}
  PROVE  Started /\ ~ EmptyRange
BY DEF CallerInv, Started

LEMMA PregIs ==
  ASSUME CallerInv, TypeOK
  PROVE  curr \in DOMAIN pregs /\ preg \in Preg /\ KeepsPromise(preg, Newline)
BY PregFacts DEF TypeOK, preg

(* Operators that only look at the text, or at what frec_mmatch was called    *)
(* with, and that no step inside of frec_match changes.                     *)
LEMMA SameText ==
  ASSUME UNCHANGED whole
  PROVE  /\ \A t : Within(t)' <=> Within(t)
         /\ \A p, t, m : IsWord(p, t, m)' <=> IsWord(p, t, m)
         /\ \A p, t : MatchesIn(p, t)' = MatchesIn(p, t)
         /\ \A p, t : Original(p, t)' = Original(p, t)
         /\ \A p, t, r, m : IsExact(p, t, r, m)' <=> IsExact(p, t, r, m)
         /\ \A b, t : LineStart(b, t)' <=> LineStart(b, t)
<1>1. \A f, e : Excerpt(f, e)' = Excerpt(f, e)
  BY DEF Excerpt
<1>2. \A t : Within(t)' <=> Within(t)
  BY DEF Within, Interval
<1>3. \A p, t, m : IsWord(p, t, m)' <=> IsWord(p, t, m)
  BY <1>1 DEF IsWord
<1>4. \A p, t : MatchesIn(p, t)' = MatchesIn(p, t)
  BY <1>1 DEF MatchesIn
<1>5. \A p, t : Original(p, t)' = Original(p, t)
  BY <1>4 DEF Original
<1>6. \A p, t, r, m : IsExact(p, t, r, m)' <=> IsExact(p, t, r, m)
  BY <1>4, <1>5 DEF IsExact
<1>7. \A b, t : LineStart(b, t)' <=> LineStart(b, t)
  BY DEF LineStart, CharAt
<1> QED
  BY <1>2, <1>3, <1>4, <1>5, <1>6, <1>7

LEMMA SameCall ==
  ASSUME UNCHANGED <<caller, multi>>
  PROVE  /\ UNCHANGED <<pregs, nosub, whole, range, text, glob, start, end, i, matches>>
         /\ MHeur' = MHeur /\ (EmptyRange' <=> EmptyRange) /\ Matched' = Matched /\ First' = First
         /\ Base' = Base
<1>1. UNCHANGED <<pregs, nosub, whole, range, text, glob, start, end, i, matches>>
  BY DEF caller, multi
<1>2. MHeur' = MHeur /\ (EmptyRange' <=> EmptyRange) /\ Matched' = Matched
  BY <1>1 DEF MHeur, EmptyRange, Matched
<1>3. First' = First
  BY <1>1, <1>2 DEF First
<1>4. Base' = Base
  BY <1>1, <1>2, <1>3 DEF Base
<1> QED
  BY <1>1, <1>2, <1>3, <1>4

(* frec_mmatch's part of the invariant is not touched while frec_match runs.  *)
LEMMA CallKeepsOuter ==
  ASSUME IInv, InCall, InCall', UNCHANGED <<caller, multi, curr>>
  PROVE  CallerInv' /\ TextInv' /\ NoneInv' /\ AnswerInv' /\ DoneInv'
<1>1. /\ UNCHANGED <<pregs, nosub, whole, range, text, glob, start, end, i, matches>>
      /\ MHeur' = MHeur /\ (EmptyRange' <=> EmptyRange) /\ Matched' = Matched /\ First' = First
  BY SameCall
<1>2. pc \notin {"execute_match", "done", "rebase", "MHEUR_LITERAL", "MHEUR_LONGEST", "MHEUR_NONE"}
      /\ (pc \notin {"execute_match", "done", "rebase", "MHEUR_LITERAL", "MHEUR_LONGEST", "MHEUR_NONE"})'
  BY DEF InCall
<1>3. Started /\ Started' /\ ~ EmptyRange
  BY <1>1, <1>2, InCallIsStarted DEF Started, IInv
<1>4. CallerInv'
  BY <1>1, <1>2, <1>3 DEF IInv, CallerInv
<1>5. TextInv'
  <2>1. \A t : Within(t)' <=> Within(t)
    BY <1>1, SameText
  <2> QED
    BY <1>1, <1>2, <1>3, <2>1 DEF IInv, TextInv
<1>6. NoneInv'
  <2>1. /\ \A p, t, m : IsWord(p, t, m)' <=> IsWord(p, t, m)
        /\ \A p, t : MatchesIn(p, t)' = MatchesIn(p, t)
    BY <1>1, SameText
  <2>2. \A p : Exact(p)' <=> Exact(p)
    BY DEF Exact
  <2> QED
    BY <1>1, <2>1, <2>2 DEF IInv, NoneInv
<1> QED
  BY <1>2, <1>4, <1>5, <1>6 DEF AnswerInv, DoneInv
-----------------------------------------------------------------------------
(* frec_match *)
LEMMA ReturnKeepsIInv ==
  ASSUME IInv, InCall, pc' = "returned", UNCHANGED <<caller, multi, curr, sub, hglob>>,
         ret' \in {"REG_OK", "REG_NOMATCH"},
         ret' = "REG_OK" => IsWord(preg, Base, pmatch'),
         ret' # "REG_OK" => pmatch' = pmatch,
         Exact(preg) => IsExact(preg, Base, ret', pmatch')
  PROVE  IInv'
<1>1. InCall'
  BY DEF InCall
<1>2. CallerInv' /\ TextInv' /\ NoneInv' /\ AnswerInv' /\ DoneInv'
  BY <1>1, CallKeepsOuter
<1>3. /\ UNCHANGED <<pregs, nosub, whole, range, text, glob, start, end, i, matches, curr, sub, hglob>>
      /\ MHeur' = MHeur /\ (EmptyRange' <=> EmptyRange) /\ Base' = Base
  BY SameCall
<1>4. whole \in Seq(Char) /\ Within(Base) /\ Len(whole) \in Nat
  BY PregFacts DEF IInv, CallInv
<1>5. TypeOK'
  <2>1. pmatch' \in Offsets
    <3>1. CASE ret' = "REG_OK"
      <4>1. IsWord(preg, Base, pmatch')
        BY <3>1
      <4>2. /\ pmatch'.soffset \in Nat /\ pmatch'.eoffset \in Nat /\ pmatch'.soffset <= pmatch'.eoffset
            /\ pmatch'.eoffset <= Length(Base)
            /\ pmatch' = [soffset |-> pmatch'.soffset, eoffset |-> pmatch'.eoffset]
        BY <1>4, <4>1, WordTypes
      <4>3. Length(Base) \in Nat /\ Length(Base) <= Len(whole)
        BY <1>4, WithinTypes
      <4>4. pmatch'.soffset \in -1 .. Len(whole) /\ pmatch'.eoffset \in -1 .. Len(whole)
        BY <1>4, <4>2, <4>3
      <4> QED
        BY <4>2, <4>4 DEF Offsets
    <3>2. CASE ret' # "REG_OK"
      BY <3>2 DEF IInv, TypeOK
    <3> QED
      BY <3>1, <3>2
  <2>2. Offsets' = Offsets /\ Interval' = Interval
    BY <1>3 DEF Offsets, Interval
  <2>3. text \in Interval /\ sub \in Interval
    <3>1. ~ EmptyRange /\ pc # "execute_match"
      BY InCallIsStarted DEF IInv, InCall
    <3> QED
      BY <3>1 DEF IInv, TypeOK
  <2> QED
    BY <1>3, <2>1, <2>2, <2>3 DEF IInv, TypeOK
<1>6. CallInv'
  <2>1. /\ \A t : Within(t)' <=> Within(t)
        /\ \A p, t, m : IsWord(p, t, m)' <=> IsWord(p, t, m)
        /\ \A p, t, r, m : IsExact(p, t, r, m)' <=> IsExact(p, t, r, m)
    BY <1>3, SameText
  <2>2. preg' = preg
    BY <1>3 DEF preg
  <2>3. (Exact(preg)' <=> Exact(preg)) /\ Length(Base)' = Length(Base)
    BY <1>3, <2>2 DEF Exact, Length
  <2> QED
    BY <1>3, <2>1, <2>2, <2>3 DEF IInv, CallInv
<1> QED
  BY <1>2, <1>5, <1>6 DEF IInv

LEMMA WholePatternKeepsIInv ==
  ASSUME IInv, MatchLiteral \/ MatchOriginal \/ MatchPrefix
  PROVE  IInv'
<1>1. pc = "frec_match" /\ pc' = "returned" /\ UNCHANGED <<caller, multi, curr, sub, hglob>> /\ InCall
  BY DEF MatchLiteral, MatchOriginal, MatchPrefix, Answer, InCall
<1>2. whole \in Seq(Char) /\ preg \in Preg /\ KeepsPromise(preg, Newline) /\ Within(sub) /\ sub = Base
  BY <1>1, PregFacts, PregIs DEF IInv, CallInv
<1>3. /\ ret' \in {"REG_OK", "REG_NOMATCH"}
      /\ ret' = "REG_OK" => IsWord(preg, sub, pmatch')
      /\ ret' # "REG_OK" => pmatch' = pmatch
      /\ IsExact(preg, sub, ret', pmatch')
  <2>1. CASE MatchLiteral
    <3>1. CASE PlacesOf(preg.lit, sub) = {}
      <4>1. ret' = "REG_NOMATCH" /\ pmatch' = pmatch
        BY <2>1, <3>1 DEF MatchLiteral, Answer
      <4>2. MatchesIn(preg, sub) = {}
        BY <1>2, <2>1, <3>1, LiteralAnswer DEF MatchLiteral
      <4> QED
        BY <4>1, <4>2 DEF IsExact
    <3>2. CASE PlacesOf(preg.lit, sub) # {}
      <4>1. ret' = "REG_OK" /\ pmatch' = Occurrence(preg.lit, Least(PlacesOf(preg.lit, sub)))
        BY <2>1, <3>2 DEF MatchLiteral, Answer
      <4>2. LET m == Occurrence(preg.lit, Least(PlacesOf(preg.lit, sub)))
            IN IsWord(preg, sub, m) /\ IsExact(preg, sub, "REG_OK", m)
        BY <1>2, <2>1, <3>2, LiteralAnswer DEF MatchLiteral
      <4> QED
        BY <4>1, <4>2
    <3> QED
      BY <3>1, <3>2
  <2>2. CASE MatchOriginal
    <3>1. CASE MatchesIn(preg, sub) = {}
      BY <2>2, <3>1 DEF MatchOriginal, Answer, IsExact
    <3>2. CASE MatchesIn(preg, sub) # {}
      <4>1. ret' = "REG_OK" /\ pmatch' = Original(preg, sub)
        BY <2>2, <3>2 DEF MatchOriginal, Answer
      <4>2. Original(preg, sub) \in MatchesIn(preg, sub)
        BY <1>2, <3>2, OriginalExists
      <4> QED
        BY <3>2, <4>1, <4>2, MatchIsWord DEF IsExact
    <3> QED
      BY <3>1, <3>2
  <2>3. CASE MatchPrefix
    <3>1. CASE PlacesOf(preg.lit, sub) = {}
      <4>1. ret' = "REG_NOMATCH" /\ pmatch' = pmatch
        BY <2>3, <3>1 DEF MatchPrefix, Answer
      <4>2. MatchesIn(preg, sub) = {}
        BY <1>2, <2>3, <3>1, PrefixAnswer DEF MatchPrefix
      <4> QED
        BY <4>1, <4>2 DEF IsExact
    <3>2. CASE PlacesOf(preg.lit, sub) # {}
      <4> DEFINE m == Moved(Original(preg, FromCandidate), FromCandidate.from - sub.from)
      <4>1. IF MatchesIn(preg, FromCandidate) = {} THEN MatchesIn(preg, sub) = {}
            ELSE IsWord(preg, sub, m) /\ IsExact(preg, sub, "REG_OK", m)
        BY <1>2, <2>3, <3>2, PrefixAnswer DEF MatchPrefix, FromCandidate
      <4>2. IF MatchesIn(preg, FromCandidate) = {} THEN ret' = "REG_NOMATCH" /\ pmatch' = pmatch
            ELSE ret' = "REG_OK" /\ pmatch' = m
        BY <2>3, <3>2 DEF MatchPrefix, Answer
      <4> HIDE DEF m
      <4>3. CASE MatchesIn(preg, FromCandidate) = {}
        BY <4>1, <4>2, <4>3 DEF IsExact
      <4>4. CASE MatchesIn(preg, FromCandidate) # {}
        BY <4>1, <4>2, <4>4
      <4> QED
        BY <4>3, <4>4
    <3> QED
      BY <3>1, <3>2
  <2> QED
    BY <2>1, <2>2, <2>3
<1> QED
  BY <1>1, <1>2, <1>3, ReturnKeepsIInv

LEMMA MatchLongestKeepsIInv ==
  ASSUME IInv, MatchLongest
  PROVE  IInv'
<1>1. /\ pc = "frec_match" /\ pc' = "section" /\ preg.kind = "longest"
      /\ UNCHANGED <<caller, multi, curr, sub, hglob, pmatch, ret>> /\ InCall /\ InCall'
  BY DEF MatchLongest, InCall
<1>2. CallerInv' /\ TextInv' /\ NoneInv' /\ AnswerInv' /\ DoneInv'
  BY <1>1, CallKeepsOuter
<1>3. /\ UNCHANGED <<pregs, nosub, whole, range, text, glob, start, end, i, matches, curr, sub, hglob, pmatch, ret>>
      /\ MHeur' = MHeur /\ (EmptyRange' <=> EmptyRange) /\ Base' = Base
  BY <1>1, SameCall
<1>4. text \in Interval /\ sub \in Interval
  <2>1. ~ EmptyRange /\ pc # "execute_match"
    BY <1>1, InCallIsStarted DEF IInv, InCall
  <2> QED
    BY <2>1 DEF IInv, TypeOK
<1>5. TypeOK'
  BY <1>1, <1>3, <1>4 DEF IInv, TypeOK, Offsets, Interval
<1>6. whole \in Seq(Char) /\ Within(Base) /\ sub = Base /\ hglob = 0 /\ Length(Base) > 0
  BY <1>1, PregFacts DEF IInv, CallInv
<1>7. Progress(Base)
  <2>1. Base.from \in Nat
    BY <1>6, WithinTypes
  <2>2. \A m \in MatchesIn(preg, Base) : m.soffset >= 0
    <3> TAKE m \in MatchesIn(preg, Base)
    <3>1. IsWord(preg, Base, m)
      BY MatchIsWord
    <3> QED
      BY <1>6, <3>1, WordTypes
  <2> QED
    BY <1>6, <2>1, <2>2 DEF Progress, LineStart
<1>8. CallInv'
  <2>1. /\ \A t : Within(t)' <=> Within(t)
        /\ \A p, t : MatchesIn(p, t)' = MatchesIn(p, t)
        /\ \A b, t : LineStart(b, t)' <=> LineStart(b, t)
    BY <1>3, SameText
  <2>2. preg' = preg
    BY <1>3 DEF preg
  <2>3. (Exact(preg)' <=> Exact(preg)) /\ Length(Base)' = Length(Base) /\ Length(sub)' = Length(sub)
    BY <1>3, <2>2 DEF Exact, Length
  <2>4. Progress(Base)'
    BY <1>3, <1>7, <2>1, <2>2, <2>3 DEF Progress
  <2>5. Length(sub) # 0
    BY <1>6
  <2> QED
    BY <1>1, <1>3, <1>6, <2>1, <2>2, <2>3, <2>4, <2>5 DEF IInv, CallInv
<1> QED
  BY <1>2, <1>5, <1>8 DEF IInv

LEMMA SectionsEndKeepsIInv ==
  ASSUME IInv, SectionsOver \/ NoCandidate \/ SectionHit
  PROVE  IInv'
<1>1. /\ pc = "section" /\ pc' = "returned" /\ UNCHANGED <<caller, multi, curr, sub, hglob>> /\ InCall
  BY DEF SectionsOver, NoCandidate, SectionHit, Answer, InCall
<1>2. /\ whole \in Seq(Char) /\ preg \in Preg /\ KeepsPromise(preg, Newline) /\ preg.kind = "longest"
      /\ Within(sub) /\ Within(Base) /\ Progress(Base) /\ (Length(sub) = 0 => ret = "REG_NOMATCH")
  BY <1>1, PregFacts, PregIs DEF IInv, CallInv
<1>3. CASE SectionsOver
  <2>1. ret' = "REG_NOMATCH" /\ pmatch' = pmatch /\ Length(sub) = 0
    BY <1>2, <1>3 DEF SectionsOver
  <2>2. Exact(preg) => MatchesIn(preg, Base) = {}
    BY <1>2, <2>1, SectionAnswers
  <2>3. Exact(preg) => IsExact(preg, Base, ret', pmatch')
    BY <2>1, <2>2 DEF IsExact
  <2> QED
    BY <1>1, <2>1, <2>3, ReturnKeepsIInv
<1>4. CASE NoCandidate
  <2>1. ret' = "REG_NOMATCH" /\ pmatch' = pmatch /\ ~ HasCandidate
    BY <1>4 DEF NoCandidate, Answer
  <2>2. Exact(preg) => MatchesIn(preg, Base) = {}
    BY <1>2, <2>1, SectionAnswers
  <2>3. Exact(preg) => IsExact(preg, Base, ret', pmatch')
    BY <2>1, <2>2 DEF IsExact
  <2> QED
    BY <1>1, <2>1, <2>3, ReturnKeepsIInv
<1>5. CASE SectionHit
  <2> DEFINE o == Original(preg, Section)
             d == hglob + SecStart
  <2>1. ret' = "REG_OK" /\ pmatch' = Moved(o, d) /\ HasCandidate /\ MatchesIn(preg, Section) # {}
    BY <1>5 DEF SectionHit, Answer
  <2>2. /\ SecStart \in Nat /\ SecEnd \in Nat /\ Within(Section)
        /\ Section.from = sub.from + SecStart /\ Section.to <= sub.to
    BY <1>2, <2>1, SectionIs
  <2>3. IsWord(preg, Section, o)
    BY <1>2, <2>1, <2>2, OriginalExists, MatchIsWord
  <2>4. d \in Nat /\ Section.from = Base.from + d /\ Section.to <= Base.to
    <3>1. hglob \in Nat /\ sub.from = Base.from + hglob /\ sub.to = Base.to /\ Base.from \in Nat
      BY <1>2, WithinTypes DEF Progress
    <3> QED
      BY <2>2, <3>1
  <2> HIDE DEF o, d
  <2>5. IsWord(preg, Base, Moved(o, d))
    BY <1>2, <2>2, <2>3, <2>4, WordInSection
  <2>6. Exact(preg) => IsExact(preg, Base, "REG_OK", Moved(o, d))
    BY <1>2, <2>1, SectionAnswers DEF o, d
  <2> QED
    BY <1>1, <2>1, <2>5, <2>6, ReturnKeepsIInv
<1> QED
  BY <1>3, <1>4, <1>5

LEMMA SectionMissKeepsIInv ==
  ASSUME IInv, SectionMiss
  PROVE  IInv'
<1>1. /\ pc = "section" /\ pc' = "section" /\ InCall /\ InCall'
      /\ UNCHANGED <<caller, multi, curr, pmatch>>
      /\ ret' = "REG_NOMATCH" /\ sub' = [sub EXCEPT !.from = @ + SecEnd] /\ hglob' = hglob + SecEnd
      /\ HasCandidate /\ MatchesIn(preg, Section) = {}
  BY DEF SectionMiss, InCall
<1>2. /\ whole \in Seq(Char) /\ Len(whole) \in Nat /\ preg \in Preg /\ KeepsPromise(preg, Newline)
      /\ preg.kind = "longest"
      /\ Within(sub) /\ Within(Base) /\ Progress(Base) /\ Length(Base) > 0
  BY <1>1, PregFacts, PregIs DEF IInv, CallInv
<1>3. CallerInv' /\ TextInv' /\ NoneInv' /\ AnswerInv' /\ DoneInv'
  BY <1>1, CallKeepsOuter
<1>4. /\ UNCHANGED <<pregs, nosub, whole, range, text, glob, start, end, i, matches, curr, pmatch>>
      /\ MHeur' = MHeur /\ (EmptyRange' <=> EmptyRange) /\ Base' = Base
  BY <1>1, SameCall
<1>5. SecEnd \in Nat /\ SecEnd <= Length(sub)
  BY <1>1, <1>2, SectionIs
<1>6. /\ sub.from \in Nat /\ sub.to \in Nat /\ sub.to <= Len(whole) /\ Length(sub) = sub.to - sub.from
      /\ Base.from \in Nat /\ hglob \in Nat /\ sub.from = Base.from + hglob /\ sub.to = Base.to
  BY <1>2, WithinTypes DEF Progress
<1>7. /\ sub' = Between(sub.from + SecEnd, sub.to)
      /\ sub'.from = sub.from + SecEnd /\ sub'.to = sub.to
  BY <1>1, <1>2 DEF Within, Interval, Between
<1>8. /\ sub.from + SecEnd \in Nat /\ sub.from + SecEnd <= sub.to
      /\ sub.from + SecEnd = Base.from + (hglob + SecEnd)
      /\ hglob + SecEnd \in Nat /\ hglob + SecEnd <= Len(whole)
  <2> DEFINE sf == sub.from
             st == sub.to
             bf == Base.from
  <2>1. sf \in Nat /\ st \in Nat /\ bf \in Nat /\ SecEnd <= st - sf /\ sf = bf + hglob /\ st <= Len(whole)
    BY <1>5, <1>6
  <2> HIDE DEF sf, st, bf
  <2>2. /\ sf + SecEnd \in Nat /\ sf + SecEnd <= st /\ sf + SecEnd = bf + (hglob + SecEnd)
        /\ hglob + SecEnd \in Nat /\ hglob + SecEnd <= Len(whole)
    BY <1>2, <1>5, <1>6, <2>1
  <2> QED
    BY <2>2 DEF sf, st, bf
<1>9. Within(sub')
  BY <1>2, <1>6, <1>7, <1>8, BetweenIsWithin
<1>10. TypeOK'
  <2>1. text \in Interval
    <3>1. ~ EmptyRange /\ pc # "execute_match"
      BY <1>1, InCallIsStarted DEF IInv, InCall
    <3> QED
      BY <3>1 DEF IInv, TypeOK
  <2>2. sub' \in Interval /\ hglob' \in 0 .. Len(whole)
    BY <1>1, <1>2, <1>8, <1>9 DEF Within
  <2>3. Offsets' = Offsets /\ Interval' = Interval
    BY <1>4 DEF Offsets, Interval
  <2> QED
    BY <1>1, <1>4, <2>1, <2>2, <2>3 DEF IInv, TypeOK
<1>11. CallInv'
  <2>1. /\ \A t : Within(t)' <=> Within(t)
        /\ \A p, t : MatchesIn(p, t)' = MatchesIn(p, t)
        /\ \A b, t : LineStart(b, t)' <=> LineStart(b, t)
    BY <1>4, SameText
  <2>2. preg' = preg
    BY <1>4 DEF preg
  <2>3. (Exact(preg)' <=> Exact(preg)) /\ Length(Base)' = Length(Base)
    BY <1>4, <2>2 DEF Exact, Length
  <2>4. Exact(preg) => LineStart(Base, sub')
    <3> SUFFICES ASSUME Exact(preg) PROVE LineStart(Base, sub')
      OBVIOUS
    <3> DEFINE s == Least(PlacesOf(preg.lit, sub))
    <3>1. preg.lit \in Seq(Char) /\ preg.max = -1
      BY <1>2 DEF Preg, Exact
    <3>2. s \in PlacesOf(preg.lit, sub)
      BY <1>1, <1>2, <3>1, PlacesAre, LeastIsLeast DEF HasCandidate
    <3>3. SecEnd = SectionEnd(preg, sub, s)
      BY DEF SecEnd
    <3> HIDE DEF s
    <3>4. SecEnd = Length(sub) \/ CharAt(sub.from + SecEnd) = Newline
      BY <1>2, <3>1, <3>2, <3>3, SectionBounds
    <3>5. SecEnd = Length(sub) => sub.from + SecEnd = sub.to
      BY <1>6
    <3> QED
      BY <1>7, <3>4, <3>5 DEF LineStart
  <2>5. Exact(preg) => \A m \in MatchesIn(preg, Base) : m.soffset >= hglob + SecEnd
    BY <1>1, <1>2, SectionAnswers
  <2>6. Progress(Base)'
    <3>1. sub'.from = Base.from + hglob' /\ sub'.to = Base.to /\ hglob' \in Nat
      BY <1>1, <1>6, <1>7, <1>8
    <3>2. Exact(preg) => \A m \in MatchesIn(preg, Base) : m.soffset >= hglob'
      BY <1>1, <2>5
    <3> QED
      BY <1>4, <2>1, <2>2, <2>3, <2>4, <3>1, <3>2 DEF Progress
  <2> QED
    BY <1>1, <1>2, <1>4, <1>9, <2>1, <2>2, <2>3, <2>6 DEF CallInv
<1> QED
  BY <1>3, <1>10, <1>11 DEF IInv

LEMMA FrecMatchKeepsIInv ==
  ASSUME IInv, FrecMatch
  PROVE  IInv'
BY WholePatternKeepsIInv, MatchLongestKeepsIInv, SectionsEndKeepsIInv, SectionMissKeepsIInv DEF FrecMatch
-----------------------------------------------------------------------------
(* execute_match, and the answers of frec_mmatch *)
LEMMA FourWays == MHeur \in {"MHEUR_SINGLE", "MHEUR_LITERAL", "MHEUR_NONE", "MHEUR_LONGEST"}
BY DEF MHeur

LEMMA ExecuteEmptyKeepsIInv ==
  ASSUME IInv, ExecuteEmpty
  PROVE  IInv'
<1>1. /\ pc = "execute_match" /\ pc' = "done" /\ ret' = "REG_NOMATCH" /\ EmptyRange
      /\ UNCHANGED <<caller, multi, curr, sub, hglob, pmatch>>
  BY DEF ExecuteEmpty
<1>2. /\ UNCHANGED <<pregs, nosub, whole, range, text, glob, start, end, i, matches>>
      /\ MHeur' = MHeur /\ EmptyRange'
  BY <1>1, SameCall
<1>3. TypeOK'
  BY <1>1, <1>2 DEF IInv, TypeOK, Offsets, Interval
<1>4. CallerInv'
  BY <1>1, <1>2 DEF IInv, CallerInv
<1>5. TextInv' /\ CallInv' /\ NoneInv' /\ AnswerInv'
  BY <1>1, <1>2 DEF TextInv, CallInv, NoneInv, AnswerInv, InCall, Started
<1>6. DoneInv'
  BY <1>1, <1>2 DEF DoneInv, OffsetsNameAMatch, AnswersAsOriginal, NoSubIsExact
<1> QED
  BY <1>3, <1>4, <1>5, <1>6 DEF IInv

LEMMA ExecuteKeepsIInv ==
  ASSUME IInv, Execute
  PROVE  IInv'
<1>1. /\ pc = "execute_match" /\ ~ EmptyRange /\ UNCHANGED <<caller, multi, pmatch, ret>>
      /\ text = range /\ glob = 0 /\ i = 1 /\ matches = <<>> /\ ret = "unset"
  BY DEF Execute, IInv, CallerInv
<1>2. /\ UNCHANGED <<pregs, nosub, whole, range, text, glob, start, end, i, matches, pmatch, ret>>
      /\ MHeur' = MHeur /\ ~ EmptyRange' /\ Base' = Base /\ Matched' = Matched /\ First' = First
  BY <1>1, SameCall
<1>3. /\ whole \in Seq(Char) /\ Len(whole) \in Nat /\ Len(pregs) \in Nat /\ Len(pregs) >= 1
      /\ DOMAIN pregs = 1 .. Len(pregs)
      /\ Within(range) /\ range.from \in Nat /\ Length(range) \in Nat /\ Length(range) > 0
  BY <1>1, PregFacts, RangeIs DEF IInv
<1>4. /\ \A t : Within(t)' <=> Within(t)
      /\ range.from + glob = range.from
  BY <1>1, <1>2, <1>3, SameText
<1>5. Offsets' = Offsets /\ Interval' = Interval
  BY <1>2 DEF Offsets, Interval
<1>6. CASE MHeur = "MHEUR_SINGLE"
  <2>1. pc' = "frec_match" /\ curr' = 1 /\ sub' = text /\ hglob' = 0
    BY <1>6 DEF Execute, Call
  <2>2. TypeOK'
    <3>1. text' \in Interval' /\ sub' \in Interval'
      BY <1>1, <1>2, <1>3, <1>5, <2>1 DEF Within
    <3>2. curr' \in DOMAIN pregs /\ hglob' \in 0 .. Len(whole)
      BY <1>3, <2>1
    <3> QED
      BY <1>2, <1>5, <2>1, <3>1, <3>2 DEF IInv, TypeOK
  <2>3. CallerInv'
    BY <1>2, <2>1 DEF IInv, CallerInv
  <2>4. TextInv'
    BY <1>1, <1>2, <1>3, <1>4, <1>6, <2>1 DEF TextInv, InCall
  <2>5. CallInv'
    <3>1. Base = range
      BY <1>1, <1>6 DEF Base
    <3>2. Length(Base)' = Length(range)
      BY <1>2, <3>1 DEF Length
    <3> QED
      BY <1>1, <1>2, <1>3, <1>4, <2>1, <3>1, <3>2 DEF CallInv
  <2>6. NoneInv' /\ AnswerInv' /\ DoneInv'
    BY <1>2, <1>6, <2>1 DEF NoneInv, AnswerInv, DoneInv
  <2> QED
    BY <2>2, <2>3, <2>4, <2>5, <2>6 DEF IInv
<1>7. CASE MHeur # "MHEUR_SINGLE"
  <2>1. pc' = MHeur /\ UNCHANGED <<curr, sub, hglob>>
    BY <1>7 DEF Execute
  <2>2. pc' \in {"MHEUR_LITERAL", "MHEUR_NONE", "MHEUR_LONGEST"} /\ ~ InCall'
    BY <1>7, <2>1, FourWays DEF InCall
  <2>3. sub' \in Interval' /\ text' \in Interval'
    <3>1. text \in Interval
      BY <1>1, <1>3 DEF Within
    <3>2. sub \in Interval
      BY <1>1, <1>3 DEF IInv, CallerInv, Within
    <3> QED
      BY <1>2, <1>5, <2>1, <3>1, <3>2
  <2>4. TypeOK'
    BY <1>2, <1>5, <2>1, <2>2, <2>3 DEF IInv, TypeOK
  <2>5. CallerInv'
    BY <1>2, <2>2 DEF IInv, CallerInv
  <2>6. TextInv'
    <3>1. Length(text)' = Length(range)
      BY <1>1, <1>2 DEF Length
    <3> QED
      BY <1>1, <1>2, <1>3, <1>4, <1>7, <2>1, <2>2, <3>1 DEF TextInv
  <2>7. NoneInv'
    <3>1. matches' = <<>> /\ i' = 1 /\ Len(matches') = 0 /\ Matched' = {}
      BY <1>1, <1>2 DEF Matched
    <3>2. <<>> \in Seq([soffset : Int, eoffset : Int])
      OBVIOUS
    <3> QED
      BY <2>2, <3>1, <3>2 DEF NoneInv
  <2>8. CallInv' /\ AnswerInv' /\ DoneInv'
    BY <2>2 DEF CallInv, AnswerInv, DoneInv
  <2> QED
    BY <2>4, <2>5, <2>6, <2>7, <2>8 DEF IInv
<1> QED
  BY <1>6, <1>7

LEMMA AnswerKeepsIInv ==
  ASSUME IInv, Started, pc' = "rebase", UNCHANGED <<caller, multi, curr, sub, hglob>>,
         ret' \in {"REG_OK", "REG_NOMATCH"},
         ret' = "REG_OK" => pmatch' \in [soffset : 0 .. Length(range), eoffset : 0 .. Length(range)],
         ret' # "REG_OK" => pmatch' = pmatch,
         ret' = "REG_OK" /\ MHeur # "MHEUR_NONE" => \E n \in DOMAIN pregs : IsWord(pregs[n], range, pmatch'),
         MHeur = "MHEUR_SINGLE" /\ Exact(pregs[1]) => IsExact(pregs[1], range, ret', pmatch'),
         MHeur = "MHEUR_NONE" /\ nosub /\ (\A n \in DOMAIN pregs : Exact(pregs[n])) =>
           (ret' = "REG_OK" <=> AnyMatches)
  PROVE  IInv'
<1>1. /\ UNCHANGED <<pregs, nosub, whole, range, text, glob, start, end, i, matches, curr, sub, hglob>>
      /\ MHeur' = MHeur /\ (EmptyRange' <=> EmptyRange)
  BY SameCall
<1>2. ~ EmptyRange /\ pc # "execute_match"
  BY DEF Started
<1>3. /\ Len(whole) \in Nat /\ Length(range) \in Nat /\ Length(range) <= Len(whole)
      /\ whole \in Seq(Char)
  BY <1>2, PregFacts, RangeIs, WithinTypes DEF IInv
<1>4. /\ \A t : Within(t)' <=> Within(t)
      /\ \A p, t, m : IsWord(p, t, m)' <=> IsWord(p, t, m)
      /\ \A p, t : MatchesIn(p, t)' = MatchesIn(p, t)
      /\ \A p, t, r, m : IsExact(p, t, r, m)' <=> IsExact(p, t, r, m)
      /\ \A p : Exact(p)' <=> Exact(p)
  BY <1>1, SameText DEF Exact
<1>5. TypeOK'
  <2>1. pmatch' \in Offsets
    <3>1. CASE ret' = "REG_OK"
      <4>1. pmatch' \in [soffset : 0 .. Length(range), eoffset : 0 .. Length(range)]
        BY <3>1
      <4>2. 0 .. Length(range) \subseteq -1 .. Len(whole)
        BY <1>3
      <4> QED
        BY <4>1, <4>2 DEF Offsets
    <3>2. CASE ret' # "REG_OK"
      BY <3>2 DEF IInv, TypeOK
    <3> QED
      BY <3>1, <3>2
  <2>2. Offsets' = Offsets /\ Interval' = Interval
    BY <1>1 DEF Offsets, Interval
  <2>3. text \in Interval /\ sub \in Interval
    BY <1>2 DEF IInv, TypeOK
  <2> QED
    BY <1>1, <2>1, <2>2, <2>3 DEF IInv, TypeOK
<1>6. CallerInv'
  BY <1>1, <1>2 DEF IInv, CallerInv
<1>7. TextInv'
  BY <1>1, <1>2, <1>4 DEF IInv, TextInv, Started, InCall
<1>8. CallInv' /\ NoneInv' /\ DoneInv'
  BY DEF CallInv, NoneInv, DoneInv, InCall
<1>9. AnswerInv'
  <2>1. AnyMatches' <=> AnyMatches
    BY <1>1, <1>4 DEF AnyMatches
  <2>2. Length(range)' = Length(range)
    BY <1>1 DEF Length
  <2> QED
    BY <1>1, <1>4, <2>1, <2>2 DEF AnswerInv
<1> QED
  BY <1>5, <1>6, <1>7, <1>8, <1>9 DEF IInv

LEMMA RebaseKeepsIInv ==
  ASSUME IInv, Rebase
  PROVE  IInv'
<1>1. /\ pc = "rebase" /\ pc' = "done" /\ ret' = ret /\ UNCHANGED <<caller, multi, curr, sub, hglob>>
      /\ pmatch' = IF ret = "REG_OK" THEN Moved(pmatch, range.from) ELSE pmatch
  BY DEF Rebase, Answer
<1>2. /\ UNCHANGED <<pregs, nosub, whole, range, text, glob, start, end, i, matches, curr, sub, hglob>>
      /\ MHeur' = MHeur /\ (EmptyRange' <=> EmptyRange)
  BY <1>1, SameCall
<1>3. Started /\ ~ EmptyRange
  BY <1>1, InCallIsStarted DEF IInv
<1>4. /\ whole \in Seq(Char) /\ Len(whole) \in Nat
      /\ Within(range) /\ range.from \in Nat /\ range.to \in Nat /\ range.to <= Len(whole)
      /\ Length(range) \in Nat /\ Length(range) = range.to - range.from
  BY <1>3, PregFacts, RangeIs DEF IInv
<1>5. /\ \A t : Within(t)' <=> Within(t)
      /\ \A p, t : MatchesIn(p, t)' = MatchesIn(p, t)
      /\ \A p, t : Original(p, t)' = Original(p, t)
      /\ \A p : Exact(p)' <=> Exact(p)
  BY <1>2, SameText DEF Exact
<1>6. ret \in {"REG_OK", "REG_NOMATCH"}
  BY <1>1 DEF IInv, AnswerInv
<1>7. ret = "REG_OK" =>
        /\ pmatch.soffset \in 0 .. Length(range) /\ pmatch.eoffset \in 0 .. Length(range)
        /\ pmatch' = [soffset |-> pmatch.soffset + range.from, eoffset |-> pmatch.eoffset + range.from]
        /\ pmatch'.soffset = pmatch.soffset + range.from /\ pmatch'.eoffset = pmatch.eoffset + range.from
  BY <1>1 DEF IInv, AnswerInv, Moved
<1>8. ret = "REG_OK" => /\ range.from <= pmatch'.soffset /\ pmatch'.eoffset <= range.to
                        /\ pmatch'.soffset \in 0 .. Len(whole) /\ pmatch'.eoffset \in 0 .. Len(whole)
                        /\ pmatch'.soffset = range.from + pmatch.soffset
                        /\ pmatch'.eoffset = range.from + pmatch.eoffset
  <2> SUFFICES ASSUME ret = "REG_OK"
               PROVE  /\ range.from <= pmatch'.soffset /\ pmatch'.eoffset <= range.to
                      /\ pmatch'.soffset \in 0 .. Len(whole) /\ pmatch'.eoffset \in 0 .. Len(whole)
                      /\ pmatch'.soffset = range.from + pmatch.soffset
                      /\ pmatch'.eoffset = range.from + pmatch.eoffset
    OBVIOUS
  <2> DEFINE so == pmatch.soffset
             eo == pmatch.eoffset
             rf == range.from
             rt == range.to
  <2>1. /\ so \in 0 .. rt - rf /\ eo \in 0 .. rt - rf /\ rf \in Nat /\ rt \in Nat /\ rt <= Len(whole)
        /\ pmatch'.soffset = so + rf /\ pmatch'.eoffset = eo + rf
    BY <1>4, <1>7
  <2> HIDE DEF so, eo, rf, rt
  <2>2. /\ rf <= so + rf /\ eo + rf <= rt /\ so + rf \in 0 .. Len(whole) /\ eo + rf \in 0 .. Len(whole)
        /\ so + rf = rf + so /\ eo + rf = rf + eo
    BY <1>4, <2>1
  <2> QED
    BY <2>1, <2>2 DEF so, eo, rf, rt
<1>9. TypeOK'
  <2>1. pmatch' \in Offsets
    <3>1. CASE ret = "REG_OK"
      <4>1. 0 .. Len(whole) \subseteq -1 .. Len(whole)
        BY <1>4
      <4> QED
        BY <1>7, <1>8, <3>1, <4>1 DEF Offsets
    <3>2. CASE ret # "REG_OK"
      BY <1>1, <3>2 DEF IInv, TypeOK
    <3> QED
      BY <3>1, <3>2
  <2>2. Offsets' = Offsets /\ Interval' = Interval
    BY <1>2 DEF Offsets, Interval
  <2>3. text \in Interval /\ sub \in Interval
    BY <1>3 DEF IInv, TypeOK, Started
  <2> QED
    BY <1>1, <1>2, <1>6, <2>1, <2>2, <2>3 DEF IInv, TypeOK
<1>10. CallerInv'
  BY <1>1, <1>2, <1>3 DEF IInv, CallerInv
<1>11. TextInv'
  BY <1>1, <1>2, <1>3, <1>5 DEF IInv, TextInv, Started, InCall
<1>12. CallInv' /\ NoneInv' /\ AnswerInv'
  BY <1>1 DEF CallInv, NoneInv, AnswerInv, InCall
<1>13. DoneInv'
  <2>1. OffsetsNameAMatch'
    <3> SUFFICES ASSUME ret = "REG_OK", MHeur # "MHEUR_NONE"
                 PROVE  /\ range.from <= pmatch'.soffset /\ pmatch'.eoffset <= range.to
                        /\ \E n \in DOMAIN pregs :
                             Excerpt(pmatch'.soffset, pmatch'.eoffset) \in pregs[n].words
      BY <1>1, <1>2 DEF OffsetsNameAMatch, Excerpt
    <3>1. PICK n \in DOMAIN pregs : IsWord(pregs[n], range, pmatch)
      BY <1>1 DEF IInv, AnswerInv
    <3>2. Excerpt(pmatch'.soffset, pmatch'.eoffset) \in pregs[n].words
      BY <1>8, <3>1 DEF IsWord
    <3> QED
      BY <1>8, <3>2
  <2>2. AnswersAsOriginal'
    <3>1. MHeur = "MHEUR_SINGLE" /\ Exact(pregs[1]) => IsExact(pregs[1], range, ret, pmatch)
      BY <1>1 DEF IInv, AnswerInv
    <3>2. MHeur = "MHEUR_SINGLE" /\ Exact(pregs[1]) =>
            IF MatchesIn(pregs[1], range) = {} THEN ret' = "REG_NOMATCH"
            ELSE ret' = "REG_OK" /\ pmatch' = Moved(Original(pregs[1], range), range.from)
      BY <1>1, <3>1 DEF IsExact
    <3>3. \A m, d : Moved(m, d)' = Moved(m, d)
      BY DEF Moved
    <3> QED
      BY <1>2, <1>5, <3>2, <3>3 DEF AnswersAsOriginal
  <2>3. NoSubIsExact'
    BY <1>1, <1>2, <1>5 DEF NoSubIsExact, IInv, AnswerInv, AnyMatches
  <2> QED
    BY <1>1, <1>6, <2>1, <2>2, <2>3 DEF DoneInv
<1> QED
  BY <1>9, <1>10, <1>11, <1>12, <1>13 DEF IInv

(* A word of a text, as an answer for the range the text ends. *)
LEMMA WordIsAnswer ==
  ASSUME whole \in Seq(Char), NEW p, NEW t, Within(t), NEW m, IsWord(p, t, m)
  PROVE  m \in [soffset : 0 .. Length(t), eoffset : 0 .. Length(t)]
BY DEF IsWord

LEMMA AllLiteralKeepsIInv ==
  ASSUME IInv, AllLiteral
  PROVE  IInv'
<1>1. /\ pc = "MHEUR_LITERAL" /\ pc' = "rebase" /\ UNCHANGED <<caller, multi, curr, sub, hglob>>
      /\ IF CandidatesIn(text) = {} THEN ret' = "REG_NOMATCH" /\ pmatch' = pmatch
         ELSE /\ ret' = "REG_OK"
              /\ pmatch' = Occurrence(pregs[FirstCandidate(text).id].lit, FirstCandidate(text).soffset)
  BY DEF AllLiteral, Answer
<1>2. Started /\ ~ EmptyRange
  BY <1>1, InCallIsStarted DEF IInv
<1>3. MHeur = "MHEUR_LITERAL" /\ text = range /\ Within(text)
  BY <1>1, <1>2 DEF IInv, TextInv
<1>4. /\ whole \in Seq(Char) /\ pregs \in Seq(Preg) /\ Length(text) \in Nat
      /\ \A n \in DOMAIN pregs : pregs[n] \in Preg /\ KeepsPromise(pregs[n], Newline)
  BY <1>3, PregFacts, WithinTypes DEF IInv
<1>5. ASSUME CandidatesIn(text) # {}
      PROVE  ret' = "REG_OK" /\ \E n \in DOMAIN pregs : IsWord(pregs[n], text, pmatch')
  <2> DEFINE c == FirstCandidate(text)
             p == pregs[c.id]
             s == c.soffset
  <2>1. c \in CandidatesIn(text)
    BY <1>3, <1>4, <1>5, FirstCandidateExists
  <2>2. c.id \in DOMAIN pregs /\ s \in PlacesOf(p.lit, text)
    BY <2>1 DEF CandidatesIn
  <2>3. p \in Preg /\ KeepsPromise(p, Newline) /\ p.kind = "literal"
    BY <1>3, <1>4, <2>2 DEF MHeur
  <2>4. pmatch' = Occurrence(p.lit, s) /\ ret' = "REG_OK"
    BY <1>1, <1>5
  <2> HIDE DEF c, p, s
  <2>5. p.lit \in Seq(Char) /\ p.words = {p.lit} /\ Len(p.lit) \in Nat
    BY <2>3 DEF Preg, KeepsPromise
  <2>6. s \in Nat /\ s + Len(p.lit) <= Length(text) /\ Excerpt(text.from + s, text.from + s + Len(p.lit)) = p.lit
    BY <1>3, <1>4, <2>2, <2>5, PlacesAre DEF p, s
  <2>7. pmatch'.soffset = s /\ pmatch'.eoffset = s + Len(p.lit)
        /\ pmatch' \in [soffset : 0 .. Length(text), eoffset : 0 .. Length(text)]
    BY <1>4, <2>4, <2>5, <2>6 DEF Occurrence
  <2>8. text.from + pmatch'.eoffset = text.from + s + Len(p.lit) /\ pmatch'.soffset <= pmatch'.eoffset
    <3>1. text.from \in Nat
      BY <1>3, <1>4, WithinTypes
    <3> QED
      BY <2>5, <2>6, <2>7, <3>1
  <2>9. IsWord(p, text, pmatch')
    BY <2>5, <2>6, <2>7, <2>8 DEF IsWord
  <2> QED
    BY <2>2, <2>4, <2>9 DEF p
<1>6. ret' = "REG_OK" => \E n \in DOMAIN pregs : IsWord(pregs[n], range, pmatch')
  BY <1>1, <1>3, <1>5
<1>7. ret' = "REG_OK" => pmatch' \in [soffset : 0 .. Length(range), eoffset : 0 .. Length(range)]
  BY <1>3, <1>4, <1>6, WordIsAnswer
<1>8. ret' \in {"REG_OK", "REG_NOMATCH"} /\ (ret' # "REG_OK" => pmatch' = pmatch)
  BY <1>1
<1> QED
  BY <1>1, <1>2, <1>3, <1>6, <1>7, <1>8, AnswerKeepsIInv

LEMMA NothingFoundKeepsIInv ==
  ASSUME IInv, NoCandidateLeft \/ TextOver \/ NothingMatched
  PROVE  IInv'
<1>1. /\ pc \in {"MHEUR_LONGEST", "MHEUR_NONE"} /\ pc' = "rebase"
      /\ UNCHANGED <<caller, multi, curr, sub, hglob, pmatch>>
  BY DEF NoCandidateLeft, TextOver, NothingMatched, Answer
<1>2. Started /\ ~ EmptyRange
  BY <1>1, InCallIsStarted DEF IInv
<1>3. MHeur # "MHEUR_SINGLE"
  BY <1>1, <1>2 DEF IInv, TextInv
<1>4. ret' = "REG_NOMATCH"
  BY <1>2 DEF NoCandidateLeft, TextOver, NothingMatched, Answer, IInv, TextInv
<1>5. MHeur = "MHEUR_NONE" /\ nosub /\ (\A n \in DOMAIN pregs : Exact(pregs[n])) => ~ AnyMatches
  <2> SUFFICES ASSUME MHeur = "MHEUR_NONE", nosub, \A n \in DOMAIN pregs : Exact(pregs[n]) PROVE ~ AnyMatches
    OBVIOUS
  <2>1. pc = "MHEUR_NONE" /\ i > Len(pregs)
    BY <1>2 DEF NoCandidateLeft, TextOver, NothingMatched, IInv, TextInv
  <2>2. \A n \in 1 .. i - 1 : Exact(pregs[n]) => MatchesIn(pregs[n], range) = {}
    BY <2>1 DEF IInv, NoneInv
  <2>3. DOMAIN pregs = 1 .. Len(pregs) /\ Len(pregs) \in Nat /\ i \in 1 .. Len(pregs) + 1
    BY PregFacts DEF IInv, TypeOK
  <2>4. DOMAIN pregs \subseteq 1 .. i - 1
    BY <2>1, <2>3
  <2> QED
    BY <2>2, <2>4 DEF AnyMatches
<1> QED
  BY <1>1, <1>2, <1>3, <1>4, <1>5, AnswerKeepsIInv

LEMMA ReturnedAnswersKeepIInv ==
  ASSUME IInv, SingleReturned \/ FirstReturned \/ (NoSubReturned /\ ret = "REG_OK")
  PROVE  IInv'
<1>1. /\ pc = "returned" /\ pc' = "rebase" /\ InCall
      /\ UNCHANGED <<caller, multi, curr, sub, hglob, pmatch, ret>>
      /\ MHeur \in {"MHEUR_SINGLE", "MHEUR_NONE"}
  BY DEF SingleReturned, FirstReturned, NoSubReturned, InCall, multi
<1>2. Started /\ ~ EmptyRange
  BY <1>1, InCallIsStarted DEF IInv
<1>3. text = range /\ Within(text) /\ whole \in Seq(Char) /\ Length(text) \in Nat
  BY <1>1, <1>2, PregFacts, WithinTypes DEF IInv, TextInv
<1>4. /\ ret \in {"REG_OK", "REG_NOMATCH"} /\ Within(Base)
      /\ ret = "REG_OK" => IsWord(preg, Base, pmatch)
      /\ Exact(preg) => IsExact(preg, Base, ret, pmatch)
  BY <1>1 DEF IInv, CallInv
<1>5. /\ Len(pregs) \in Nat /\ DOMAIN pregs = 1 .. Len(pregs) /\ curr \in DOMAIN pregs /\ i \in 1 .. Len(pregs) + 1
  BY PregFacts DEF IInv, TypeOK
<1>6. CASE Base = text
  <2>1. ret = "REG_OK" => IsWord(preg, range, pmatch)
    BY <1>3, <1>4, <1>6
  <2>2. ret = "REG_OK" => pmatch \in [soffset : 0 .. Length(range), eoffset : 0 .. Length(range)]
    BY <1>3, <2>1, WordIsAnswer
  <2>3. MHeur = "MHEUR_SINGLE" /\ Exact(pregs[1]) => IsExact(pregs[1], range, ret, pmatch)
    BY <1>1, <1>2, <1>3, <1>4, <1>6 DEF IInv, TextInv, preg
  <2>4. MHeur = "MHEUR_NONE" /\ nosub /\ (\A n \in DOMAIN pregs : Exact(pregs[n])) => (ret = "REG_OK" <=> AnyMatches)
    <3> SUFFICES ASSUME MHeur = "MHEUR_NONE", nosub, \A n \in DOMAIN pregs : Exact(pregs[n])
                 PROVE  ret = "REG_OK" <=> AnyMatches
      OBVIOUS
    <3>1. ret = "REG_OK"
      BY DEF SingleReturned, FirstReturned
    <3>2. Exact(preg)
      BY <1>5 DEF preg
    <3>3. MatchesIn(preg, range) # {}
      BY <1>3, <1>4, <1>6, <3>1, <3>2 DEF IsExact
    <3> QED
      BY <1>5, <3>1, <3>3 DEF AnyMatches, preg
  <2>5. ret = "REG_OK" => \E n \in DOMAIN pregs : IsWord(pregs[n], range, pmatch)
    BY <1>5, <2>1 DEF preg
  <2>6. ret' = ret /\ pmatch' = pmatch
    BY <1>1
  <2> QED
    BY <1>1, <1>2, <1>4, <2>2, <2>3, <2>4, <2>5, <2>6, AnswerKeepsIInv
<1>7. CASE Base # text
  <2>1. MHeur = "MHEUR_NONE" /\ i > Len(pregs)
    BY <1>1, <1>7 DEF Base
  <2> DEFINE m == matches[First]
  <2>2. ~ nosub /\ Matched # {} /\ matches \in Seq([soffset : Int, eoffset : Int])
        /\ \A n \in Matched : IsWord(pregs[n], text, matches[n])
    BY <1>1, <2>1 DEF IInv, NoneInv
  <2>3. \A n \in Matched : matches[n].soffset \in Nat
    BY <1>3, <2>2, WordTypes
  <2>4. First \in Matched
    BY <2>2, <2>3, FirstExists
  <2>5. IsWord(pregs[First], text, m)
    BY <2>2, <2>4
  <2>6. Base = Between(text.from + m.soffset, text.from + m.eoffset)
    BY <2>1 DEF Base
  <2> HIDE DEF m
  <2>7. /\ m.soffset \in Nat /\ m.eoffset \in Nat /\ m.soffset <= m.eoffset /\ m.eoffset <= Length(text)
        /\ text.from \in Nat
    BY <1>3, <2>5, WordTypes, WithinTypes
  <2>8. Length(Base) = m.eoffset - m.soffset
    BY <2>6, <2>7 DEF Length, Between
  <2>9. ret = "REG_OK" => pmatch \in [soffset : 0 .. Length(range), eoffset : 0 .. Length(range)]
    <3>1. ret = "REG_OK" => pmatch \in [soffset : 0 .. Length(Base), eoffset : 0 .. Length(Base)]
      BY <1>3, <1>4, WordIsAnswer
    <3>2. Length(Base) \in Nat /\ Length(Base) <= Length(range)
      BY <1>3, <2>7, <2>8
    <3>3. 0 .. Length(Base) \subseteq 0 .. Length(range)
      BY <1>3, <3>2
    <3> QED
      BY <3>1, <3>3
  <2>10. ret' = ret /\ pmatch' = pmatch
    BY <1>1
  <2> QED
    BY <1>1, <1>2, <1>4, <2>1, <2>2, <2>9, <2>10, AnswerKeepsIInv
<1> QED
  BY <1>6, <1>7

LEMMA LongestHitKeepsIInv ==
  ASSUME IInv, LongestHit
  PROVE  IInv'
<1>1. /\ pc = "returned" /\ pc' = "rebase" /\ InCall /\ MHeur = "MHEUR_LONGEST"
      /\ UNCHANGED <<caller, multi, curr, sub, hglob>>
      /\ ret = "REG_OK" /\ ret' = "REG_OK" /\ pmatch' = Moved(pmatch, glob + start)
  BY DEF LongestHit, Answer, InCall
<1>2. Started /\ ~ EmptyRange
  BY <1>1, InCallIsStarted DEF IInv
<1>3. /\ whole \in Seq(Char) /\ Within(text) /\ Within(Base) /\ Within(range) /\ IsWord(preg, Base, pmatch)
      /\ text.to = range.to /\ text.from = range.from + glob /\ start <= end /\ end <= Length(text)
      /\ curr \in DOMAIN pregs /\ glob \in Nat /\ start \in Nat /\ end \in Nat
  BY <1>1, <1>2, PregFacts, RangeIs DEF IInv, TextInv, CallInv, TypeOK
<1>4. Base.from = text.from + start /\ Base.to = text.from + end
  BY <1>1 DEF Base, Between
<1> DEFINE d == glob + start
<1>5. d \in Nat /\ Base.from = range.from + d /\ Base.to <= range.to
  <2> DEFINE rf == range.from
             rt == range.to
             tf == text.from
  <2>1. /\ rf \in Nat /\ rt \in Nat /\ tf \in Nat /\ tf = rf + glob /\ end <= rt - tf
        /\ Base.from = tf + start /\ Base.to = tf + end
    BY <1>3, <1>4, WithinTypes
  <2> HIDE DEF rf, rt, tf
  <2>2. d \in Nat /\ tf + start = rf + d /\ tf + end <= rt
    BY <1>3, <2>1
  <2> QED
    BY <2>1, <2>2 DEF rf, rt
<1> HIDE DEF d
<1>6. IsWord(preg, range, Moved(pmatch, d))
  BY <1>3, <1>5, WordInSection
<1>7. IsWord(preg, range, pmatch') /\ pmatch' \in [soffset : 0 .. Length(range), eoffset : 0 .. Length(range)]
  BY <1>1, <1>3, <1>6, WordIsAnswer DEF d
<1>8. \E n \in DOMAIN pregs : IsWord(pregs[n], range, pmatch')
  BY <1>3, <1>7 DEF preg
<1> QED
  BY <1>1, <1>2, <1>7, <1>8, AnswerKeepsIInv
-----------------------------------------------------------------------------
(* frec_mmatch: its loops *)

(* A call keeps the invariant if the text it is given is not empty when        *)
(* sections are going to be cut out of it.                                  *)
LEMMA CandidateSectionKeepsIInv ==
  ASSUME IInv, CandidateSection
  PROVE  IInv'
<1> DEFINE c == FirstCandidate(text)
           p == pregs[c.id]
<1>1. /\ pc = "MHEUR_LONGEST" /\ CandidatesIn(text) # {}
      /\ start' = (IF p.kind = "literal" THEN c.soffset ELSE SectionStart(p, text, c.soffset))
      /\ end' = (IF p.kind = "literal" THEN c.soffset + Len(p.lit) ELSE SectionEnd(p, text, c.soffset))
      /\ pc' = "frec_match" /\ curr' = c.id /\ sub' = Between(text.from + start', text.from + end')
      /\ hglob' = 0
      /\ UNCHANGED <<caller, text, glob, i, matches, pmatch, ret>>
  BY DEF CandidateSection, Call
<1>2. UNCHANGED <<pregs, nosub, whole, range>>
  BY <1>1 DEF caller
<1>3. Started /\ ~ EmptyRange
  BY <1>1, InCallIsStarted DEF IInv
<1>4. /\ MHeur = "MHEUR_LONGEST" /\ Within(text) /\ whole \in Seq(Char) /\ pregs \in Seq(Preg)
      /\ Len(whole) \in Nat
      /\ \A n \in DOMAIN pregs : pregs[n] \in Preg /\ KeepsPromise(pregs[n], Newline)
  BY <1>1, <1>3, PregFacts DEF IInv, TextInv
<1>5. c \in CandidatesIn(text)
  BY <1>1, <1>4, FirstCandidateExists
<1>6. c.id \in DOMAIN pregs /\ c.soffset \in PlacesOf(p.lit, text)
  BY <1>5 DEF CandidatesIn
<1>7. p \in Preg /\ KeepsPromise(p, Newline) /\ p.lit \in Seq(Char) /\ Len(p.lit) \in Nat
  BY <1>4, <1>6 DEF Preg
<1> HIDE DEF c
<1>8. c.soffset \in Nat /\ c.soffset + Len(p.lit) <= Length(text) /\ Length(text) \in Nat
  BY <1>4, <1>6, <1>7, PlacesAre, WithinTypes
<1>9. /\ start' \in Nat /\ end' \in Nat /\ start' <= end' /\ end' <= Length(text)
      /\ p.kind = "longest" => start' < end'
  <2>1. CASE p.kind = "literal"
    BY <1>1, <1>7, <1>8, <2>1
  <2>2. CASE p.kind # "literal"
    <3> p.kind \in {"longest", "prefix"}
      BY <1>4, <1>6, <1>7, <2>2 DEF MHeur, Preg
    <3>1. /\ SectionStart(p, text, c.soffset) \in 0 .. c.soffset
          /\ SectionEnd(p, text, c.soffset) \in c.soffset + Len(p.lit) .. Length(text)
          /\ Len(p.lit) > 0
      BY <1>4, <1>6, <1>7, <2>2, SectionBounds
    <3>2. start' = SectionStart(p, text, c.soffset) /\ end' = SectionEnd(p, text, c.soffset)
      BY <1>1, <2>2
    <3> QED
      BY <1>7, <1>8, <3>1, <3>2
  <2> QED
    BY <2>1, <2>2
<1>10. /\ MHeur' = MHeur /\ (EmptyRange' <=> EmptyRange)
       /\ \A t : Within(t)' <=> Within(t)
  BY <1>2, SameText DEF MHeur, EmptyRange
<1>11. /\ Within(sub') /\ Base' = sub' /\ start' \in 0 .. Len(whole) /\ end' \in 0 .. Len(whole)
       /\ p.kind = "longest" => Length(sub') > 0
  <2> DEFINE tf == text.from
             tt == text.to
             b == tf + start'
             e == tf + end'
  <2>1. tf \in Nat /\ tt \in Nat /\ tt <= Len(whole) /\ Length(text) = tt - tf /\ sub' = Between(b, e)
    BY <1>1, <1>4, WithinTypes
  <2>2. Base' = Between(b, e)
    BY <1>1, <1>4, <1>10 DEF Base
  <2> HIDE DEF tf, tt
  <2>3. b \in Nat /\ e \in Nat /\ b <= e /\ e <= Len(whole) /\ (p.kind = "longest" => b < e)
        /\ start' \in 0 .. Len(whole) /\ end' \in 0 .. Len(whole)
    BY <1>4, <1>8, <1>9, <2>1, SMTT(30)
  <2> HIDE DEF b, e
  <2>4. Within(sub') /\ Length(sub') = e - b
    BY <1>4, <2>1, <2>3, BetweenIsWithin DEF Between, Length
  <2> QED
    BY <2>1, <2>2, <2>3, <2>4
<1>12. TypeOK'
  <2>1. text \in Interval
    BY <1>4 DEF Within
  <2>2. Offsets' = Offsets /\ Interval' = Interval
    BY <1>2 DEF Offsets, Interval
  <2>3. sub' \in Interval /\ 0 \in 0 .. Len(whole)
    BY <1>4, <1>11 DEF Within
  <2> QED
    BY <1>1, <1>2, <1>6, <1>11, <2>1, <2>2, <2>3 DEF IInv, TypeOK
<1>13. CallerInv'
  BY <1>1, <1>2, <1>3, <1>10 DEF IInv, CallerInv
<1>14. TextInv'
  <2>1. Length(text)' = Length(text) /\ text' = text
    BY <1>1 DEF Length
  <2> QED
    BY <1>1, <1>2, <1>3, <1>4, <1>9, <1>10, <2>1 DEF IInv, TextInv, InCall, Started
<1>15. CallInv'
  <2>1. preg' = p
    BY <1>1, <1>2 DEF preg
  <2>2. Length(Base)' = Length(sub')
    BY <1>11 DEF Length
  <2> QED
    BY <1>1, <1>10, <1>11, <2>1, <2>2 DEF CallInv
<1>16. NoneInv' /\ AnswerInv' /\ DoneInv'
  BY <1>1, <1>4, <1>10 DEF NoneInv, AnswerInv, DoneInv
<1> QED
  BY <1>12, <1>13, <1>14, <1>15, <1>16 DEF IInv

LEMMA LongestMissKeepsIInv ==
  ASSUME IInv, LongestMiss
  PROVE  IInv'
<1>1. /\ pc = "returned" /\ pc' = "MHEUR_LONGEST" /\ MHeur = "MHEUR_LONGEST" /\ ret # "REG_OK" /\ InCall
      /\ text' = [text EXCEPT !.from = @ + end] /\ glob' = glob + end
      /\ UNCHANGED <<caller, start, end, i, matches, curr, sub, hglob, pmatch, ret>>
  BY DEF LongestMiss, InCall
<1>2. UNCHANGED <<pregs, nosub, whole, range>>
  BY <1>1 DEF caller
<1>3. Started /\ ~ EmptyRange /\ pc # "execute_match"
  BY <1>1, InCallIsStarted DEF IInv
<1>4. /\ whole \in Seq(Char) /\ Len(whole) \in Nat /\ Within(text) /\ Within(sub)
      /\ text.to = range.to /\ text.from = range.from + glob
      /\ end <= Length(text) /\ end \in Nat /\ glob \in Nat /\ range.from \in Nat
      /\ ret = "REG_NOMATCH"
  BY <1>1, <1>3, PregFacts, RangeIs DEF IInv, TextInv, CallInv, TypeOK
<1>5. /\ MHeur' = MHeur /\ (EmptyRange' <=> EmptyRange)
      /\ \A t : Within(t)' <=> Within(t)
  BY <1>2, SameText DEF MHeur, EmptyRange
<1>6. Within(text') /\ text'.to = range.to /\ text'.from = range.from + glob' /\ glob' \in 0 .. Len(whole)
  <2> DEFINE tf == text.from
             tt == text.to
             rf == range.from
             f == tf + end
  <2>1. tf \in Nat /\ tt \in Nat /\ tt <= Len(whole) /\ Length(text) = tt - tf /\ text = Between(tf, tt)
    BY <1>4, WithinTypes
  <2>2. text' = Between(f, tt)
    BY <1>1, <2>1 DEF Between
  <2> HIDE DEF tf, tt, rf
  <2>3. tf = rf + glob /\ rf \in Nat
    BY <1>4 DEF tf, rf
  <2>4. f \in Nat /\ f <= tt /\ f = rf + (glob + end) /\ glob + end \in 0 .. Len(whole)
    BY <1>4, <2>1, <2>3
  <2> HIDE DEF f
  <2>5. Within(text') /\ text'.from = f /\ text'.to = tt
    BY <1>4, <2>1, <2>2, <2>4, BetweenIsWithin
  <2> QED
    BY <1>1, <1>4, <2>4, <2>5 DEF tt, rf
<1>7. TypeOK'
  <2>1. text' \in Interval /\ sub \in Interval
    BY <1>4, <1>6 DEF Within
  <2>2. Offsets' = Offsets /\ Interval' = Interval
    BY <1>2 DEF Offsets, Interval
  <2> QED
    BY <1>1, <1>2, <1>6, <2>1, <2>2 DEF IInv, TypeOK
<1>8. CallerInv'
  BY <1>1, <1>2, <1>3, <1>5 DEF IInv, CallerInv
<1>9. TextInv'
  BY <1>1, <1>2, <1>4, <1>5, <1>6 DEF TextInv, InCall, Started
<1>10. CallInv' /\ NoneInv' /\ AnswerInv' /\ DoneInv'
  BY <1>1, <1>5 DEF CallInv, NoneInv, AnswerInv, DoneInv, InCall
<1> QED
  BY <1>7, <1>8, <1>9, <1>10 DEF IInv

(* The facts of frec_mmatch's last way that its steps share. *)
LEMMA NoneFacts ==
  ASSUME IInv, MHeur = "MHEUR_NONE", InCall \/ pc = "MHEUR_NONE"
  PROVE  /\ Started /\ ~ EmptyRange /\ pc # "execute_match"
         /\ text = range /\ Within(text) /\ text.to = range.to /\ text.from = range.from + glob
         /\ text \in Interval /\ sub \in Interval
         /\ whole \in Seq(Char) /\ Len(whole) \in Nat /\ Length(range) \in Nat /\ Length(range) > 0
         /\ pregs \in Seq(Preg) /\ Len(pregs) \in Nat /\ DOMAIN pregs = 1 .. Len(pregs)
         /\ \A n \in DOMAIN pregs : pregs[n] \in Preg /\ KeepsPromise(pregs[n], Newline)
         /\ i \in 1 .. Len(pregs) + 1
         /\ matches \in Seq([soffset : Int, eoffset : Int]) /\ \A n \in DOMAIN matches : matches[n] \in Offsets
         /\ IF nosub THEN matches = <<>> ELSE Len(matches) = i - 1
         /\ \A n \in Matched : IsWord(pregs[n], text, matches[n])
<1>1. Started /\ ~ EmptyRange /\ pc # "execute_match"
  BY InCallIsStarted DEF IInv, InCall
<1>2. text = range /\ Within(text) /\ text.to = range.to /\ text.from = range.from + glob
  BY <1>1 DEF IInv, TextInv
<1>3. text \in Interval /\ sub \in Interval
  BY <1>1 DEF IInv, TypeOK
<1> QED
  BY <1>1, <1>2, <1>3, PregFacts, RangeIs DEF IInv, TypeOK, NoneInv

LEMMA NextPatternKeepsIInv ==
  ASSUME IInv, NextPattern
  PROVE  IInv'
<1>1. /\ pc = "MHEUR_NONE" /\ pc' = "frec_match" /\ i <= Len(pregs)
      /\ curr' = i /\ sub' = text /\ hglob' = 0 /\ UNCHANGED <<caller, multi, pmatch, ret>>
      /\ InCall'
  BY DEF NextPattern, Call, InCall
<1>2. MHeur = "MHEUR_NONE"
  BY <1>1, InCallIsStarted DEF IInv, TextInv
<1>3. /\ UNCHANGED <<pregs, nosub, whole, range, text, glob, start, end, i, matches>>
      /\ MHeur' = MHeur /\ (EmptyRange' <=> EmptyRange) /\ Matched' = Matched /\ First' = First /\ Base' = Base
  BY <1>1, SameCall
<1>4. /\ \A t : Within(t)' <=> Within(t)
      /\ \A p, t, m : IsWord(p, t, m)' <=> IsWord(p, t, m)
      /\ \A p, t : MatchesIn(p, t)' = MatchesIn(p, t)
      /\ \A p : Exact(p)' <=> Exact(p)
  BY <1>3, SameText DEF Exact
<1>5. TypeOK'
  <2>1. Offsets' = Offsets /\ Interval' = Interval
    BY <1>3 DEF Offsets, Interval
  <2>2. curr' \in DOMAIN pregs /\ sub' \in Interval /\ hglob' \in 0 .. Len(whole) /\ text \in Interval
    BY <1>1, <1>2, NoneFacts
  <2> QED
    BY <1>1, <1>3, <2>1, <2>2 DEF IInv, TypeOK
<1>6. CallerInv'
  BY <1>1, <1>2, <1>3, NoneFacts DEF IInv, CallerInv
<1>7. TextInv'
  BY <1>1, <1>2, <1>3, <1>4, NoneFacts DEF TextInv, InCall
<1>8. CallInv'
  <2>1. Base = text /\ Length(Base)' = Length(range) /\ Length(range) > 0 /\ Within(text)
    BY <1>1, <1>2, <1>3, NoneFacts DEF Base, Length
  <2> QED
    BY <1>1, <1>3, <1>4, <2>1 DEF CallInv
<1>9. NoneInv'
  <2>1. /\ matches \in Seq([soffset : Int, eoffset : Int])
        /\ IF nosub THEN matches = <<>> ELSE Len(matches) = i - 1
        /\ \A n \in Matched : IsWord(pregs[n], text, matches[n])
    BY <1>1, <1>2, NoneFacts
  <2>2. nosub => \A n \in 1 .. i - 1 : Exact(pregs[n]) => MatchesIn(pregs[n], range) = {}
    BY <1>1, <1>2 DEF IInv, NoneInv
  <2>3. ~ (i > Len(pregs))
    BY <1>1, <1>2, NoneFacts
  <2> QED
    BY <1>1, <1>3, <1>4, <2>1, <2>2, <2>3 DEF NoneInv
<1>10. AnswerInv' /\ DoneInv'
  BY <1>1 DEF AnswerInv, DoneInv
<1> QED
  BY <1>5, <1>6, <1>7, <1>8, <1>9, <1>10 DEF IInv

(* The text of a pattern that was tried is the whole part to search. *)
LEMMA TriedPattern ==
  ASSUME IInv, MHeur = "MHEUR_NONE", pc = "returned", i <= Len(pregs)
  PROVE  /\ curr = i /\ Base = range
         /\ ret \in {"REG_OK", "REG_NOMATCH"}
         /\ ret = "REG_OK" => IsWord(pregs[i], text, pmatch)
         /\ Exact(pregs[i]) => IsExact(pregs[i], range, ret, pmatch)
<1>1. InCall /\ ~ (i > Len(pregs)) /\ text = range
  BY NoneFacts DEF InCall
<1>2. curr = i /\ Base = range
  BY <1>1 DEF IInv, NoneInv, Base
<1> QED
  BY <1>1, <1>2 DEF IInv, CallInv, preg

LEMMA NoSubMissKeepsIInv ==
  ASSUME IInv, NoSubReturned, ret # "REG_OK"
  PROVE  IInv'
<1>1. /\ pc = "returned" /\ pc' = "MHEUR_NONE" /\ MHeur = "MHEUR_NONE" /\ nosub /\ i' = i + 1
      /\ UNCHANGED <<caller, text, glob, start, end, matches, curr, sub, hglob, pmatch, ret>>
      /\ InCall /\ ~ InCall'
  BY DEF NoSubReturned, InCall
<1>2. UNCHANGED <<pregs, nosub, whole, range>>
  BY <1>1 DEF caller
<1>3. i <= Len(pregs)
  <2>1. i \in 1 .. Len(pregs) + 1 /\ Len(pregs) \in Nat /\ (i > Len(pregs) => ~ nosub)
    BY <1>1, NoneFacts DEF IInv, NoneInv
  <2> QED
    BY <1>1, <2>1
<1>4. ret = "REG_NOMATCH" /\ (Exact(pregs[i]) => MatchesIn(pregs[i], range) = {})
  BY <1>1, <1>3, TriedPattern DEF IsExact
<1>5. /\ MHeur' = MHeur /\ (EmptyRange' <=> EmptyRange) /\ Matched' = Matched
      /\ \A t : Within(t)' <=> Within(t)
      /\ \A p, t, m : IsWord(p, t, m)' <=> IsWord(p, t, m)
      /\ \A p, t : MatchesIn(p, t)' = MatchesIn(p, t)
      /\ \A p : Exact(p)' <=> Exact(p)
  BY <1>1, <1>2, SameText DEF MHeur, EmptyRange, Matched, Exact
<1>6. TypeOK'
  <2>1. Offsets' = Offsets /\ Interval' = Interval
    BY <1>2 DEF Offsets, Interval
  <2>2. i' \in 1 .. Len(pregs) + 1 /\ text \in Interval /\ sub \in Interval
    BY <1>1, <1>3, NoneFacts
  <2> QED
    BY <1>1, <1>2, <2>1, <2>2 DEF IInv, TypeOK
<1>7. CallerInv'
  BY <1>1, <1>2, <1>5, NoneFacts DEF IInv, CallerInv
<1>8. TextInv'
  BY <1>1, <1>2, <1>5, NoneFacts DEF TextInv
<1>9. NoneInv'
  <2>1. /\ matches \in Seq([soffset : Int, eoffset : Int]) /\ matches = <<>>
        /\ \A n \in Matched : IsWord(pregs[n], text, matches[n])
    BY <1>1, NoneFacts
  <2>2. \A n \in 1 .. i - 1 : Exact(pregs[n]) => MatchesIn(pregs[n], range) = {}
    BY <1>1 DEF IInv, NoneInv
  <2>3. \A n \in 1 .. i' - 1 : n = i \/ n \in 1 .. i - 1
    BY <1>1, NoneFacts
  <2> QED
    BY <1>1, <1>2, <1>4, <1>5, <2>1, <2>2, <2>3 DEF NoneInv
<1>10. CallInv' /\ AnswerInv' /\ DoneInv'
  BY <1>1 DEF CallInv, AnswerInv, DoneInv
<1> QED
  BY <1>6, <1>7, <1>8, <1>9, <1>10 DEF IInv

LEMMA PatternReturnedKeepsIInv ==
  ASSUME IInv, PatternReturned
  PROVE  IInv'
<1> DEFINE new == IF ret = "REG_OK" THEN pmatch ELSE NoMatch
<1>1. /\ pc = "returned" /\ pc' = "MHEUR_NONE" /\ MHeur = "MHEUR_NONE" /\ ~ nosub /\ i' = i + 1
      /\ i <= Len(pregs) /\ matches' = Append(matches, new)
      /\ UNCHANGED <<caller, text, glob, start, end, curr, sub, hglob, pmatch, ret>>
      /\ InCall /\ ~ InCall'
  BY DEF PatternReturned, InCall
<1>2. UNCHANGED <<pregs, nosub, whole, range>>
  BY <1>1 DEF caller
<1>3. ret \in {"REG_OK", "REG_NOMATCH"} /\ (ret = "REG_OK" => IsWord(pregs[i], text, pmatch))
  BY <1>1, TriedPattern
<1>4. /\ MHeur' = MHeur /\ (EmptyRange' <=> EmptyRange)
      /\ \A t : Within(t)' <=> Within(t)
      /\ \A p, t, m : IsWord(p, t, m)' <=> IsWord(p, t, m)
      /\ \A p : Exact(p)' <=> Exact(p)
  BY <1>1, <1>2, SameText DEF MHeur, EmptyRange, Exact
<1>5. /\ matches \in Seq([soffset : Int, eoffset : Int]) /\ Len(matches) = i - 1
      /\ \A n \in DOMAIN matches : matches[n] \in Offsets
      /\ \A n \in Matched : IsWord(pregs[n], text, matches[n])
      /\ i \in Nat /\ Len(whole) \in Nat
  BY <1>1, NoneFacts
<1>6. new \in Offsets /\ new \in [soffset : Int, eoffset : Int]
      /\ (new.soffset # -1 => IsWord(pregs[i], text, new))
  <2>1. pmatch \in Offsets /\ NoMatch \in Offsets /\ NoMatch.soffset = -1
    BY <1>5 DEF IInv, TypeOK, NoMatch, Offsets
  <2> QED
    BY <1>3, <1>5, <2>1 DEF Offsets
<1> HIDE DEF new
<1>7. /\ matches' \in Seq([soffset : Int, eoffset : Int]) /\ Len(matches') = i
      /\ DOMAIN matches' = 1 .. i
      /\ \A n \in 1 .. i - 1 : n \in DOMAIN matches /\ matches'[n] = matches[n]
      /\ matches'[i] = new
  BY <1>1, <1>5, <1>6
<1>8. \A n \in Matched' : IsWord(pregs[n], text, matches'[n])
  <2> TAKE n \in Matched'
  <2>1. n \in 1 .. i /\ matches'[n].soffset # -1
    BY <1>7 DEF Matched
  <2>2. CASE n = i
    BY <1>6, <1>7, <2>1, <2>2
  <2>3. CASE n # i
    <3>1. n \in 1 .. i - 1
      BY <1>5, <2>1, <2>3
    <3>2. n \in Matched /\ matches'[n] = matches[n]
      BY <1>7, <2>1, <3>1 DEF Matched
    <3> QED
      BY <1>5, <3>2
  <2> QED
    BY <2>2, <2>3
<1>9. TypeOK'
  <2>1. Offsets' = Offsets /\ Interval' = Interval
    BY <1>2 DEF Offsets, Interval
  <2>2. i' \in 1 .. Len(pregs) + 1 /\ text \in Interval /\ sub \in Interval
    BY <1>1, NoneFacts
  <2>3. \A n \in DOMAIN matches' : matches'[n] \in Offsets
    <3> TAKE n \in DOMAIN matches'
    <3>1. n = i \/ n \in 1 .. i - 1
      BY <1>5, <1>7
    <3> QED
      BY <1>5, <1>6, <1>7, <3>1
  <2> QED
    BY <1>1, <1>2, <2>1, <2>2, <2>3 DEF IInv, TypeOK
<1>10. CallerInv'
  BY <1>1, <1>2, <1>4, NoneFacts DEF IInv, CallerInv
<1>11. TextInv'
  BY <1>1, <1>2, <1>4, NoneFacts DEF TextInv
<1>12. NoneInv'
  <2>1. i' - 1 = i
    BY <1>1, <1>5
  <2> QED
    BY <1>1, <1>2, <1>4, <1>7, <1>8, <2>1 DEF NoneInv
<1>13. CallInv' /\ AnswerInv' /\ DoneInv'
  BY <1>1 DEF CallInv, AnswerInv, DoneInv
<1> QED
  BY <1>9, <1>10, <1>11, <1>12, <1>13 DEF IInv

LEMMA MatchFirstAgainKeepsIInv ==
  ASSUME IInv, MatchFirstAgain
  PROVE  IInv'
<1> DEFINE m == matches[First]
<1>1. /\ pc = "MHEUR_NONE" /\ pc' = "frec_match" /\ i > Len(pregs) /\ Matched # {}
      /\ curr' = First /\ sub' = Between(text.from + m.soffset, text.from + m.eoffset) /\ hglob' = 0
      /\ UNCHANGED <<caller, multi, pmatch, ret>> /\ InCall'
  BY DEF MatchFirstAgain, Call, InCall
<1>2. MHeur = "MHEUR_NONE"
  BY <1>1, InCallIsStarted DEF IInv, TextInv
<1>3. /\ UNCHANGED <<pregs, nosub, whole, range, text, glob, start, end, i, matches>>
      /\ MHeur' = MHeur /\ (EmptyRange' <=> EmptyRange) /\ Matched' = Matched /\ First' = First /\ Base' = Base
  BY <1>1, SameCall
<1>4. /\ \A t : Within(t)' <=> Within(t)
      /\ \A p, t, w : IsWord(p, t, w)' <=> IsWord(p, t, w)
      /\ \A p : Exact(p)' <=> Exact(p)
  BY <1>3, SameText DEF Exact
<1>5. /\ matches \in Seq([soffset : Int, eoffset : Int])
      /\ whole \in Seq(Char) /\ Within(text) /\ DOMAIN pregs = 1 .. Len(pregs)
      /\ \A n \in Matched : IsWord(pregs[n], text, matches[n])
      /\ IF nosub THEN matches = <<>> ELSE Len(matches) = i - 1
      /\ i \in 1 .. Len(pregs) + 1 /\ Len(pregs) \in Nat
      /\ \A n \in DOMAIN pregs : pregs[n] \in Preg /\ KeepsPromise(pregs[n], Newline)
  BY <1>1, <1>2, NoneFacts
<1>6. ~ nosub
  BY <1>1, <1>5 DEF Matched
<1>7. First \in Matched /\ First \in DOMAIN pregs
  <2>1. \A n \in Matched : matches[n].soffset \in Nat
    BY <1>5, WordTypes
  <2>2. First \in Matched
    BY <1>1, <1>5, <2>1, FirstExists
  <2>3. DOMAIN matches = 1 .. i - 1 /\ i - 1 = Len(pregs)
    BY <1>1, <1>5, <1>6
  <2>4. Matched \subseteq DOMAIN pregs
    BY <1>5, <2>3 DEF Matched
  <2> QED
    BY <2>2, <2>4
<1>8. IsWord(pregs[First], text, m)
  BY <1>5, <1>7
<1>9. Base = sub'
  BY <1>1, <1>2 DEF Base
<1> DEFINE p == pregs[First]
           f == text.from + m.soffset
           e == text.from + m.eoffset
<1>10. /\ f \in Nat /\ e \in Nat /\ f <= e /\ e <= Len(whole) /\ sub' = Between(f, e)
       /\ Excerpt(f, e) \in p.words /\ p \in Preg /\ KeepsPromise(p, Newline)
  BY <1>1, <1>5, <1>7, <1>8, WordTypes DEF IsWord
<1> HIDE DEF m, p, f, e
<1>11. Within(sub') /\ Length(sub') = e - f
  BY <1>5, <1>10, BetweenIsWithin
<1>12. ASSUME p.kind = "longest" PROVE Length(sub') > 0
  <2>1. p.lit \in Seq(Char) /\ p.lit # <<>> /\ IsInfix(p.lit, Excerpt(f, e))
    BY <1>10, <1>12 DEF Preg, KeepsPromise
  <2>2. Len(p.lit) > 0 /\ Len(p.lit) \in Nat
    BY <2>1
  <2>3. PICK q \in f .. e - Len(p.lit) : TRUE
    BY <1>5, <1>10, <2>1, InfixPlace
  <2> QED
    BY <1>10, <1>11, <2>2, <2>3
<1>13. TypeOK'
  <2>1. Offsets' = Offsets /\ Interval' = Interval
    BY <1>3 DEF Offsets, Interval
  <2>2. curr' \in DOMAIN pregs /\ sub' \in Interval /\ hglob' \in 0 .. Len(whole) /\ text \in Interval
    BY <1>1, <1>2, <1>7, <1>11, NoneFacts DEF Within
  <2> QED
    BY <1>1, <1>3, <2>1, <2>2 DEF IInv, TypeOK
<1>14. CallerInv'
  BY <1>1, <1>2, <1>3, NoneFacts DEF IInv, CallerInv
<1>15. TextInv'
  BY <1>1, <1>2, <1>3, <1>4, NoneFacts DEF TextInv, InCall
<1>16. CallInv'
  <2>1. preg' = p
    BY <1>1, <1>3 DEF preg, p
  <2>2. Length(Base)' = Length(sub')
    BY <1>3, <1>9 DEF Length
  <2> QED
    BY <1>1, <1>3, <1>4, <1>9, <1>11, <1>12, <2>1, <2>2 DEF CallInv
<1>17. NoneInv'
  BY <1>1, <1>3, <1>4, <1>5, <1>6 DEF NoneInv
<1>18. AnswerInv' /\ DoneInv'
  BY <1>1 DEF AnswerInv, DoneInv
<1> QED
  BY <1>13, <1>14, <1>15, <1>16, <1>17, <1>18 DEF IInv

LEMMA FrecMMatchKeepsIInv ==
  ASSUME IInv, FrecMMatch
  PROVE  IInv'
<1>1. CASE SingleReturned \/ FirstReturned \/ (NoSubReturned /\ ret = "REG_OK")
  BY <1>1, ReturnedAnswersKeepIInv
<1>2. CASE NoCandidateLeft \/ TextOver \/ NothingMatched
  BY <1>2, NothingFoundKeepsIInv
<1>3. CASE AllLiteral
  BY <1>3, AllLiteralKeepsIInv
<1>4. CASE CandidateSection
  BY <1>4, CandidateSectionKeepsIInv
<1>5. CASE LongestHit
  BY <1>5, LongestHitKeepsIInv
<1>6. CASE LongestMiss
  BY <1>6, LongestMissKeepsIInv
<1>7. CASE NextPattern
  BY <1>7, NextPatternKeepsIInv
<1>8. CASE NoSubReturned /\ ret # "REG_OK"
  BY <1>8, NoSubMissKeepsIInv
<1>9. CASE PatternReturned
  BY <1>9, PatternReturnedKeepsIInv
<1>10. CASE MatchFirstAgain
  BY <1>10, MatchFirstAgainKeepsIInv
<1> QED
  BY <1>1, <1>2, <1>3, <1>4, <1>5, <1>6, <1>7, <1>8, <1>9, <1>10 DEF FrecMMatch
-----------------------------------------------------------------------------
(* All of the call *)
LEMMA InitIInv ==
  ASSUME Init
  PROVE  IInv
<1>1. CallerInv
  BY DEF Init, CallerInv
<1>2. whole \in Seq(Char) /\ Len(whole) \in Nat /\ Len(pregs) \in Nat /\ 1 \in DOMAIN pregs
  BY <1>1, PregFacts
<1>3. TypeOK
  <2>1. 1 \in 1 .. Len(pregs) + 1 /\ 0 \in 0 .. Len(whole) /\ -1 \in -1 .. Len(whole)
    BY <1>2
  <2>2. pmatch \in Offsets
    BY <2>1 DEF Init, Offsets, NoMatch
  <2> QED
    BY <1>2, <2>1, <2>2 DEF Init, TypeOK
<1>4. TextInv /\ CallInv /\ NoneInv /\ AnswerInv /\ DoneInv
  BY DEF Init, TextInv, CallInv, NoneInv, AnswerInv, DoneInv, InCall, Started
<1> QED
  BY <1>1, <1>3, <1>4 DEF IInv

LEMMA StutteringKeepsIInv ==
  ASSUME IInv, UNCHANGED vars
  PROVE  IInv'
<1>1. /\ UNCHANGED <<caller, multi, pc, curr, sub, hglob, pmatch, ret>>
  BY DEF vars
<1>2. /\ UNCHANGED <<pregs, nosub, whole, range, text, glob, start, end, i, matches>>
      /\ MHeur' = MHeur /\ (EmptyRange' <=> EmptyRange) /\ Matched' = Matched /\ First' = First /\ Base' = Base
  BY <1>1, SameCall
<1>3. /\ \A t : Within(t)' <=> Within(t)
      /\ \A p, t, m : IsWord(p, t, m)' <=> IsWord(p, t, m)
      /\ \A p, t : MatchesIn(p, t)' = MatchesIn(p, t)
      /\ \A p, t, r, m : IsExact(p, t, r, m)' <=> IsExact(p, t, r, m)
      /\ \A b, t : LineStart(b, t)' <=> LineStart(b, t)
      /\ \A p, t : Original(p, t)' = Original(p, t)
  BY <1>2, SameText
<1>4. /\ \A p : Exact(p)' <=> Exact(p)
      /\ \A f, e : Excerpt(f, e)' = Excerpt(f, e)
      /\ preg' = preg /\ (AnyMatches' <=> AnyMatches)
  BY <1>1, <1>2, <1>3 DEF Exact, Excerpt, preg, AnyMatches
<1>5. TypeOK'
  BY <1>1, <1>2 DEF IInv, TypeOK, Offsets, Interval
<1>6. CallerInv' /\ (InCall' <=> InCall) /\ (Started' <=> Started)
  BY <1>1, <1>2 DEF IInv, CallerInv, InCall, Started
<1>7. TextInv'
  <2>1. Length(text)' = Length(text)
    BY <1>2 DEF Length
  <2> QED
    BY <1>1, <1>2, <1>3, <1>6, <2>1 DEF IInv, TextInv
<1>8. CallInv'
  <2>1. Length(Base)' = Length(Base) /\ Length(sub)' = Length(sub)
    BY <1>1, <1>2 DEF Length
  <2>2. Progress(Base)' <=> Progress(Base)
    BY <1>1, <1>2, <1>3, <1>4 DEF Progress
  <2> QED
    BY <1>1, <1>2, <1>3, <1>4, <1>6, <2>1, <2>2 DEF IInv, CallInv
<1>9. NoneInv'
  BY <1>1, <1>2, <1>3, <1>4, <1>6 DEF IInv, NoneInv
<1>10. AnswerInv'
  <2>1. Length(range)' = Length(range)
    BY <1>2 DEF Length
  <2> QED
    BY <1>1, <1>2, <1>3, <1>4, <2>1 DEF IInv, AnswerInv
<1>11. DoneInv'
  <2>1. OffsetsNameAMatch' <=> OffsetsNameAMatch
    BY <1>1, <1>2, <1>4 DEF OffsetsNameAMatch
  <2>2. AnswersAsOriginal' <=> AnswersAsOriginal
    BY <1>1, <1>2, <1>3, <1>4 DEF AnswersAsOriginal
  <2>3. NoSubIsExact' <=> NoSubIsExact
    BY <1>1, <1>2, <1>3, <1>4 DEF NoSubIsExact
  <2> QED
    BY <1>1, <2>1, <2>2, <2>3 DEF IInv, DoneInv
<1> QED
  BY <1>5, <1>6, <1>7, <1>8, <1>9, <1>10, <1>11 DEF IInv

(* The invariant of a call: the texts that are searched are sections of the   *)
(* caller's, each answer is a word of the pattern it was asked for, and what  *)
(* the loops have given up held nothing that an exact pattern matches.       *)
THEOREM Invariance == Spec => []IInv
<1>1. IInv /\ [Next]_vars => IInv'
  <2> SUFFICES ASSUME IInv, [Next]_vars PROVE IInv'
    OBVIOUS
  <2>1. CASE ExecuteEmpty
    BY <2>1, ExecuteEmptyKeepsIInv
  <2>2. CASE Execute
    BY <2>2, ExecuteKeepsIInv
  <2>3. CASE Rebase
    BY <2>3, RebaseKeepsIInv
  <2>4. CASE FrecMatch
    BY <2>4, FrecMatchKeepsIInv
  <2>5. CASE FrecMMatch
    BY <2>5, FrecMMatchKeepsIInv
  <2>6. CASE UNCHANGED vars
    BY <2>6, StutteringKeepsIInv
  <2> QED
    BY <2>1, <2>2, <2>3, <2>4, <2>5, <2>6 DEF Next
<1>2. Init => IInv
  BY InitIInv
<1> QED
  BY <1>1, <1>2, PTL DEF Spec

(* All texts cut out of the caller's text stay inside of it, and so do the    *)
(* offsets, through every loop of frec_mmatch and match_heuristic.          *)
THEOREM TypeCorrect == Spec => []TypeOK
<1>1. IInv => TypeOK
  BY DEF IInv
<1> QED
  BY <1>1, Invariance, PTL

(* Whatever the patterns and the text: the offsets that execute_match reports  *)
(* name a word of one of the patterns in the part to search, for all ways of   *)
(* matching but the last one of frec_mmatch.                                 *)
THEOREM OffsetsTrue == Spec => []OffsetsNameAMatch
<1>1. IInv => OffsetsNameAMatch
  BY DEF IInv, DoneInv, OffsetsNameAMatch
<1> QED
  BY <1>1, Invariance, PTL

(* Sections by lines, literals and prefixes are only an optimisation:         *)
(* frec_match gives what the original matcher gives for the whole text.       *)
THEOREM HeuristicsExact == Spec => []AnswersAsOriginal
<1>1. IInv => AnswersAsOriginal
  BY DEF IInv, DoneInv, AnswersAsOriginal
<1> QED
  BY <1>1, Invariance, PTL

(* Without offsets frec_mmatch's loop over the patterns finds a match exactly  *)
(* if one of the patterns has one.                                           *)
THEOREM NoSubExact == Spec => []NoSubIsExact
<1>1. IInv => NoSubIsExact
  BY DEF IInv, DoneInv, NoSubIsExact
<1> QED
  BY <1>1, Invariance, PTL

(* ret, which the loops over sections and texts do not initialize, is assigned *)
(* before it is looked at or returned.                                       *)
THEOREM RetAlwaysSet == Spec => []RetIsSet
<1>1. IInv => RetIsSet
  BY DEF IInv, CallInv, AnswerInv, DoneInv, RetIsSet, InCall
<1> QED
  BY <1>1, Invariance, PTL
=============================================================================
