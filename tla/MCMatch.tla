------------------------------- MODULE MCMatch -------------------------------
(* Patterns over {a, b}, with what the compiler makes of them, and all texts *)
(* of up to six characters or of up to four with line feeds.                *)
EXTENDS Match

Words(S, lens) == UNION {[1 .. n -> S] : n \in lens}
Repeat(c, lens) == {[x \in 1 .. n |-> c] : n \in lens}
Followed(U, V) == {u \o v : u \in U, v \in V}
MaxText == 6

MCChar == {"a", "b", "NL"}
Any(lens) == Words(MCChar, lens)

Plain(kind, lit, max, words) ==
  [kind |-> kind, lit |-> lit, max |-> max, words |-> words, bol |-> FALSE, eol |-> FALSE]

Literal(w) == Plain("literal", w, -1, {w})                                    \* w
A_Bstar    == Plain("longest", <<"a">>, -1, Followed({<<"a">>}, Repeat("b", 0 .. 5)))  \* ab*
AA_Bstar   == Plain("longest", <<"a", "a">>, -1, Followed({<<"a", "a">>}, Repeat("b", 0 .. 4)))
Astar_B    == Plain("longest", <<"b">>, -1, Followed(Repeat("a", 0 .. 5), {<<"b">>}))  \* a*b
AA_BBstar  == Plain("longest", <<"a", "a", "b">>, -1,                          \* aabb*
                    Followed({<<"a", "a", "b">>}, Repeat("b", 0 .. 3)))
AB_AAstar  == Plain("longest", <<"a", "b", "a">>, -1,                          \* abaa*
                    Followed({<<"a", "b", "a">>}, Repeat("a", 0 .. 3)))
Caret_A_Bstar == [A_Bstar EXCEPT !.bol = TRUE]                                 \* ^ab*
A_dotstar_B   == Plain("prefix", <<"a">>, -1,                                  \* a.*b
                       Followed({<<"a">>}, Followed(Any(0 .. 3), {<<"b">>})))
AAB_dotstar_A == Plain("prefix", <<"a", "a", "b">>, -1,                        \* aab.*a
                       Followed({<<"a", "a", "b">>}, Followed(Any(0 .. 2), {<<"a">>})))
BA_dotstar_Dollar ==                                                          \* ba.*$
  [Plain("prefix", <<"b", "a">>, -1, Followed({<<"b", "a">>}, Any(0 .. 4))) EXCEPT !.eol = TRUE]
B_AB    == Plain("longest", <<"a", "b">>, 3, {<<"b", "a", "b">>})              \* [b]ab
A_dot   == Plain("longest", <<"a">>, 2, Followed({<<"a">>}, Any({1})))         \* a.
B_ABA   == Plain("longest", <<"a", "b", "a">>, 4, {<<"b", "a", "b", "a">>})    \* [b]aba
A_dot_Dollar == [A_dot EXCEPT !.eol = TRUE]                                    \* a.$
AB_or_BA == Plain("none", <<>>, -1, {<<"a", "b">>, <<"b", "a">>})              \* ab|ba

MCPregLists ==
  {<<p>> : p \in {Literal(<<"a", "b">>), A_Bstar, AA_Bstar, Astar_B, Caret_A_Bstar, A_dotstar_B,
                  BA_dotstar_Dollar, B_AB, A_dot, A_dot_Dollar, AB_or_BA}}
    \cup { <<Literal(<<"a", "a", "b">>), Literal(<<"b", "a", "b">>)>>,
           <<AA_BBstar, Literal(<<"b", "a", "b">>)>>, <<AA_BBstar, AB_AAstar>>,
           <<B_ABA, Literal(<<"b", "b", "b">>)>>, <<AAB_dotstar_A, Literal(<<"b", "a", "a">>)>>,
           <<AB_or_BA, AA_Bstar>>, <<A_dotstar_B, AB_or_BA, Literal(<<"a", "a">>)>> }
MCTexts == Words({"a", "b"}, 0 .. MaxText) \cup Words(MCChar, 1 .. 4)

BoundedPregLists == {<<B_AB>>}
=============================================================================
