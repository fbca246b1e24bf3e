---------------------------- MODULE MCBoyerMoore ----------------------------
(* Every pattern of up to five characters over {a, b}, some longer and some  *)
(* with a third character, anchors, escapes and special characters; texts    *)
(* of up to nine characters, some with an embedded terminator or a newline.  *)
EXTENDS BoyerMoore

Words(S, lens) == UNION {[1 .. n -> S] : n \in lens}
AsGiven(p) == [pattern |-> p, extended |-> FALSE, literal |-> FALSE]

Misleading == <<"a", "b", "a", "c", "a", "a", "b", "a">>
MisleadingText == <<"c", "a", "c", "a", "b", "a", "a", "b", "a">> \o Misleading

MCChar == {"a", "b", "c", "NUL", Newline, "^", "$", ".", Backslash, "+"}
MCInputs ==
  {AsGiven(p) : p \in Words({"a", "b"}, 0 .. 5)}
    \cup {AsGiven(p) : p \in { <<"a", "b", "a", "c", "a", "b", "a">>,
                               <<"b", "a", "a", "b", "a", "a", "b">>, <<"a", "c", "b">>,
                               Misleading, <<"^", "NUL", Newline>>,
                               <<"^", "a">>, <<"^", "a", "b">>, <<"^">>, <<"a", "$">>,
                               <<"^", "a", "$">>, <<"a", ".">>, <<"a", Newline>>,
                               <<"a", Backslash, "+">> }}
    \cup { [pattern |-> <<"a", Backslash, "+">>, extended |-> TRUE, literal |-> FALSE],
           [pattern |-> <<"^", "a">>, extended |-> FALSE, literal |-> TRUE],
           [pattern |-> <<"a", Backslash>>, extended |-> FALSE, literal |-> TRUE],
           [pattern |-> <<"^", "a", "+">>, extended |-> TRUE, literal |-> FALSE] }
MCTexts ==
  Words({"a", "b"}, {0, 1, 2, 9}) \cup Words({"a", "b", "c"}, {4})
    \cup { <<"a", "NUL">>, <<"b", "a", "NUL">>, <<"b", Newline, "a", "NUL">>,
           <<"a", "a", "NUL", "a", "b", "NUL">>, <<"b", "a", Newline, "a">>, <<"a", "^", "a">>,
           <<"a", Backslash, "+">>, <<"b", "a", Backslash>>, MisleadingText,
           <<"a", "a", "a", "NUL", Newline, "NUL", Newline, "NUL">> }
MCFlags == {{}, {"REG_NOTBOL", "REG_NOTEOL"}}

(* The pattern and the text of check_interface_single.c:47. *)
TestInputs == {AsGiven(<<Backslash, "$", "(", ")", Backslash, "$">>)}
TestTexts == { <<"t", "e", "x", "t", " ", "w", "i", "t", "h", " ", "$", "(", ")", "$", " ",
                 "c", "h", "a", "r", "s">> }
TestChar == {TestInput.pattern[n] : TestInput \in TestInputs, n \in 1 .. 6}
              \cup UNION {{t[n] : n \in DOMAIN t} : t \in TestTexts} \cup {"NUL"}
TestFlags == {{}}

(* A pattern that begins and ends alike, and a text in which it begins       *)
(* within such a beginning.                                                *)
TurboInputs == {AsGiven(Misleading)}
TurboTexts == {MisleadingText}
=============================================================================
