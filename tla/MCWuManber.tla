----------------------------- MODULE MCWuManber -----------------------------
(* Small alphabets, pattern lists and texts for WuManber: every single       *)
(* pattern of three or four characters over {a, b}, every pair of three and  *)
(* some of three and four, patterns of five (a shift of 3 exceeds the        *)
(* default), a list of three, one whose six characters do not fit the table  *)
(* of four slots, and texts with a character that no pattern of a list has.  *)
EXTENDS WuManber

Words(S, lens) == UNION {[1 .. n -> S] : n \in lens}

MCChar == {"a", "b", "c", "d", "e", "f"}
MCThree == Words({"a", "b"}, {3})
MCFour == Words({"a", "b"}, {4})
MCPatternLists ==
  {<<p>> : p \in MCThree \cup MCFour}
    \cup {<<p, q>> : p \in MCThree, q \in MCThree}
    \cup {<<p, q>> : p \in { <<"a", "b", "a">>, <<"b", "b", "a">> }, q \in MCFour}
    \cup {<< <<"a", "b", "a", "c", "a">>, <<"b", "a", "a", "b", "a">> >>,
          << <<"a", "b", "c", "b", "a">>, <<"b", "c", "a", "a", "b", "c">> >>,
          << <<"b", "c", "a">>, <<"b", "a", "c">>, <<"b", "c", "a", "b">> >>,
          << <<"a", "b", "c", "d", "e", "f">> >>}
MCTexts == Words({"a", "b", "c"}, 0 .. 4) \cup Words({"a", "b"}, {5, 6})

(* The first pattern list of the tests in check_wu_manber.c. *)
TestPattern == <<"e", "x", "a", "c", "t", "l", "y", " ", "t", "h", "e", " ",
                 "s", "a", "m", "e">>
TestChar == {TestPattern[n] : n \in DOMAIN TestPattern}
TestPatternLists == {<<TestPattern>>}
TestTexts == {TestPattern}
=============================================================================
