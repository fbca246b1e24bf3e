------------------------------ MODULE MCCompile ------------------------------
(* Patterns of up to three items in both syntaxes, with and without           *)
(* REG_NEWLINE, and lists of two.  A group with a negated bracket, an escaped  *)
(* parenthesis in a group and a bracket that begins with ']' are not among    *)
(* them: heuristic.c does not see what they match or where they end.         *)
EXTENDS Compile

MCMAX_FRAGMENTS == 2
MCUninitialized == {<<"?">>}

Item(ere, bre, words) == [ere |-> ere, bre |-> bre, words |-> words, anchor |-> "none", valid |-> TRUE]
Single(cs) == {<<c>> : c \in cs}
Alphabet == {"a", "b", Newline}
B == Backslash

(* Any: what '.' and a negated bracket match, which REG_NEWLINE changes. *)
Items(any) == {
  Item(<<"a">>, <<"a">>, {<<"a">>}),
  Item(<<"b">>, <<"b">>, {<<"b">>}),
  Item(<<B, ".">>, <<B, ".">>, {<<".">>}),
  Item(<<B, "n">>, <<Newline>>, {<<Newline>>}),
  Item(<<"a", "*">>, <<"a", "*">>, {<<>>, <<"a">>, <<"a", "a">>}),
  Item(<<"b", "+">>, <<"b", B, "+">>, {<<"b">>, <<"b", "b">>}),
  Item(<<"b", "?">>, <<"b", B, "?">>, {<<>>, <<"b">>}),
  Item(<<"a", "{", "2", "}">>, <<"a", B, "{", "2", B, "}">>, {<<"a", "a">>}),
  Item(<<".">>, <<".">>, Single(any)),
  Item(<<".", "*">>, <<".", "*">>, {<<>>} \cup Single(any)),
  Item(<<"[", "a", Newline, "]">>, <<"[", "a", Newline, "]">>, {<<"a">>, <<Newline>>}),
  Item(<<"[", "^", "a", "]">>, <<"[", "^", "a", "]">>, Single(any \ {"a"})),
  Item(<<"(", "a", "(", "b", ")", ")">>, <<B, "(", "a", B, "(", "b", B, ")", B, ")">>, {<<"a", "b">>}),
  Item(<<"(", "a", ".", ")", "?">>, <<B, "(", "a", ".", B, ")", B, "?">>,
       {<<>>} \cup {<<"a", c>> : c \in any}) }

Whole == {
  Item(<<"a", "|", "b">>, <<"a", B, "|", "b">>, {<<"a">>, <<"b">>}),
  Item(<<"a", "[", "[", ":", "]", "]">>, <<"a", "[", "[", ":", "]", "]">>, {<<"a", ":">>}),
  [Item(<<"(">>, <<B, "(">>, {}) EXCEPT !.valid = FALSE],
  [Item(<<"a", B, "b">>, <<"a", B, "b">>, {}) EXCEPT !.valid = FALSE] }
Caret == [Item(<<"^">>, <<"^">>, {<<>>}) EXCEPT !.anchor = "bol"]
Dollar == [Item(<<"$">>, <<"$">>, {<<>>}) EXCEPT !.anchor = "eol"]

RECURSIVE Prefixes(_, _)
Prefixes(its, extended) ==
  IF its = <<>> THEN << [length |-> 0, own |-> {<<>>}, words |-> {<<>>}] >>
  ELSE LET front == Prefixes(SubSeq(its, 1, Len(its) - 1), extended)
           last == its[Len(its)]
           all == front[Len(front)]
       IN Append(front, [length |-> all.length + Len(IF extended THEN last.ere ELSE last.bre),
                         own |-> last.words, words |-> {u \o v : u \in all.words, v \in last.words}])
RECURSIVE TextOf(_, _)
TextOf(its, extended) ==
  IF its = <<>> THEN <<>>
  ELSE (IF extended THEN Head(its).ere ELSE Head(its).bre) \o TextOf(Tail(its), extended)

MakePattern(its, extended, newline) ==
  [text |-> TextOf(its, extended), valid |-> \A n \in DOMAIN its : its[n].valid,
   extended |-> extended, reg_newline |-> newline, reg_literal |-> FALSE,
   bol |-> \E n \in DOMAIN its : its[n].anchor = "bol", eol |-> \E n \in DOMAIN its : its[n].anchor = "eol",
   items |-> Prefixes(its, extended)]

AnyOf(newline) == IF newline THEN Alphabet \ {Newline} ELSE Alphabet
Lists(newline) ==
  LET its == Items(AnyOf(newline))
  IN UNION {[1 .. n -> its] : n \in 1 .. 3}
       \cup {<<i>> : i \in Whole} \cup {<<Caret, i, j>> : i, j \in its} \cup {<<i, j, Dollar>> : i, j \in its}

AsLiteral(q) ==
  [q EXCEPT !.reg_literal = TRUE,
            !.items = << [length |-> 0, own |-> {<<>>}, words |-> {<<>>}],
                         [length |-> Len(q.text), own |-> {q.text}, words |-> {q.text}] >>]
Alone == {MakePattern(its, x, nl) : x \in BOOLEAN, nl \in {FALSE}, its \in Lists(FALSE)}
          \cup {MakePattern(its, TRUE, TRUE) : its \in Lists(TRUE)}
Partners == {MakePattern(its, TRUE, FALSE) : its \in {<<i>> : i \in Items(Alphabet) \cup Whole}
               \cup {<<Caret, i>> : i \in Items(Alphabet)}
               \cup {<<Item(<<"b">>, <<"b">>, {<<"b">>}), i>> : i \in Items(Alphabet)}}

MCPatternLists ==
  {<<q>> : q \in Alone} \cup {<<q, r>> : q, r \in Partners}
    \cup {<<AsLiteral(q), AsLiteral(r)>> : q, r \in {MakePattern(<<i>>, TRUE, FALSE) : i \in Items(Alphabet)}}
=============================================================================
