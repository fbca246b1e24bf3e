------------------------------ MODULE MCOptions ------------------------------
(* Up to three words from a choice, any word next to one of these, and headers  *)
(* with two files.                                                          *)
EXTENDS Options

MCChar == {"x", "y", NL}
MCLLONG_MAX == 25

O(name, num, text, kind, ls) == [c |-> name, num |-> num, text |-> text, kind |-> kind, lines |-> ls]
L(name) == O(name, 0, <<>>, "", <<>>)
N(name, num) == O(name, num, <<>>, "", <<>>)
D(num) == N("digit", num)
E(text) == O("e", 0, text, "", <<>>)
F(kind, ls) == O("f", 0, <<>>, kind, ls)
Options(os) == [kind |-> "options", opts |-> os, text |-> <<"x">>]
Operand(text) == [kind |-> "operand", opts |-> <<>>, text |-> text]
End == [kind |-> "--", opts |-> <<>>, text |-> <<"y">>]

X == <<"x">>
Y == <<"y">>
Core ==
  {Operand(X), End, Options(<<D(1)>>), Options(<<D(1), D(2)>>), Options(<<D(1), L("n"), D(2)>>),
   Options(<<D(2), N("A", 7)>>),
   Options(<<E(X)>>), Options(<<E(<<>>)>>), Options(<<L("o"), E(<<"y", NL>>)>>),
   Options(<<F("file", << <<"x", NL>>, <<"y">> >>)>>), Options(<<F("file", << <<"y">>, <<NL>> >>)>>),
   Options(<<F("file", <<>>)>>), Options(<<L("h")>>), Options(<<L("H"), L("x")>>)}

OffsetFlags == {"o", "w", "x", "--color=never", "--color=always", "--color=auto"}
Others ==
  {Options(<<L(o)>>) : o \in BehaviourOptions \cup PlainFlags \cup OffsetFlags
     \cup {"l", "L", "i", "y", "--context", "V", "?", "P", "--help", "D ?", "d ?", "--binary-files=?", "--color=?",
           "--include", "--exclude", "--include-dir", "--exclude-dir"}}
    \cup {Options(<<N(o, num)>>) : o \in {"A", "B", "C", "m"}, num \in {0, 3, Invalid}}
    \cup {Options(<<F(kind, <<>>)>>) : kind \in {"dir", "missing"}}
    \cup {Options(<<D(2), D(6), D(1)>>), Options(<<D(2), D(4), D(9)>>), Options(<<E(<<NL>>)>>), Operand(<<>>), Operand(Y),
          Options(<<L("n"), D(1), D(2)>>), Options(<<L("w"), L("F")>>)}

Lists(ws, max) == UNION {[1 .. n -> ws] : n \in 0 .. max}
Grep == [z |-> "", e |-> ""]
Call(name, env, args) == [name |-> name, env |-> env, args |-> args]
MCCalls ==
  {Call(Grep, <<>>, ws) : ws \in Lists(Core, 3)}
    \cup {Call(Grep, <<>>, ws \o <<Operand(X)>>) : ws \in {<<v, w>> : v \in Core, w \in Others} \cup {<<w, v>> : v \in Core, w \in Others}}
    \cup {Call(Grep, <<v>>, <<w, Operand(X)>>) : v, w \in Core}
    \cup {Call(name, <<>>, <<w, Operand(X)>>) : name \in Name, w \in Core \cup Others}
    \cup {Call(Grep, <<>>, <<v, w, Options(<<E(X)>>), Operand(X), Operand(Y)>>) :
            v, w \in {Options(<<L(o)>>) : o \in {"h", "H", "n"} \cup Recursive}}
=============================================================================
