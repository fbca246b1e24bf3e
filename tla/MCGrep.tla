-------------------------------- MODULE MCGrep --------------------------------
(* Lines that match as a whole, in part, not, and empty ones.  One file of up  *)
(* to six lines, or two of any kind of up to two; small trees for -r.        *)
EXTENDS Grep

MCMAX_LINE_MATCHES == 2
MaxLines == 6
Answer(len, so, eo) == [len |-> len, so |-> so, eo |-> eo, err |-> FALSE]
Whole2 == Answer(2, 0, 2)
Part == Answer(2, 1, 2)
Miss == Answer(2, -1, -1)
Empty == Answer(0, -1, -1)
EmptyMatch == Answer(2, 0, 0)
EmptyInEmpty == Answer(0, 0, 0)
Fails == [Miss EXCEPT !.err = TRUE]
Contents(max, ls) == UNION {[1 .. n -> ls] : n \in 0 .. max}

Entry(kind, lines, names, paths, below) ==
  [kind |-> kind, lines |-> lines, names |-> names, paths |-> paths, below |-> below]
Simple(kind, lines) == Entry(kind, lines, {}, {}, 0)
Texts(max, ls) == {Simple("text", l) : l \in Contents(max, ls)}
AnyFiles ==
  Texts(2, {Whole2, Miss}) \cup {Simple("binary", ls) : ls \in Contents(2, {Whole2, Miss}) \ {<<>>}}
    \cup {Simple("missing", <<>>)}
OddFiles == {Simple("device", <<Whole2>>), Simple("dir", <<>>), Simple("locked", <<>>),
             Simple("text", <<Part>>)}

(* A directory with a directory of one file, and another file.              *)
Name(k) == {{}, {1}, {2}} \cup (IF k = "dir" THEN {{1, 2}} ELSE {})
Tree(names, paths, a, b) ==
  << Entry("dir", <<>>, {1}, {1}, 3), Entry("dir", <<>>, names, paths, 1),
     Entry("text", <<Whole2>>, a, {}, 0), Entry("text", <<Miss>>, b, {}, 0) >>
LockedTree(names, paths, a, b) ==
  << Entry("dir", <<>>, names, paths, 1), Entry("locked", <<>>, a, b, 0),
     Entry("text", <<Whole2>>, {1}, {}, 0) >>
Trees == {LockedTree(d, p, a, b) : d, p \in {{}, {1}}, a, b \in Name("dir")} \cup {Tree(d, p, a, b) : d \in Name("dir"), p \in Name("dir"), a \in Name("file"), b \in Name("file")}

PlainInputs == {<<f>> : f \in Texts(MaxLines, {Whole2, Miss})} \cup {<<f, g>> : f, g \in AnyFiles}
OffsetInputs == {<<f>> : f \in Texts(3, {Whole2, Part, Miss, Empty})}
NamedInputs == {<<Entry("text", <<Whole2>>, a, {}, 0), Entry("missing", <<>>, b, {}, 0)>> :
                  a \in Name("file"), b \in Name("file")}
MatchAllInputs == {<<f>> : f \in Texts(2, {EmptyMatch, EmptyInEmpty})}
FailInputs == {<<f, g>> : f, g \in Texts(2, {Whole2, Miss, Fails})}
NoLimit == <<FALSE, 0>>
Opt(a, b, m_, mode) ==
  [Aflag |-> a, Bflag |-> b, mflag |-> m_[1], max |-> m_[2], mode |-> mode,
   binbehave |-> "BIN", devbehave |-> "READ", dirbehave |-> "READ",
   fpattern |-> <<>>, dpattern |-> <<>>,
   REG_NOSUB |-> TRUE, oflag |-> FALSE, xflag |-> FALSE, vflag |-> FALSE,
   matchall |-> FALSE, stdin |-> FALSE]
Plain == Opt(1, 1, NoLimit, "lines")

ContextOptions ==
  {Opt(a, b, m_, "lines") : a \in 0 .. 2, b \in 0 .. 2, m_ \in {NoLimit, <<TRUE, 0>>, <<TRUE, 1>>, <<TRUE, 2>>}}
ModeOptions ==
  {Opt(1, 1, m_, mode) : m_ \in {NoLimit, <<TRUE, 1>>}, mode \in {"cflag", "lflag", "Lflag", "qflag"}}
    \cup {[Plain EXCEPT !.binbehave = bin] : bin \in {"SKIP", "TEXT"}}
    \cup {[Plain EXCEPT !.vflag = TRUE]}
OffsetOptions ==
  {[Opt(1, 1, NoLimit, mode) EXCEPT !.REG_NOSUB = FALSE, !.oflag = o, !.xflag = x, !.vflag = v] :
     o, x, v \in BOOLEAN, mode \in {"lines", "qflag"}}
NameOptions ==
  {[Plain EXCEPT !.fpattern = f] : f \in {<<"INCL_PAT">>, <<"EXCL_PAT", "INCL_PAT">>}}
    \cup {[Plain EXCEPT !.devbehave = "SKIP", !.dirbehave = "SKIP"]}
TreeOptions ==
  {[Plain EXCEPT !.dirbehave = "RECURSE", !.fpattern = f, !.dpattern = d] :
     f, d \in {<<>>, <<"EXCL_PAT">>, <<"INCL_PAT">>, <<"INCL_PAT", "EXCL_PAT">>}}
MatchAllOptions == {[o EXCEPT !.matchall = TRUE] : o \in ModeOptions \cup {Plain}}

(* What is searched with what. *)
With(inputs, options) == {[files |-> fs, opt |-> o] : fs \in inputs, o \in options}
MCCalls ==
  With(PlainInputs, ContextOptions \cup ModeOptions)
    \cup With(OffsetInputs, OffsetOptions)
    \cup With({<<f>> : f \in AnyFiles}, {[Plain EXCEPT !.stdin = TRUE]})
    \cup With(FailInputs, ModeOptions \cup {Plain, [Plain EXCEPT !.REG_NOSUB = FALSE, !.xflag = TRUE]})
    \cup With(MatchAllInputs, MatchAllOptions)
    \cup With(NamedInputs \cup {<<f, g>> : f, g \in OddFiles}, NameOptions \cup {Plain})
    \cup With(Trees, TreeOptions)
=============================================================================
