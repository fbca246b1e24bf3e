------------------------------- MODULE Options -------------------------------
(***************************************************************************)
(* main of grep.c up to the search: the words of GREP_OPTIONS and of the      *)
(* command line are read by getopt_long, one option per step; patterns are    *)
(* collected in an array, one per step; and what is left are the files.       *)
(*                                                                         *)
(* A word is a cluster of options (-n12), of which the last may have an       *)
(* argument (-nex), a long option, the word "--", or an operand.             *)
(***************************************************************************)
EXTENDS Integers, Sequences

CONSTANTS Calls, Char, NL, LLONG_MAX

Text == Seq(Char)

(* An option is named for its letter or long name, and for its argument where  *)
(* only a few are accepted.  num: the argument that strtoull reads, if it does  *)
(* and it is not negative, or the value of a digit; text: that of -e; kind and  *)
(* lines: the file that -f names.                                            *)
Invalid == -1
Opt == [c : STRING, num : Nat \cup {Invalid}, text : Text,
        kind : {"", "file", "dir", "missing"}, lines : Seq(Text \ {<<>>})]
Word == [kind : {"options", "--", "operand"}, opts : Seq(Opt), text : Text]
Name == [z : {"", "bz", "xz", "lz", "z"}, e : {"", "e", "f"}]

ASSUME LimitAssumption == LLONG_MAX \in Nat

(* Only a cluster has options; a digit is one, and -f names something, of which  *)
(* each line ends with its newline, or the file does without one.             *)
OptionIsRight(o) ==
  /\ o.c = "digit" => o.num \in 0 .. 9
  /\ o.c = "f" => o.kind # ""
  /\ \A n \in DOMAIN o.lines : \A k \in 1 .. Len(o.lines[n]) - 1 : o.lines[n][k] # NL
WordIsRight(word) ==
  /\ word.kind = "options" <=> word.opts # <<>>
  /\ \A k \in DOMAIN word.opts : OptionIsRight(word.opts[k])
ASSUME CallsAssumption == \A call \in Calls :
  /\ call.name \in Name
  /\ call.env \in Seq(Word) /\ call.args \in Seq(Word)
  /\ \A ws \in {call.env, call.args} : \A n \in DOMAIN ws : WordIsRight(ws[n])

VARIABLES argv,
          pc, status,
          optind, nextchar, passed,        \* getopt_long: the word, the place in it, operands before it
          lastc, newarg, prevoptind,       \* main: for numbers of several digits
          needpattern,
          Aflag, Bflag, mcount, mflag,
          flags, Hflag, hflag, cflags, behave,
          fpattern, dpattern,
          lines,                           \* read_patterns: what is left of the file
          pats, lens, matchall,
          files                            \* what is searched; none: standard input

getopt   == <<optind, nextchar, passed, lastc, newarg, prevoptind>>
context  == <<Aflag, Bflag>>
limit    == <<mcount, mflag>>
headers  == <<Hflag, hflag>>
names    == <<fpattern, dpattern>>
settings == <<context, limit, flags, headers, cflags, behave, names>>
patterns == <<pats, lens, matchall>>
vars == <<argv, pc, status, getopt, needpattern, settings, lines, patterns, files>>

(* What the program is called decides on syntax and decompression. *)
SyntaxOf(name) ==
  CASE name.e = "e" -> "GREP_EXTENDED" [] name.e = "f" -> "GREP_FIXED" [] OTHER -> "GREP_BASIC"
DecompressedBy(name) ==
  CASE name.z = "bz" -> "FILE_BZIP" [] name.z = "xz" -> "FILE_XZ" [] name.z = "lz" -> "FILE_LZMA"
    [] name.z = "z" -> "FILE_GZIP" [] OTHER -> "FILE_STDIO"

Init ==
  /\ \E call \in Calls :
       /\ argv = call.env \o call.args
       /\ behave = [grep |-> SyntaxOf(call.name), file |-> DecompressedBy(call.name),
                    bin |-> "BINFILE_BIN", dev |-> "DEV_READ", dir |-> "DIR_READ", link |-> "LINK_READ"]
  /\ pc = "getopt" /\ status = -1
  /\ optind = 1 /\ nextchar = 1 /\ passed = <<>>
  /\ lastc = "" /\ newarg = TRUE /\ prevoptind = 1
  /\ needpattern = TRUE
  /\ Aflag = 0 /\ Bflag = 0 /\ mcount = 0 /\ mflag = FALSE
  /\ flags = {} /\ Hflag = FALSE /\ hflag = FALSE /\ cflags = {"REG_NOSUB"}
  /\ fpattern = <<>> /\ dpattern = <<>>
  /\ lines = <<>> /\ pats = <<>> /\ lens = <<>> /\ matchall = FALSE
  /\ files = <<>>
-----------------------------------------------------------------------------
(* getopt_long passes over operands and keeps them for main, behind the options. *)
TextsOf(ws) == [n \in DOMAIN ws |-> ws[n].text]
ThisWord ==
  CHOOSE w \in optind .. Len(argv) + 1 :
    /\ w <= Len(argv) => argv[w].kind # "operand"
    /\ \A v \in optind .. w - 1 : argv[v].kind = "operand"

PassedNow == passed \o TextsOf(SubSeq(argv, optind, ThisWord - 1))

MoreOptions == pc = "getopt" /\ ThisWord <= Len(argv) /\ argv[ThisWord].kind = "options"
opt == argv[ThisWord].opts[nextchar]
c == opt.c

(* The end of main's loop. *)
NextOption ==
  /\ IF nextchar < Len(argv[ThisWord].opts)
     THEN optind' = ThisWord /\ nextchar' = nextchar + 1
     ELSE optind' = ThisWord + 1 /\ nextchar' = 1
  /\ passed' = PassedNow
  /\ lastc' = c
  /\ newarg' = (optind' # prevoptind)
  /\ prevoptind' = optind'

Exit(code) ==
  /\ pc' = "exited" /\ status' = code
  /\ UNCHANGED <<argv, getopt, needpattern, settings, lines, patterns, files>>

(* An option that only changes a setting. *)
Setting ==
  /\ MoreOptions
  /\ NextOption
  /\ UNCHANGED <<argv, pc, status, needpattern, lines, patterns, files>>
-----------------------------------------------------------------------------
(* -num, -A, -B, -C: the digits of a number are options of their own.          *)

(* Faulty: a new word does not begin a new number. *)
NewNumberByLetter == lastc # "digit"
NewNumber == newarg \/ lastc # "digit"
TooLarge == ~ NewNumber /\ Aflag > LLONG_MAX \div 10

Digit ==
  /\ Setting
  /\ c = "digit" /\ ~ TooLarge
  /\ Aflag' = (IF NewNumber THEN 0 ELSE Aflag * 10) + opt.num
  /\ Bflag' = Aflag'
  /\ UNCHANGED <<limit, flags, headers, cflags, behave, names>>

Context ==
  /\ Setting
  /\ c \in {"A", "B", "C"} /\ opt.num # Invalid
  /\ Aflag' = IF c = "B" THEN Aflag ELSE opt.num
  /\ Bflag' = IF c = "A" THEN Bflag ELSE opt.num
  /\ UNCHANGED <<limit, flags, headers, cflags, behave, names>>

DefaultContext ==
  /\ Setting
  /\ c = "--context"
  /\ Aflag' = 2 /\ Bflag' = 2
  /\ UNCHANGED <<limit, flags, headers, cflags, behave, names>>

MaxCount ==
  /\ Setting
  /\ c = "m" /\ opt.num # Invalid
  /\ mcount' = opt.num /\ mflag' = TRUE
  /\ UNCHANGED <<context, flags, headers, cflags, behave, names>>
-----------------------------------------------------------------------------
(* Flags, by the letter of the variable; -l and -L undo each other.            *)
PlainFlags == {"b", "c", "n", "q", "s", "v", "--line-buffered", "--null", "--label"}

Flag ==
  /\ Setting
  /\ \/ c \in PlainFlags /\ flags' = flags \cup {c}
     \/ c = "l" /\ flags' = (flags \ {"L"}) \cup {c}
     \/ c = "L" /\ flags' = (flags \ {"l"}) \cup {c}
  /\ UNCHANGED <<context, limit, headers, cflags, behave, names>>

IgnoreCase ==
  /\ Setting
  /\ c \in {"i", "y"}
  /\ flags' = flags \cup {"i"} /\ cflags' = cflags \cup {"REG_ICASE"}
  /\ UNCHANGED <<context, limit, headers, behave, names>>

(* What is printed or tested of a match needs its offsets.  The colour is       *)
(* decided on anew each time, and for "auto" depends on the terminal.          *)
ColorWith(option) ==
  CASE option = "--color=never" -> {FALSE} [] option = "--color=always" -> {TRUE} [] OTHER -> BOOLEAN

(* Faulty: -x does not ask for offsets. *)
OnlyMatchingWithoutOffsets ==
  /\ Setting
  /\ c \in {"o", "x"}
  /\ flags' = flags \cup {c} /\ cflags' = IF c = "o" THEN cflags \ {"REG_NOSUB"} ELSE cflags
  /\ UNCHANGED <<context, limit, headers, behave, names>>

OnlyMatching ==
  /\ Setting
  /\ c \in {"o", "x"}
  /\ flags' = flags \cup {c} /\ cflags' = cflags \ {"REG_NOSUB"}
  /\ UNCHANGED <<context, limit, headers, behave, names>>

WordMatch ==
  /\ Setting
  /\ c = "w"
  /\ cflags' = (cflags \cup {"REG_WORD"}) \ {"REG_NOSUB"}
  /\ UNCHANGED <<context, limit, flags, headers, behave, names>>

Color ==
  /\ Setting
  /\ c \in {"--color=never", "--color=always", "--color=auto"}
  /\ \E color \in ColorWith(c) :
       flags' = IF color THEN flags \cup {"color"} ELSE flags \ {"color"}
  /\ cflags' = cflags \ {"REG_NOSUB"}
  /\ UNCHANGED <<context, limit, headers, behave, names>>

(* Faulty: -h stays in force only if no -H was given before. *)
NoHeadersUnlessH == Hflag' = FALSE /\ hflag' = ~ Hflag
NoHeaders == Hflag' = FALSE /\ hflag' = TRUE

Headers ==
  /\ Setting
  /\ \/ c = "H" /\ Hflag' = TRUE /\ UNCHANGED hflag
     \/ c = "h" /\ NoHeaders
  /\ UNCHANGED <<context, limit, flags, cflags, behave, names>>

(* How something is dealt with: the last option decides.  Recursion asks for     *)
(* names of files, too.                                                     *)
Recursive == {"d recurse", "r", "R"}
BehaviourOptions ==
  {"E", "F", "G", "a", "I", "U", "--binary-files=text", "--binary-files=binary",
   "--binary-files=without-match", "J", "M", "X", "Z", "u", "--mmap",
   "D skip", "D read", "d skip", "d read", "O", "p", "S"} \cup Recursive

BehaviourOf(o) ==
  CASE o = "E" -> <<"grep", "GREP_EXTENDED">>
    [] o = "F" -> <<"grep", "GREP_FIXED">>
    [] o = "G" -> <<"grep", "GREP_BASIC">>
    [] o \in {"a", "--binary-files=text"} -> <<"bin", "BINFILE_TEXT">>
    [] o \in {"I", "--binary-files=without-match"} -> <<"bin", "BINFILE_SKIP">>
    [] o \in {"U", "--binary-files=binary"} -> <<"bin", "BINFILE_BIN">>
    [] o = "J" -> <<"file", "FILE_BZIP">>
    [] o = "M" -> <<"file", "FILE_LZMA">>
    [] o = "X" -> <<"file", "FILE_XZ">>
    [] o = "Z" -> <<"file", "FILE_GZIP">>
    [] o \in {"u", "--mmap"} -> <<"file", "FILE_MMAP">>
    [] o = "D skip" -> <<"dev", "DEV_SKIP">>
    [] o = "D read" -> <<"dev", "DEV_READ">>
    [] o = "d skip" -> <<"dir", "DIR_SKIP">>
    [] o = "d read" -> <<"dir", "DIR_READ">>
    [] o \in Recursive -> <<"dir", "DIR_RECURSE">>
    [] o = "O" -> <<"link", "LINK_EXPLICIT">>
    [] o = "p" -> <<"link", "LINK_SKIP">>
    [] o = "S" -> <<"link", "LINK_READ">>

Behave ==
  /\ Setting
  /\ c \in BehaviourOptions
  /\ behave' = [behave EXCEPT ![BehaviourOf(c)[1]] = BehaviourOf(c)[2]]
  /\ Hflag' = (Hflag \/ c \in Recursive)
  /\ UNCHANGED <<context, limit, flags, hflag, cflags, names>>

(* add_fpattern, add_dpattern *)
NamePattern ==
  /\ Setting
  /\ \/ /\ c \in {"--include", "--exclude"} /\ UNCHANGED dpattern
        /\ fpattern' = Append(fpattern, IF c = "--include" THEN "INCL_PAT" ELSE "EXCL_PAT")
     \/ /\ c \in {"--include-dir", "--exclude-dir"} /\ UNCHANGED fpattern
        /\ dpattern' = Append(dpattern, IF c = "--include-dir" THEN "INCL_PAT" ELSE "EXCL_PAT")
  /\ UNCHANGED <<context, limit, flags, headers, cflags, behave>>
-----------------------------------------------------------------------------
(* add_pattern.  The empty pattern replaces the others, but for the length of  *)
(* the first one, which is that of its predecessor or none.                  *)
Chopped(text) == IF text[Len(text)] = NL THEN SubSeq(text, 1, Len(text) - 1) ELSE text

(* Faulty: the length of a pattern counts its newline. *)
LengthWithNewline(text) == Len(text)
LengthOf(text) == Len(Chopped(text))

add_pattern(text) ==
  \/ matchall /\ UNCHANGED patterns
  \/ /\ ~ matchall /\ text = <<>>
     /\ pats' = <<text>> /\ matchall' = TRUE
     /\ UNCHANGED lens
  \/ /\ ~ matchall /\ text # <<>>
     /\ pats' = Append(pats, Chopped(text))
     /\ lens' = Append(lens, LengthOf(text))
     /\ UNCHANGED matchall

Pattern ==
  /\ MoreOptions /\ c = "e"
  /\ add_pattern(opt.text)
  /\ needpattern' = FALSE
  /\ NextOption
  /\ UNCHANGED <<argv, pc, status, settings, lines, files>>

PatternFile ==
  /\ MoreOptions /\ c = "f" /\ opt.kind # "missing"
  /\ lines' = IF opt.kind = "dir" THEN <<>> ELSE opt.lines
  /\ pc' = "read_patterns"
  /\ needpattern' = FALSE
  /\ NextOption
  /\ UNCHANGED <<argv, status, settings, patterns, files>>

(* Faulty: an empty line of the file is passed on with its newline. *)
LineWhole(line) == line
LinePattern(line) == IF line[1] = NL THEN <<>> ELSE line

ReadPattern ==
  /\ pc = "read_patterns" /\ lines # <<>>
  /\ add_pattern(LinePattern(Head(lines)))
  /\ lines' = Tail(lines)
  /\ UNCHANGED <<argv, pc, status, getopt, needpattern, settings, files>>

ReadFailed == pc = "read_patterns" /\ Exit(2)

PatternsRead ==
  /\ pc = "read_patterns" /\ lines = <<>>
  /\ pc' = "getopt"
  /\ UNCHANGED <<argv, status, getopt, needpattern, settings, lines, patterns, files>>
-----------------------------------------------------------------------------
Refused ==
  /\ MoreOptions
  /\ \/ c \in {"A", "B", "C", "m"} /\ opt.num = Invalid
     \/ c = "digit" /\ TooLarge
     \/ c = "f" /\ opt.kind = "missing"
     \/ c \in {"D ?", "d ?", "--binary-files=?", "--color=?"}
     \/ c \in {"?", "P", "--help"}
  /\ Exit(2)

Version == MoreOptions /\ c = "V" /\ Exit(0)

(* What is left: the operands that were passed over, and all behind "--".      *)
OptionsOver == pc = "getopt" /\ ~ MoreOptions
Operands == PassedNow \o TextsOf(SubSeq(argv, ThisWord + 1, Len(argv)))

EmptyPatternFile == OptionsOver /\ ~ needpattern /\ pats = <<>> /\ Exit(1)
Usage == OptionsOver /\ needpattern /\ Operands = <<>> /\ Exit(2)

Syntax ==
  CASE behave.grep = "GREP_FIXED" -> {"REG_LITERAL"} [] behave.grep = "GREP_EXTENDED" -> {"REG_EXTENDED"}
    [] OTHER -> {}

TakePattern ==
  IF needpattern THEN add_pattern(Head(Operands)) /\ files' = Tail(Operands)
  ELSE UNCHANGED patterns /\ files' = Operands

OptionsDone ==
  /\ OptionsOver
  /\ IF needpattern THEN Operands # <<>> ELSE pats # <<>>
  /\ TakePattern
  /\ cflags' = cflags \cup Syntax
  /\ pc' = "compile"
  /\ UNCHANGED <<argv, status, getopt, needpattern, context, limit, flags, headers, behave, names, lines>>

Compiled ==
  /\ pc = "compile"
  /\ hflag' = (hflag \/ (Len(files) <= 1 /\ ~ Hflag))
  /\ pc' = "search"
  /\ UNCHANGED <<argv, status, getopt, needpattern, context, limit, flags, Hflag, cflags, behave, names,
                 lines, patterns, files>>

NotCompiled == pc = "compile" /\ Exit(2)

Settings ==
  \/ Digit \/ Context \/ DefaultContext \/ MaxCount
  \/ Flag \/ IgnoreCase \/ OnlyMatching \/ WordMatch \/ Color \/ Headers \/ Behave \/ NamePattern
Patterns == Pattern \/ PatternFile \/ ReadPattern \/ ReadFailed \/ PatternsRead
Next ==
  \/ Settings \/ Patterns \/ Refused \/ Version
  \/ EmptyPatternFile \/ Usage \/ OptionsDone \/ Compiled \/ NotCompiled

Spec == Init /\ [][Next]_vars
-----------------------------------------------------------------------------
(* Types; the place of getopt_long stays within the words or right behind, and  *)
(* no number that strtoull refused gets into the context or the limit.         *)
TypeOK ==
  /\ pc \in {"getopt", "read_patterns", "compile", "search", "exited"}
  /\ status \in {-1, 0, 1, 2}
  /\ optind \in 1 .. Len(argv) + 1
  /\ nextchar \in Nat \ {0}
  /\ Aflag \in Nat /\ Bflag \in Nat /\ mcount \in Nat /\ mflag \in BOOLEAN
  /\ Hflag \in BOOLEAN /\ hflag \in BOOLEAN /\ matchall \in BOOLEAN
  /\ cflags \subseteq {"REG_NOSUB", "REG_ICASE", "REG_WORD", "REG_LITERAL", "REG_EXTENDED"}
  /\ pats \in Seq(Text) /\ lens \in Seq(Nat) /\ lines \in Seq(Text) /\ files \in Seq(Text)

(* The last word in which getopt_long looks for options, and the places of all. *)
LastWord ==
  IF \E w \in DOMAIN argv : argv[w].kind = "--"
  THEN CHOOSE w \in 0 .. Len(argv) : /\ argv[w + 1].kind = "--"
                                     /\ \A v \in 1 .. w : argv[v].kind # "--"
  ELSE Len(argv)
Places == UNION {{<<w, n>> : n \in DOMAIN argv[w].opts} : w \in 1 .. LastWord}
At(p) == argv[p[1]].opts[p[2]]
Behind(p, q) == q[1] < p[1] \/ (q[1] = p[1] /\ q[2] < p[2])
IsGiven(cs) == \E w \in 1 .. LastWord : \E n \in DOMAIN argv[w].opts : argv[w].opts[n].c \in cs

(* The numbers of which the digits of a word are the last ones. *)
Numbers(opts) ==
  LET upto[n \in 0 .. Len(opts)] ==
        IF n = 0 THEN 0 ELSE IF opts[n].c = "digit" THEN upto[n - 1] * 10 + opts[n].num ELSE 0
  IN upto
NumberAt(p) == Numbers(argv[p[1]].opts)[p[2]]
ContextAt(p) ==
  CASE At(p).c = "digit" -> NumberAt(p) [] At(p).c = "--context" -> 2 [] OTHER -> At(p).num
LastContext(cs) ==
  LET ps == {p \in Places : At(p).c \in cs}
  IN IF ps = {} THEN 0 ELSE ContextAt(CHOOSE p \in ps : \A q \in ps : p = q \/ Behind(p, q))

(* A cluster that begins with two digits, right behind an operand: there        *)
(* newarg is true once too often, and only the last digits count.              *)
NumberBehindOperand ==
  \E w \in 2 .. LastWord :
    /\ argv[w - 1].kind = "operand" /\ Len(argv[w].opts) > 1
    /\ argv[w].opts[1].c = "digit" /\ argv[w].opts[2].c = "digit"

(* Whatever numbers are given in whatever form, in several words, clusters and  *)
(* GREP_OPTIONS: the last one for each side of the context counts, and the      *)
(* digits of one word make one number.                                      *)
ContextAsGiven ==
  pc = "search" /\ ~ NumberBehindOperand =>
    /\ Aflag = LastContext({"digit", "A", "C", "--context"})
    /\ Bflag = LastContext({"digit", "B", "C", "--context"})

(* All patterns that are given, in order; the first operand if there is none.  *)
GivenBy(o) ==
  IF o.c = "e" THEN <<o.text>>
  ELSE IF o.c = "f" /\ o.kind = "file"
  THEN [n \in DOMAIN o.lines |-> IF o.lines[n] = <<NL>> THEN <<>> ELSE o.lines[n]]
  ELSE <<>>

(* The parts one behind the other, up to each of them. *)
Joined(parts) ==
  LET upto[n \in 0 .. Len(parts)] == IF n = 0 THEN <<>> ELSE upto[n - 1] \o parts[n]
  IN upto
GivenIn(w) == Joined([n \in DOMAIN argv[w].opts |-> GivenBy(argv[w].opts[n])])
GivenUpTo == Joined([w \in DOMAIN argv |-> GivenIn(w)[Len(argv[w].opts)]])
OperandsUpTo == Joined([w \in DOMAIN argv |-> IF argv[w].kind = "operand" THEN <<argv[w].text>> ELSE <<>>])

GivenByOptions == GivenUpTo[LastWord]
AllOperands == OperandsUpTo[LastWord] \o TextsOf(SubSeq(argv, LastWord + 2, Len(argv)))
Given == IF IsGiven({"e", "f"}) THEN GivenByOptions ELSE <<Head(AllOperands)>>

(* Where options and operands stand among each other makes no difference: the   *)
(* patterns are those of all -e and -f in order, without the newline that ends  *)
(* a line, and the operands are files; or else the first operand is the         *)
(* pattern.  An empty one replaces them all, and without any there is no        *)
(* search.                                                                 *)
PatternsAsGiven ==
  /\ pc = "search" =>
       /\ Given # <<>>
       /\ matchall <=> \E n \in DOMAIN Given : Given[n] = <<>>
       /\ pats = IF matchall THEN << <<>> >> ELSE [n \in DOMAIN Given |-> Chopped(Given[n])]
       /\ files = IF IsGiven({"e", "f"}) THEN AllOperands ELSE Tail(AllOperands)
  /\ pc = "exited" /\ status = 1 => IsGiven({"f"}) /\ Given = <<>>

(* There is a pattern at least, and the arrays that frec_mregncomp is given     *)
(* agree, each pattern has its length; but of the length of the empty pattern   *)
(* that replaced all others nothing is said: it is still that of the first.    *)
LengthsFit ==
  /\ pc \in {"compile", "search"} => pats # <<>>
  /\ IF matchall THEN pats = << <<>> >>
     ELSE DOMAIN lens = DOMAIN pats /\ \A n \in DOMAIN pats : lens[n] = Len(pats[n])

(* Names of files are left out if -h is given, wherever, or if there is one     *)
(* file at most and nothing asks for names; -r and -d recurse do as -H.         *)
HeadersAsGiven ==
  pc = "search" =>
    (hflag <=> \/ IsGiven({"h"})
               \/ Len(files) <= 1 /\ ~ IsGiven({"H", "r", "R", "d recurse"}))

(* Where grep prints or tests a part of the line, offsets are asked for: Grep   *)
(* assumes it of its options.                                                *)
OffsetsWhereUsed ==
  flags \cap {"o", "x", "color"} # {} \/ "REG_WORD" \in cflags => "REG_NOSUB" \notin cflags
=============================================================================
