-------------------------------- MODULE Grep --------------------------------
(***************************************************************************)
(* The grep program: main calls procfile on one file after the other, or on  *)
(* what grep_tree finds below the arguments.  procfile reads a file line by  *)
(* line and hands each line to procline, which searches it, one iteration of *)
(* its loop per step, and keeps the lines that were not selected in the      *)
(* queue of leading context.                                               *)
(*                                                                         *)
(* Where a line matches is given with the input, for patterns without        *)
(* anchors: a search that starts later in the line finds the same match.     *)
(***************************************************************************)
EXTENDS Integers, Sequences, FiniteSets

CONSTANTS Calls,    \* what is searched, and with what options
          MAX_LINE_MATCHES

(* The leftmost match of a line, from so up to eo; so is -1 if there is none. *)
(* err: the search of the line, which is not empty, ends with an error.     *)
Content == {l \in [len : Nat, so : Int, eo : Int, err : BOOLEAN] :
              /\ l.so = -1 \/ (0 <= l.so /\ l.so <= l.eo /\ l.eo <= l.len)
              /\ l.err => l.so = -1 /\ l.len > 0}

(* names, paths: the patterns of --include and --exclude, or of the options   *)
(* for directories, that its name and its path match; below: how many of the  *)
(* entries that follow a directory are inside it, and what is in one of them  *)
(* is inside it too.  A "locked" directory is one that cannot be listed.    *)
FileKind == {"text", "binary", "missing", "device", "dir", "locked"}
DirKind == {"dir", "locked"}
File == {f \in [kind : FileKind, lines : Seq(Content), names : SUBSET Nat, paths : SUBSET Nat, below : Nat] :
           /\ f.kind = "binary" => f.lines # <<>>
           /\ f.kind = "locked" => f.below = 0}

(* mode: -c, -l, -L, -q or none of these; mflag, max: -m max; oflag: -o or   *)
(* --color; stdin: no file is named.  With -o, --color, -w and -x offsets are *)
(* needed, and REG_NOSUB is cleared.                                       *)
PatternMode == {"EXCL_PAT", "INCL_PAT"}
Option ==
  {o \in [Aflag : Nat, Bflag : Nat, mflag : BOOLEAN, max : Nat,
          mode : {"lines", "cflag", "lflag", "Lflag", "qflag"},
          binbehave : {"BIN", "SKIP", "TEXT"}, devbehave : {"READ", "SKIP"},
          dirbehave : {"READ", "SKIP", "RECURSE"},
          fpattern : Seq(PatternMode), dpattern : Seq(PatternMode),
          REG_NOSUB : BOOLEAN, oflag : BOOLEAN, xflag : BOOLEAN, vflag : BOOLEAN,
          matchall : BOOLEAN, stdin : BOOLEAN] : o.oflag \/ o.xflag => ~ o.REG_NOSUB}

(* The empty pattern matches at the start of each line; and without arguments *)
(* there is one text, of any kind, if standard input can be read.          *)
Fits(fs, o) ==
  /\ o.matchall => \A n \in DOMAIN fs : \A k \in DOMAIN fs[n].lines : fs[n].lines[k].so = 0
  /\ o.stdin => Len(fs) = 1 /\ fs[1].kind \in {"text", "binary", "missing"}

ASSUME CallsAssumption == \A call \in Calls :
  /\ call.files \in Seq(File) /\ call.opt \in Option
  /\ \A n \in DOMAIN call.files : n + call.files[n].below <= Len(call.files)
  /\ \A n \in DOMAIN call.files : \A k \in n + 1 .. n + call.files[n].below :
       k + call.files[k].below <= n + call.files[n].below
  /\ Fits(call.files, call.opt)
ASSUME MatchesAssumption == MAX_LINE_MATCHES \in Nat \ {0}

VARIABLES files, opt,        \* the arguments
          pc, status,        \* exit status
          file,              \* the file that is, or will be, searched
          line_no, c,        \* procfile: lines read, lines selected
          st, m, selected,   \* procline: where to search, matches, and its c
          total, file_err,   \* main: lines selected, a file was not read
          mcount,            \* lines that may still be selected
          queue,             \* leading context
          first, prev, tail, \* procline: globals that shape its output
          output

args   == <<files, opt>>
limits == <<total, file_err, status>>
search == <<st, m, selected>>
shape  == <<first, prev, tail>>
vars   == <<args, pc, limits, file, line_no, c, search, mcount, queue, shape, output>>

Current == files[file]
Lines == Current.lines
Line(n) == [file |-> file, no |-> n]
Printed(l, sep) == [what |-> "line", file |-> l.file, no |-> l.no, sep |-> sep]
Separator == [what |-> "--"]
IsLine(x) == x.what = "line"

Init ==
  /\ \E call \in Calls : files = call.files /\ opt = call.opt
  /\ pc = "procfile" /\ status = -1
  /\ file = 1 /\ line_no = 0 /\ c = 0 /\ total = 0 /\ file_err = FALSE
  /\ st = 0 /\ m = 0 /\ selected = FALSE
  /\ mcount = opt.max
  /\ queue = <<>>
  /\ first = TRUE /\ prev = FALSE /\ tail = 0
  /\ output = <<>>
-----------------------------------------------------------------------------
(* queue.c *)

(* Faulty: an entry too many. *)
enqueueOneMore(q, x) ==
  IF Len(q) > opt.Bflag THEN Append(Tail(q), x) ELSE Append(q, x)

enqueue(q, x) ==
  IF Len(q) + 1 > opt.Bflag THEN Tail(Append(q, x)) ELSE Append(q, x)

(* Faulty: the entries stay in the queue. *)
LeftByPrintqueueAll(q) == q
LeftByPrintqueue(q) == <<>>
printqueue == [n \in DOMAIN queue |-> Printed(queue[n], "-")]

(* Faulty: the queue is not emptied. *)
clearqueueNot(q) == q
clearqueue(q) == <<>>
-----------------------------------------------------------------------------
(* procline: its loop *)
This == Lines[line_no]
Found == This.so # -1
Whole == This.so - st = 0 /\ This.eo - st = This.len

(* Faulty: REG_NOSUB is not looked at. *)
NextStartOfMatch == IF Found THEN This.so - st ELSE 0
(* The offset of a match counts from the last start.  Without one it is the   *)
(* start of the range that was given for the search.                        *)
NextStart == IF opt.REG_NOSUB THEN This.len ELSE IF Found THEN This.so - st ELSE 0

(* The search is made, and answers. *)
Searching == pc = "procline" /\ st < This.len /\ ~ This.err

(* errx ends the program. *)
SearchFails ==
  /\ pc = "procline" /\ st < This.len /\ This.err
  /\ pc' = "exited" /\ status' = 2
  /\ UNCHANGED <<args, total, file_err, file, line_no, c, search, mcount, queue, shape, output>>

NotFound ==
  /\ Searching /\ ~ Found
  /\ st' = NextStart
  /\ UNCHANGED <<args, pc, limits, file, line_no, c, m, selected, mcount, queue, shape, output>>

NotWhole ==
  /\ Searching /\ Found
  /\ opt.xflag /\ ~ Whole
  /\ st' = NextStart
  /\ pc' = "context"
  /\ UNCHANGED <<args, limits, file, line_no, c, m, selected, mcount, queue, shape, output>>

(* One match is enough. *)
SkipsFurther == ~ opt.oflag \/ opt.mode \in {"qflag", "lflag"}

Match ==
  /\ Searching /\ Found
  /\ opt.xflag => Whole
  /\ st' = NextStart
  /\ m' = IF m < MAX_LINE_MATCHES THEN m + 1 ELSE m
  /\ selected' = IF ~ SkipsFurther /\ opt.vflag THEN ~ (m = 0 \/ selected) ELSE m = 0 \/ selected
  /\ pc' = IF SkipsFurther \/ opt.vflag THEN "context" ELSE "procline"
  /\ UNCHANGED <<args, limits, file, line_no, c, mcount, queue, shape, output>>
-----------------------------------------------------------------------------
(* procline: what is done with the line *)
Nottext == Current.kind = "binary"
OnlyCounts == selected /\ opt.binbehave = "BIN" /\ Nottext
Shows == opt.mode = "lines"
StillAllowed == IF opt.mflag /\ selected THEN mcount - 1 ELSE mcount

(* Faulty: a gap after trailing context is not marked. *)
SeparatorsOnlyWithBflag ==
  IF ~ first /\ ~ prev /\ opt.Bflag > 0 THEN <<Separator>> ELSE <<>>

Separators ==
  (IF ~ first /\ ~ prev /\ tail = 0 /\ opt.Aflag > 0 THEN <<Separator>> ELSE <<>>)
    \o (IF ~ first /\ ~ prev /\ opt.Bflag > 0 THEN <<Separator>> ELSE <<>>)

ThisLine == Line(line_no)

PrintSelected ==
  /\ output' = output \o Separators \o (IF opt.Bflag > 0 THEN printqueue ELSE <<>>)
                 \o <<Printed(ThisLine, ":")>>
  /\ queue' = IF opt.Bflag > 0 THEN LeftByPrintqueue(queue) ELSE queue
  /\ tail' = opt.Aflag

(* Faulty: one line of trailing context too many. *)
TrailingOneMore == tail >= 0
Trailing == tail > 0

(* What becomes of a line that is not selected, see procfile. *)
Queued == IF opt.Bflag > 0 THEN enqueue(queue, ThisLine) ELSE queue

(* Faulty: the limit is one too high. *)
LimitReachedLate == opt.mflag /\ StillAllowed < 0
LimitReached == opt.mflag /\ StillAllowed <= 0

(* The end of procline, and what procfile does with its result. *)
EndLine ==
  /\ pc = "context" \/ (pc = "procline" /\ st >= This.len)
  /\ c' = IF selected THEN c + 1 ELSE c
  /\ mcount' = StillAllowed
  /\ pc' = IF LimitReached THEN "grep_close" ELSE "fgetln"
  /\ UNCHANGED <<args, limits, file, line_no, search>>

BinaryMatches ==
  /\ EndLine
  /\ OnlyCounts
  /\ UNCHANGED <<shape, queue, output>>

SelectLine ==
  /\ EndLine
  /\ selected /\ ~ OnlyCounts
  /\ IF Shows THEN PrintSelected ELSE UNCHANGED <<output, queue, tail>>
  /\ prev' = TRUE /\ first' = FALSE

TrailingLine ==
  /\ EndLine
  /\ ~ selected
  /\ Trailing /\ Shows
  /\ output' = Append(output, Printed(ThisLine, "-"))
  /\ tail' = tail - 1
  /\ queue' = Queued
  /\ prev' = FALSE /\ UNCHANGED first

OtherLine ==
  /\ EndLine
  /\ ~ selected
  /\ ~ (Trailing /\ Shows)
  /\ queue' = Queued
  /\ prev' = FALSE /\ UNCHANGED <<first, tail, output>>
-----------------------------------------------------------------------------
(* main's loop over the arguments, and grep_tree *)
Recurses == opt.dirbehave = "RECURSE" /\ ~ opt.stdin

(* file_matching, dir_matching *)
NameMatches(patterns, hits) ==
  /\ \A n \in hits \cap DOMAIN patterns : patterns[n] # "EXCL_PAT"
  /\ \/ ~ \E n \in DOMAIN patterns : patterns[n] = "INCL_PAT"
     \/ \E n \in hits \cap DOMAIN patterns : patterns[n] = "INCL_PAT"

NextFile == pc = "procfile" /\ file <= Len(files)
IsDirectory == Recurses /\ Current.kind \in DirKind
dir_matching(f) == NameMatches(opt.dpattern, f.names) /\ NameMatches(opt.dpattern, f.paths)
file_matching == opt.stdin \/ NameMatches(opt.fpattern, Current.names)

(* procfile returns before it opens the file. *)
NotToBeRead ==
  \/ opt.mflag /\ mcount <= 0
  \/ Current.kind \in DirKind /\ opt.dirbehave = "SKIP"
  \/ Current.kind = "device" /\ opt.devbehave = "SKIP"

(* A directory can be opened, but the first block not be read. *)
CannotBeRead == Current.kind \in {"missing"} \cup DirKind

(* fts visits a directory, and then fails to list it: FTS_DNR or FTS_ERR.    *)
CannotBeListed == Current.kind = "locked" /\ dir_matching(Current)

Directory ==
  /\ NextFile /\ IsDirectory
  /\ file' = IF dir_matching(Current) THEN file + 1 ELSE file + 1 + Current.below
  /\ file_err' = (file_err \/ CannotBeListed)
  /\ UNCHANGED <<args, pc, total, status, line_no, c, search, mcount, queue, shape, output>>

PassOver ==
  /\ NextFile /\ ~ IsDirectory
  /\ ~ file_matching \/ NotToBeRead
  /\ file' = file + 1
  /\ UNCHANGED <<args, pc, limits, line_no, c, search, mcount, queue, shape, output>>

Unreadable ==
  /\ NextFile /\ ~ IsDirectory
  /\ file_matching /\ ~ NotToBeRead
  /\ CannotBeRead
  /\ file' = file + 1
  /\ file_err' = TRUE
  /\ UNCHANGED <<args, pc, total, status, line_no, c, search, mcount, queue, shape, output>>

Open ==
  /\ NextFile /\ ~ IsDirectory
  /\ file_matching /\ ~ NotToBeRead
  /\ ~ CannotBeRead
  /\ pc' = "fgetln"
  /\ line_no' = 0 /\ c' = 0 /\ tail' = 0
  /\ UNCHANGED <<args, limits, file, search, mcount, queue, first, prev, output>>
-----------------------------------------------------------------------------
(* procfile *)
MoreLines == pc = "fgetln" /\ (c = 0 \/ opt.mode \notin {"lflag", "qflag"})

ReadLine ==
  /\ MoreLines
  /\ line_no < Len(Lines)
  /\ ~ (Nottext /\ opt.binbehave = "SKIP")
  /\ line_no' = line_no + 1
  /\ st' = 0 /\ m' = 0 /\ selected' = FALSE
  /\ pc' = "procline"
  /\ UNCHANGED <<args, limits, file, c, mcount, queue, shape, output>>

(* -l and -q need no more than one line. *)
OneIsEnough ==
  /\ pc = "fgetln"
  /\ c > 0 /\ opt.mode \in {"lflag", "qflag"}
  /\ pc' = "grep_close"
  /\ UNCHANGED <<args, limits, file, line_no, c, search, mcount, queue, shape, output>>

(* The empty pattern matches the empty file, and that is the end. *)
EmptyFileMatches ==
  /\ MoreLines
  /\ Lines = <<>> /\ opt.matchall
  /\ pc' = "exited" /\ status' = 0
  /\ UNCHANGED <<args, total, file_err, file, line_no, c, search, mcount, queue, shape, output>>

EndOfFile ==
  /\ MoreLines
  /\ line_no = Len(Lines)
  /\ ~ (line_no = 0 /\ opt.matchall)
  /\ pc' = "grep_close"
  /\ UNCHANGED <<args, limits, file, line_no, c, search, mcount, queue, shape, output>>

SkipBinary ==
  /\ MoreLines
  /\ line_no < Len(Lines)
  /\ Nottext /\ opt.binbehave = "SKIP"
  /\ pc' = "procfile" /\ file' = file + 1
  /\ UNCHANGED <<args, limits, line_no, c, search, mcount, queue, shape, output>>

Summary ==
  CASE opt.mode = "cflag" -> <<[what |-> "count", file |-> file, no |-> c]>>
    [] opt.mode = "lflag" /\ c > 0 -> <<[what |-> "name", file |-> file]>>
    [] opt.mode = "Lflag" /\ c = 0 -> <<[what |-> "name", file |-> file]>>
    [] Shows /\ c > 0 /\ opt.binbehave = "BIN" /\ Nottext -> <<[what |-> "binary", file |-> file]>>
    [] OTHER -> <<>>

Close ==
  /\ pc = "grep_close"
  /\ queue' = IF opt.Bflag > 0 THEN clearqueue(queue) ELSE queue
  /\ output' = output \o Summary
  /\ total' = total + c
  /\ pc' = "procfile" /\ file' = file + 1
  /\ UNCHANGED <<args, file_err, status, line_no, c, search, mcount, shape>>
-----------------------------------------------------------------------------
(* main, the end *)

(* Faulty: a file that cannot be read counts only if nothing is selected. *)
ExitStatusOfSelection == IF total > 0 THEN 0 ELSE IF file_err THEN 2 ELSE 1

(* What is read from the standard input alone sets the status by itself. *)
ExitStatus ==
  IF ~ opt.stdin /\ file_err /\ ~ (total > 0 /\ opt.mode = "qflag") THEN 2
  ELSE IF total > 0 THEN 0 ELSE 1

Exit ==
  /\ pc = "procfile" /\ file > Len(files)
  /\ pc' = "exited" /\ status' = ExitStatus
  /\ UNCHANGED <<args, total, file_err, file, line_no, c, search, mcount, queue, shape, output>>

Next ==
  \/ Directory \/ PassOver \/ Unreadable \/ Open
  \/ OneIsEnough \/ EmptyFileMatches \/ EndOfFile \/ SkipBinary \/ ReadLine
  \/ SearchFails \/ NotFound \/ NotWhole \/ Match
  \/ BinaryMatches \/ SelectLine \/ TrailingLine \/ OtherLine
  \/ Close \/ Exit

(* One thread, which goes on while it can. *)
Spec == Init /\ [][Next]_vars /\ WF_vars(Next)
-----------------------------------------------------------------------------
TypeOK ==
  /\ pc \in {"procfile", "fgetln", "procline", "context", "grep_close", "exited"}
  /\ status \in {-1, 0, 1, 2}
  /\ file \in 1 .. Len(files) + 1
  /\ line_no \in Nat /\ c \in Nat /\ total \in Nat /\ tail \in Nat /\ st \in Nat /\ mcount \in Nat
  /\ m \in 0 .. MAX_LINE_MATCHES
  /\ file_err \in BOOLEAN /\ first \in BOOLEAN /\ prev \in BOOLEAN /\ selected \in BOOLEAN
  /\ \A n \in DOMAIN queue : queue[n].file \in Nat /\ queue[n].no \in Nat

(* Between two lines of a file. *)
Reading == pc \in {"fgetln", "grep_close"}

(* Matching lines are shown, and not only counted. *)
Showing == Shows /\ ~ (Nottext /\ opt.binbehave = "BIN")

(* Leading context is what immediately precedes, in the same file: while a   *)
(* file is shown the queue holds at most -B lines, its last ones read, and   *)
(* between files it is empty.                                              *)
QueueIsRecent ==
  /\ Len(queue) <= opt.Bflag
  /\ pc = "procfile" => queue = <<>>
  /\ Reading /\ Showing =>
       \A n \in DOMAIN queue : queue[n] = Line(line_no - Len(queue) + n)

(* A line that is to be selected: it matches, with -x as a whole, or with -v   *)
(* it does not.                                                            *)
Matches(l) == l.so # -1 /\ (opt.xflag => l.so = 0 /\ l.eo = l.len)
IsHit(l) == IF opt.vflag THEN ~ Matches(l) ELSE Matches(l)

(* procline searches no empty line, not even for the empty pattern; and it    *)
(* looks at -v only with -o or --color, after a match.  On other lines it    *)
(* contradicts the manual, and nothing is said of what becomes of them.     *)
AsDocumented ==
  \A n \in DOMAIN files : \A k \in DOMAIN files[n].lines :
    LET l == files[n].lines[k]
    IN /\ Matches(l) => l.len > 0
       /\ opt.vflag => Matches(l) /\ ~ SkipsFurther

ReadHits == {n \in 1 .. line_no : IsHit(Lines[n])}
OutputOf(n) == {k \in DOMAIN output : IsLine(output[k]) /\ output[k].file = file /\ output[k].no = n}
Trails(n) == \E h \in ReadHits : h < n /\ n <= h + opt.Aflag
Leads(n)  == \E h \in ReadHits : n < h /\ h <= n + opt.Bflag
Times(happens) == IF happens THEN 1 ELSE 0

(* Whatever selections come before and after each other: of the lines read   *)
(* so far a selected one is printed once and as such, and another one once   *)
(* if it is within -A after a selected one, and once more if it is within -B *)
(* before one, how many there may be.                                      *)
PrintedExactly ==
  Reading /\ Showing /\ AsDocumented => \A n \in 1 .. line_no :
    IF n \in ReadHits
    THEN Cardinality(OutputOf(n)) = 1 /\ \A k \in OutputOf(n) : output[k].sep = ":"
    ELSE /\ \A k \in OutputOf(n) : output[k].sep = "-"
         /\ Cardinality(OutputOf(n)) = Times(Trails(n)) + Times(Leads(n))

(* With context on one side only, the lines of a file are printed in order.  *)
(* (With both, trailing context is queued too and may be printed again.)     *)
InOrder ==
  opt.Aflag = 0 \/ opt.Bflag = 0 =>
    \A j, k \in DOMAIN output :
      j < k /\ IsLine(output[j]) /\ IsLine(output[k]) /\ output[j].file = output[k].file =>
        output[j].no < output[k].no

(* With context, lines of a file that follow each other in the output but    *)
(* not in the file have a separator between them.                          *)
GapsSeparated ==
  opt.Aflag > 0 \/ opt.Bflag > 0 =>
    \A k \in 1 .. Len(output) - 1 :
      IsLine(output[k]) /\ IsLine(output[k + 1]) /\ output[k].file = output[k + 1].file =>
        output[k + 1].no <= output[k].no + 1

Shown == {k \in DOMAIN output : IsLine(output[k]) /\ output[k].sep = ":"}

(* The files that the options select, below the directories they select. *)
Above(n) == {k \in 1 .. n - 1 : Recurses /\ files[k].kind = "dir" /\ n <= k + files[k].below}
Reached(n) == \A k \in Above(n) : dir_matching(files[k])
Wanted(n) == Reached(n) /\ (opt.stdin \/ NameMatches(opt.fpattern, files[n].names))
Searched ==
  {n \in DOMAIN files : /\ Wanted(n)
                        /\ \/ files[n].kind = "text"
                           \/ files[n].kind = "binary" /\ opt.binbehave # "SKIP"
                           \/ files[n].kind = "device" /\ opt.devbehave = "READ"}
Failing ==
  {n \in DOMAIN files :
     \/ Wanted(n) /\ \/ files[n].kind = "missing"
                     \/ files[n].kind \in DirKind /\ opt.dirbehave = "READ"
     \/ Recurses /\ files[n].kind = "locked" /\ Reached(n) /\ dir_matching(files[n])}
Hits == UNION {{<<n, k>> : k \in {j \in DOMAIN files[n].lines : IsHit(files[n].lines[j])}} : n \in Searched}
AnySelected == Hits # {} /\ ~ (opt.mflag /\ opt.max = 0)
SomeSearchFails == \E n \in Searched : \E k \in DOMAIN files[n].lines : files[n].lines[k].err

(* -m is the limit of each file, but the code has one for all of them.  That  *)
(* is the same if it is not passed, or if only one file has such lines.     *)
OneLimit == opt.mflag => Cardinality(Hits) <= opt.max \/ \A h, g \in Hits : h[1] = g[1]

(* Lines are printed, and only the last file, or -m, ends the program. *)
PrintsToTheEnd ==
  /\ Shows /\ \A n \in DOMAIN files : files[n].kind # "binary"
  /\ ~ opt.matchall /\ ~ SomeSearchFails

(* All lines that match are printed if -m allows them, else just so many.     *)
LimitExact ==
  pc = "exited" /\ AsDocumented /\ OneLimit /\ PrintsToTheEnd =>
    Cardinality(Shown) =
      IF opt.mflag /\ opt.max < Cardinality(Hits) THEN opt.max ELSE Cardinality(Hits)

(* Errors show in the status but in three cases: standard input cannot be     *)
(* read; an empty file ends the program, as the empty pattern matches it; and *)
(* the limit of -m is spent in the files before, so that no other is opened. *)
ErrorsShow ==
  /\ ~ (opt.stdin /\ Failing # {})
  /\ ~ (opt.matchall /\ \E n \in Searched : files[n].lines = <<>>)
  /\ opt.mflag => \A n \in Failing : Cardinality({h \in Hits : h[1] < n}) < opt.max

(* The exit status is 2 if a file or a directory could not be read, but for   *)
(* -q if a line was selected; else 0 if a line was selected, and 1 if none.  *)
(* (Of standard input that cannot be read ErrorsShow says why not.)          *)
(* Files that --include and --exclude leave out, and those in directories    *)
(* left out, count for nothing.  A search that fails gives 2 as well, unless  *)
(* -m, -l or -q end grep before.                                            *)
ExitTruthful ==
  pc = "exited" /\ AsDocumented /\ ErrorsShow =>
    IF SomeSearchFails
    THEN opt.mflag \/ opt.mode \in {"lflag", "qflag"} \/ status = 2
    ELSE status = IF Failing # {} /\ ~ (opt.mode = "qflag" /\ AnySelected) THEN 2
                  ELSE IF AnySelected THEN 0 ELSE 1

(* Each search of a line comes to an end: without offsets it is made once;    *)
(* with them, only if it finds something and the loop is then left.          *)
LoopEnds(l) ==
  l.len > 0 /\ ~ opt.REG_NOSUB /\ ~ l.err =>
    /\ l.so # -1
    /\ \/ SkipsFurther \/ opt.vflag
       \/ opt.xflag /\ ~ (l.so = 0 /\ l.eo = l.len)

(* grep ends, whatever it is given, if REG_NOSUB is set, and else if each     *)
(* line matches that is not empty and further matches are not asked for.     *)
Ends ==
  (\A n \in DOMAIN files : \A k \in DOMAIN files[n].lines : LoopEnds(files[n].lines[k]))
    => <>(pc = "exited")
=============================================================================
