------------------------------ MODULE GrepProofs ------------------------------
(***************************************************************************)
(* Theorems about Grep, for all files, trees and options: types, the queue   *)
(* of leading context, the limit of -m over all files, the exit status, the  *)
(* order of the output and its separators, which lines are printed, and how  *)
(* many of them are selected.                                              *)
(***************************************************************************)
EXTENDS Grep, SequenceTheorems, FiniteSetTheorems, TLAPS

FileOpen == pc \in {"fgetln", "procline", "context", "grep_close"}
InLine == pc \in {"procline", "context"}
Entries == [file : Nat, no : Nat]

Types ==
  /\ files \in Seq(File) /\ opt \in Option
  /\ \A n \in DOMAIN files : n + files[n].below <= Len(files)
  /\ TypeOK
  /\ queue \in Seq(Entries)

PlaceInv ==
  /\ FileOpen => file \in DOMAIN files /\ line_no <= Len(Lines) /\ c <= line_no
  /\ InLine => line_no >= 1 /\ c < line_no
  /\ Searching /\ Found => st <= This.so
  /\ FileOpen /\ Nottext /\ opt.binbehave = "SKIP" => line_no = 0

(* What is selected is taken from the limit, which is not spent while lines   *)
(* are read.                                                               *)
SelectedSoFar == total + (IF FileOpen THEN c ELSE 0)
LimitInv ==
  opt.mflag => /\ FileOpen /\ pc # "grep_close" => mcount > 0
               /\ pc # "exited" => SelectedSoFar + mcount = opt.max
               /\ SelectedSoFar <= opt.max

(* The queue ends with the last line that was done with. *)
LastDone == IF InLine THEN line_no - 1 ELSE line_no
Recent == \A n \in DOMAIN queue : queue[n] = Line(LastDone - Len(queue) + n)
QueueInv ==
  /\ Len(queue) <= opt.Bflag
  /\ pc = "procfile" \/ (FileOpen /\ line_no = 0) => queue = <<>>
  /\ FileOpen /\ Showing => Recent

IInv == Types /\ PlaceInv /\ LimitInv /\ QueueInv
-----------------------------------------------------------------------------
LEMMA OptionTypes ==
  ASSUME Types
  PROVE  /\ opt.Aflag \in Nat /\ opt.Bflag \in Nat /\ opt.max \in Nat
         /\ opt.mflag \in BOOLEAN
BY DEF Types, Option

LEMMA FileTypes ==
  ASSUME Types, file \in DOMAIN files
  PROVE  /\ file \in Nat /\ file <= Len(files) /\ Lines \in Seq(Content) /\ Len(Lines) \in Nat
         /\ Current.below \in Nat /\ file + Current.below <= Len(files)
         /\ Current.kind = "binary" => Lines # <<>>
         /\ Current.kind = "locked" => Current.below = 0
<1>1. files[file] \in File
  BY DEF Types
<1>2. DOMAIN files = 1 .. Len(files) /\ Len(files) \in Nat
  BY DEF Types
<1> QED
  BY <1>1, <1>2 DEF Types, File, Current, Lines

LEMMA LineTypes ==
  ASSUME Types, file \in DOMAIN files, line_no \in Nat, line_no >= 1, line_no <= Len(Lines)
  PROVE  /\ This \in Content /\ This.len \in Nat /\ This.so \in Int
         /\ This.so = -1 \/ This.so >= 0
<1>1. This \in Content
  BY FileTypes DEF This
<1> QED
  BY <1>1 DEF Content

LEMMA LineIsEntry ==
  ASSUME NEW n \in Nat, file \in Nat
  PROVE  Line(n) \in Entries
BY DEF Line, Entries

LEMMA EntriesHaveNumbers ==
  ASSUME NEW q \in Seq(Entries)
  PROVE  \A n \in DOMAIN q : q[n].file \in Nat /\ q[n].no \in Nat
<1>1. \A n \in DOMAIN q : q[n] \in Entries
  OBVIOUS
<1> QED
  BY <1>1 DEF Entries

LEMMA InitIInv == Init => IInv
<1> SUFFICES ASSUME Init PROVE IInv
  OBVIOUS
<1>1. PICK call \in Calls : files = call.files /\ opt = call.opt
  BY DEF Init
<1>2. files \in Seq(File) /\ opt \in Option /\ \A n \in DOMAIN files : n + files[n].below <= Len(files)
  BY <1>1, CallsAssumption
<1>3. opt.max \in Nat /\ opt.Bflag \in Nat /\ Len(files) \in Nat
  BY <1>2 DEF Option
<1>4. Types
  <2>1. TypeOK
    <3>1. /\ line_no \in Nat /\ c \in Nat /\ total \in Nat /\ tail \in Nat /\ st \in Nat
          /\ mcount \in Nat
      BY <1>1, <1>3 DEF Init
    <3>2. m \in 0 .. MAX_LINE_MATCHES /\ file \in 1 .. Len(files) + 1
      BY <1>3, MatchesAssumption DEF Init
    <3>3. \A n \in DOMAIN queue : queue[n].file \in Nat /\ queue[n].no \in Nat
      BY DEF Init
    <3>4. status \in {-1, 0, 1, 2} /\ pc = "procfile"
      BY DEF Init
    <3> QED
      BY <3>1, <3>2, <3>3, <3>4 DEF Init, TypeOK
  <2>2. queue \in Seq(Entries)
    BY DEF Init
  <2> QED
    BY <1>2, <2>1, <2>2 DEF Types
<1>5. PlaceInv /\ LimitInv /\ QueueInv
  BY <1>3 DEF Init, PlaceInv, LimitInv, QueueInv, FileOpen, InLine, Searching, SelectedSoFar
<1> QED
  BY <1>4, <1>5 DEF IInv
-----------------------------------------------------------------------------
(* A longer queue still ends with the last line.                            *)
LEMMA EnqueueRecent ==
  ASSUME Types, Len(queue) <= opt.Bflag, opt.Bflag > 0, NEW l \in Nat,
         file \in Nat,
         NEW q, q = enqueue(queue, Line(l + 1))
  PROVE  /\ q \in Seq(Entries) /\ Len(q) <= opt.Bflag
         /\ (\A n \in DOMAIN queue : queue[n] = Line(l - Len(queue) + n))
              => \A n \in DOMAIN q : q[n] = Line(l + 1 - Len(q) + n)
<1>1. /\ queue \in Seq(Entries) /\ Len(queue) \in Nat /\ opt.Bflag \in Nat
      /\ Line(l + 1) \in Entries
  BY OptionTypes, LineIsEntry DEF Types
<1> DEFINE a == Append(queue, Line(l + 1))
<1>2. a \in Seq(Entries) /\ Len(a) = Len(queue) + 1 /\ a # <<>>
  BY <1>1
<1>3. \A n \in 1 .. Len(a) : a[n] = IF n <= Len(queue) THEN queue[n] ELSE Line(l + 1)
  BY <1>1
<1>4. CASE Len(queue) + 1 > opt.Bflag
  <2>1. q = Tail(a)
    BY <1>4 DEF enqueue
  <2> HIDE DEF a
  <2>2. q \in Seq(Entries) /\ Len(q) = Len(queue) /\ \A n \in 1 .. Len(q) : q[n] = a[n + 1]
    <3>1. /\ Tail(a) \in Seq(Entries) /\ Len(Tail(a)) = Len(a) - 1
          /\ \A n \in 1 .. Len(Tail(a)) : Tail(a)[n] = a[n + 1]
      BY <1>2, HeadTailProperties
    <3>2. Len(a) - 1 = Len(queue)
      BY <1>1, <1>2
    <3>3. q \in Seq(Entries) /\ Len(q) = Len(queue)
      BY <2>1, <3>1, <3>2
    <3>4. \A n \in 1 .. Len(q) : q[n] = a[n + 1]
      BY <2>1, <3>1
    <3> QED
      BY <3>3, <3>4
  <2>3. ASSUME \A n \in DOMAIN queue : queue[n] = Line(l - Len(queue) + n),
               NEW n \in DOMAIN q
        PROVE  q[n] = Line(l + 1 - Len(q) + n)
    <3>1. n \in 1 .. Len(queue) /\ n + 1 \in 1 .. Len(a)
      BY <1>1, <1>2, <2>2, <2>3
    <3>2. CASE n + 1 <= Len(queue)
      <4>1. q[n] = queue[n + 1] /\ n + 1 \in DOMAIN queue
        BY <1>1, <1>3, <2>2, <3>1, <3>2
      <4>2. queue[n + 1] = Line(l - Len(queue) + (n + 1))
        BY <2>3, <4>1
      <4>3. l - Len(queue) + (n + 1) = l + 1 - Len(q) + n
        <5>1. Len(queue) \in Nat /\ Len(q) = Len(queue) /\ n \in Nat
          BY <1>1, <2>2, <3>1
        <5> QED
          BY <5>1
      <4> QED
        BY <4>1, <4>2, <4>3
    <3>3. CASE n + 1 > Len(queue)
      <4>1. q[n] = Line(l + 1)
        BY <1>1, <1>3, <2>2, <3>1, <3>3
      <4>2. l + 1 - Len(q) + n = l + 1
        BY <1>1, <2>2, <3>1, <3>3
      <4> QED
        BY <4>1, <4>2
    <3> QED
      BY <1>1, <3>1, <3>2, <3>3
  <2> QED
    BY <1>1, <2>2, <2>3
<1>5. CASE ~ (Len(queue) + 1 > opt.Bflag)
  <2>1. q = a
    BY <1>5 DEF enqueue
  <2> HIDE DEF a
  <2>2. ASSUME \A n \in DOMAIN queue : queue[n] = Line(l - Len(queue) + n),
               NEW n \in DOMAIN q
        PROVE  q[n] = Line(l + 1 - Len(q) + n)
    <3>1. n \in 1 .. Len(queue) + 1 /\ n \in 1 .. Len(a)
      BY <1>1, <1>2, <2>1, <2>2
    <3>2. CASE n <= Len(queue)
      <4>1. q[n] = queue[n] /\ n \in DOMAIN queue
        BY <1>1, <1>3, <2>1, <3>1, <3>2
      <4>2. queue[n] = Line(l - Len(queue) + n)
        BY <2>2, <4>1
      <4>3. l - Len(queue) + n = l + 1 - Len(q) + n
        BY <1>1, <1>2, <2>1, <3>1, SMTT(30)
      <4> QED
        BY <4>1, <4>2, <4>3
    <3>3. CASE n > Len(queue)
      <4>1. q[n] = Line(l + 1)
        BY <1>1, <1>3, <2>1, <3>1, <3>3
      <4>2. l + 1 - Len(q) + n = l + 1
        BY <1>1, <1>2, <2>1, <3>1, <3>3
      <4> QED
        BY <4>1, <4>2
    <3> QED
      BY <1>1, <3>1, <3>2, <3>3
  <2> QED
    BY <1>1, <1>2, <1>5, <2>1, <2>2
<1> QED
  BY <1>4, <1>5
-----------------------------------------------------------------------------
(* main and grep_tree *)
LEMMA NextFileKeepsIInv ==
  ASSUME IInv, Directory \/ PassOver \/ Unreadable
  PROVE  IInv'
<1>1. pc = "procfile" /\ file \in 1 .. Len(files) /\ Len(files) \in Nat
  BY DEF Directory, PassOver, Unreadable, NextFile, IInv, Types, TypeOK
<1>2. file \in DOMAIN files
  BY <1>1 DEF IInv, Types
<1>3. file' \in 1 .. Len(files) + 1
  <2>1. Current.below \in Nat /\ file + Current.below <= Len(files)
    BY <1>2, FileTypes DEF IInv
  <2> QED
    BY <1>1, <2>1 DEF Directory, PassOver, Unreadable
<1>4. file_err' \in BOOLEAN /\ UNCHANGED <<args, pc, total, status, line_no, c, search, mcount, queue, shape>>
  BY DEF Directory, PassOver, Unreadable, IInv, Types, TypeOK, limits
<1>5. Types'
  BY <1>3, <1>4 DEF IInv, Types, TypeOK, args, search, shape
<1>6. ~ FileOpen /\ ~ FileOpen' /\ ~ InLine'
  BY <1>1, <1>4 DEF FileOpen, InLine
<1>7. PlaceInv'
  BY <1>1, <1>4, <1>6 DEF PlaceInv, Searching
<1>8. LimitInv' /\ QueueInv'
  BY <1>4, <1>6 DEF IInv, LimitInv, QueueInv, SelectedSoFar, args
<1> QED
  BY <1>5, <1>7, <1>8 DEF IInv

LEMMA OpenKeepsIInv ==
  ASSUME IInv, Open
  PROVE  IInv'
<1>1. pc = "procfile" /\ file \in 1 .. Len(files) /\ Len(files) \in Nat
  BY DEF Open, NextFile, IInv, Types, TypeOK
<1>2. file \in DOMAIN files
  BY <1>1 DEF IInv, Types
<1>3. /\ pc' = "fgetln" /\ line_no' = 0 /\ c' = 0 /\ tail' = 0
      /\ UNCHANGED <<files, opt, total, status, file_err, file, st, m, selected, mcount, queue, first, prev>>
  BY DEF Open, args, limits, search
<1>4. Types'
  BY <1>3 DEF IInv, Types, TypeOK
<1>5. queue = <<>> /\ total \in Nat /\ mcount \in Nat
  BY <1>1 DEF IInv, QueueInv, FileOpen, Types, TypeOK
<1>6. PlaceInv'
  <2>1. Len(Lines) \in Nat /\ Lines' = Lines
    BY <1>2, <1>3, FileTypes DEF IInv, Lines, Current
  <2>2. (Len(Lines))' = Len(Lines)
    BY <2>1
  <2>3. (FileOpen => file \in DOMAIN files /\ line_no <= Len(Lines) /\ c <= line_no)'
    BY <1>2, <1>3, <2>1, <2>2
  <2> QED
    BY <1>3, <2>3 DEF PlaceInv, InLine, Searching
<1>7. LimitInv'
  <2>1. opt.mflag => mcount > 0 /\ total + mcount = opt.max
    <3>1. opt.mflag => total + 0 + mcount = opt.max
      BY <1>1 DEF IInv, LimitInv, SelectedSoFar, FileOpen
    <3>2. opt.mflag => mcount > 0
      BY <1>5 DEF Open, NotToBeRead
    <3> QED
      BY <1>5, <3>1, <3>2
  <2>2. FileOpen'
    BY <1>3 DEF FileOpen
  <2> QED
    BY <1>3, <1>5, <2>1, <2>2 DEF LimitInv, SelectedSoFar
<1>8. QueueInv'
  BY <1>3, <1>5 DEF IInv, QueueInv, Recent
<1> QED
  BY <1>4, <1>6, <1>7, <1>8 DEF IInv
-----------------------------------------------------------------------------
(* procfile and the loop of procline *)
LEMMA ReadLineKeepsIInv ==
  ASSUME IInv, ReadLine
  PROVE  IInv'
<1>1. /\ pc = "fgetln" /\ pc' = "procline" /\ line_no' = line_no + 1 /\ st' = 0 /\ m' = 0 /\ selected' = FALSE
      /\ UNCHANGED <<files, opt, total, status, file_err, file, c, mcount, queue, first, prev, tail>>
      /\ line_no < Len(Lines) /\ ~ (Nottext /\ opt.binbehave = "SKIP")
  BY DEF ReadLine, MoreLines, args, limits, shape
<1>2. FileOpen /\ ~ InLine /\ FileOpen' /\ InLine'
  BY <1>1 DEF FileOpen, InLine
<1>3. /\ file \in DOMAIN files /\ c <= line_no /\ line_no \in Nat /\ c \in Nat
      /\ Len(Lines) \in Nat /\ total \in Nat /\ mcount \in Nat
  BY <1>2, FileTypes DEF IInv, PlaceInv, Types, TypeOK
<1>4. Lines' = Lines /\ (Nottext <=> Nottext')
  BY <1>1 DEF Lines, Current, Nottext
<1>5. Types'
  <2>1. TypeOK'
    <3>1. line_no' \in Nat /\ st' \in Nat /\ m' \in 0 .. MAX_LINE_MATCHES
      BY <1>1, <1>3, MatchesAssumption
    <3>2. pc' = "procline" /\ selected' \in BOOLEAN
      BY <1>1
    <3> QED
      BY <1>1, <3>1, <3>2 DEF IInv, Types, TypeOK
  <2> QED
    BY <1>1, <2>1 DEF IInv, Types
<1>6. PlaceInv'
  <2>1. (file \in DOMAIN files /\ line_no <= Len(Lines) /\ c <= line_no)'
    BY <1>1, <1>3, <1>4
  <2>2. (line_no >= 1 /\ c < line_no)'
    BY <1>1, <1>3
  <2>3. (Found => st <= This.so)'
    <3>1. This' \in Content /\ (This.so)' \in Int /\ ((This.so)' = -1 \/ (This.so)' >= 0)
      <4>1. (Types /\ file \in DOMAIN files /\ line_no \in Nat /\ line_no >= 1 /\ line_no <= Len(Lines))'
        BY <1>1, <1>3, <1>5, <2>1, <2>2
      <4>2. (Lines \in Seq(Content))' /\ (Len(Lines) \in Nat)'
        BY <1>1, <1>3, <1>4, FileTypes DEF IInv
      <4>3. This' \in Content
        BY <4>1, <4>2 DEF This
      <4> QED
        BY <4>3 DEF Content
    <3> QED
      BY <1>1, <3>1 DEF Found
  <2>4. ~ (Nottext /\ opt.binbehave = "SKIP")'
    BY <1>1, <1>4
  <2> QED
    BY <2>1, <2>2, <2>3, <2>4 DEF PlaceInv
<1>7. LimitInv'
  BY <1>1, <1>2 DEF IInv, LimitInv, SelectedSoFar
<1>8. QueueInv'
  <2>1. LastDone = line_no /\ LastDone' = line_no
    BY <1>1, <1>2, <1>3 DEF LastDone
  <2>2. Showing <=> Showing'
    BY <1>1, <1>4 DEF Showing, Shows
  <2>3. Showing => Recent'
    BY <1>1, <1>2, <2>1 DEF IInv, QueueInv, Recent, Line
  <2>4. line_no' # 0
    BY <1>1, <1>3
  <2> QED
    BY <1>1, <1>2, <2>2, <2>3, <2>4 DEF IInv, QueueInv
<1> QED
  BY <1>5, <1>6, <1>7, <1>8 DEF IInv

LEMMA SearchKeepsIInv ==
  ASSUME IInv, NotFound \/ NotWhole \/ Match
  PROVE  IInv'
<1>1. /\ pc = "procline" /\ pc' \in {"procline", "context"} /\ st' = NextStart
      /\ UNCHANGED <<files, opt, total, status, file_err, file, line_no, c, mcount, queue, first, prev, tail>>
  BY DEF NotFound, NotWhole, Match, Searching, args, limits, shape
<1>2. FileOpen /\ InLine /\ FileOpen' /\ InLine'
  BY <1>1 DEF FileOpen, InLine
<1>3. file \in DOMAIN files /\ line_no \in Nat /\ line_no >= 1 /\ line_no <= Len(Lines) /\ st \in Nat
  BY <1>2 DEF IInv, PlaceInv, Types, TypeOK
<1>4. This \in Content /\ This.len \in Nat /\ This.so \in Int /\ (This.so = -1 \/ This.so >= 0)
  BY <1>3, LineTypes DEF IInv
<1>5. Found => st <= This.so
  BY DEF IInv, PlaceInv, NotFound, NotWhole, Match
<1>6. Lines' = Lines /\ This' = This /\ (Nottext <=> Nottext') /\ (Showing <=> Showing')
  BY <1>1 DEF Lines, This, Current, Nottext, Showing, Shows
<1>7. st' \in Nat /\ (st' < This.len /\ Found => st' <= This.so)
  <2>1. CASE opt.REG_NOSUB
    BY <1>1, <1>4, <2>1 DEF NextStart
  <2>2. CASE ~ opt.REG_NOSUB /\ Found
    BY <1>1, <1>3, <1>4, <1>5, <2>2 DEF NextStart, Found
  <2>3. CASE ~ opt.REG_NOSUB /\ ~ Found
    BY <1>1, <2>3 DEF NextStart
  <2> QED
    BY <2>1, <2>2, <2>3
<1>8. Types'
  <2>1. m' \in 0 .. MAX_LINE_MATCHES
    <3>1. m \in 0 .. MAX_LINE_MATCHES /\ MAX_LINE_MATCHES \in Nat
      BY MatchesAssumption DEF IInv, Types, TypeOK
    <3>2. m' = m \/ (m < MAX_LINE_MATCHES /\ m' = m + 1)
      BY DEF NotFound, NotWhole, Match
    <3> QED
      BY <3>1, <3>2
  <2>2. selected' \in BOOLEAN
    <3>1. selected \in BOOLEAN
      BY DEF IInv, Types, TypeOK
    <3>2. CASE UNCHANGED selected
      BY <3>1, <3>2
    <3>3. CASE Match
      BY <3>3 DEF Match
    <3> QED
      BY <3>2, <3>3 DEF NotFound, NotWhole
  <2>3. TypeOK'
    BY <1>1, <1>7, <2>1, <2>2 DEF IInv, Types, TypeOK
  <2> QED
    BY <1>1, <2>3 DEF IInv, Types
<1>9. PlaceInv'
  <2>1. (Searching /\ Found => st <= This.so)'
    <3>1. (This.len)' = This.len /\ (This.so)' = This.so /\ (Found' <=> Found)
      BY <1>6 DEF Found
    <3> QED
      BY <1>7, <3>1 DEF Searching
  <2> QED
    BY <1>1, <1>2, <1>6, <2>1 DEF IInv, PlaceInv
<1>10. LimitInv'
  BY <1>1, <1>2 DEF IInv, LimitInv, SelectedSoFar
<1>11. QueueInv'
  <2>1. LastDone' = LastDone
    BY <1>1, <1>2 DEF LastDone
  <2>2. Recent => Recent'
    BY <1>1, <2>1 DEF Recent, Line
  <2> QED
    BY <1>1, <1>2, <1>6, <2>2 DEF IInv, QueueInv
<1> QED
  BY <1>8, <1>9, <1>10, <1>11 DEF IInv
-----------------------------------------------------------------------------
(* The end of a line: what procline returns is counted, and taken from the    *)
(* limit, which ends the file when it is spent.                             *)
LEMMA EndLineCounts ==
  ASSUME IInv, EndLine
  PROVE  /\ FileOpen /\ InLine /\ FileOpen' /\ ~ InLine' /\ pc' # "procfile"
         /\ UNCHANGED <<files, opt, total, status, file_err, file, line_no, st, m, selected>>
         /\ c' \in Nat /\ mcount' \in Nat /\ PlaceInv' /\ LimitInv'
<1>1. InLine /\ pc' \in {"fgetln", "grep_close"}
  BY DEF EndLine, InLine
<1>2. FileOpen /\ FileOpen' /\ ~ InLine' /\ ~ Searching'
  BY <1>1 DEF FileOpen, InLine, Searching
<1>3. UNCHANGED <<files, opt, total, status, file_err, file, line_no, st, m, selected>>
  BY DEF EndLine, args, limits, search
<1>4. /\ c \in Nat /\ mcount \in Nat /\ total \in Nat /\ line_no \in Nat /\ c < line_no
      /\ selected \in BOOLEAN /\ opt.max \in Nat /\ opt.mflag \in BOOLEAN
  BY <1>1, OptionTypes DEF IInv, PlaceInv, Types, TypeOK
<1>5. opt.mflag => mcount > 0 /\ total + c + mcount = opt.max
  BY <1>1, <1>2 DEF IInv, LimitInv, SelectedSoFar, InLine
<1>6. c' \in Nat /\ c' <= line_no /\ c' = IF selected THEN c + 1 ELSE c
  BY <1>4 DEF EndLine
<1>7. mcount' \in Nat /\ mcount' = IF opt.mflag /\ selected THEN mcount - 1 ELSE mcount
  BY <1>4, <1>5 DEF EndLine, StillAllowed
<1>8. PlaceInv'
  <2>1. Lines' = Lines /\ (Nottext <=> Nottext')
    BY <1>3 DEF Lines, Current, Nottext
  <2> QED
    BY <1>2, <1>3, <1>6, <2>1 DEF IInv, PlaceInv
<1>9. LimitInv'
  <2>1. opt.mflag /\ pc' # "grep_close" => mcount' > 0
    BY <1>4, <1>7 DEF EndLine, LimitReached
  <2>2. opt.mflag => total + c' + mcount' = opt.max /\ total + c' <= opt.max
    BY <1>4, <1>5, <1>6, <1>7
  <2> QED
    BY <1>2, <1>3, <2>1, <2>2 DEF LimitInv, SelectedSoFar
<1> QED
  BY <1>1, <1>2, <1>3, <1>6, <1>7, <1>8, <1>9

LEMMA SelectedKeepsIInv ==
  ASSUME IInv, BinaryMatches \/ SelectLine
  PROVE  IInv'
<1>1. EndLine /\ selected
  BY DEF BinaryMatches, SelectLine, OnlyCounts
<1>2. /\ FileOpen /\ InLine /\ FileOpen' /\ ~ InLine'
      /\ UNCHANGED <<files, opt, total, status, file_err, file, line_no, st, m, selected>>
      /\ c' \in Nat /\ mcount' \in Nat /\ PlaceInv' /\ LimitInv' /\ pc' # "procfile"
  BY <1>1, EndLineCounts
<1>3. line_no \in Nat /\ line_no >= 1 /\ opt.Bflag \in Nat /\ opt.Aflag \in Nat
      /\ queue \in Seq(Entries) /\ Len(queue) \in Nat /\ Len(queue) <= opt.Bflag
  BY <1>2, OptionTypes DEF IInv, Types, TypeOK, PlaceInv, QueueInv
<1>4. queue' = queue \/ queue' = <<>>
  BY DEF BinaryMatches, SelectLine, PrintSelected, LeftByPrintqueue
<1>5. Showing => queue' = <<>>
  <2>1. SUFFICES ASSUME Showing PROVE queue' = <<>>
    OBVIOUS
  <2>2. SelectLine /\ PrintSelected
    BY <1>1, <2>1 DEF Showing, SelectLine, BinaryMatches, OnlyCounts
  <2>3. opt.Bflag = 0 => queue = <<>>
    BY <1>3
  <2> QED
    BY <1>3, <2>2, <2>3 DEF PrintSelected, LeftByPrintqueue
<1>6. Types'
  <2>1. tail' \in Nat /\ first' \in BOOLEAN /\ prev' \in BOOLEAN
    BY <1>3 DEF BinaryMatches, SelectLine, PrintSelected, shape, IInv, Types, TypeOK
  <2>2. queue' \in Seq(Entries)
    <3>1. <<>> \in Seq(Entries)
      OBVIOUS
    <3> QED
      BY <1>3, <1>4, <3>1
  <2>3. pc' \in {"fgetln", "grep_close"}
    BY <1>1 DEF EndLine
  <2>4. (\A n \in DOMAIN queue : queue[n].file \in Nat /\ queue[n].no \in Nat)'
    BY <2>2, EntriesHaveNumbers
  <2>5. TypeOK'
    BY <1>2, <2>1, <2>3, <2>4 DEF IInv, Types, TypeOK
  <2> QED
    BY <1>2, <2>2, <2>5 DEF IInv, Types
<1>7. QueueInv'
  <2>1. Len(queue') <= opt.Bflag /\ line_no' # 0
    BY <1>2, <1>3, <1>4
  <2>2. Showing <=> Showing'
    BY <1>2 DEF Showing, Shows, Nottext, Current
  <2>3. queue' = <<>> => Recent'
    BY DEF Recent
  <2> QED
    BY <1>2, <1>5, <2>1, <2>2, <2>3 DEF QueueInv
<1> QED
  BY <1>2, <1>6, <1>7 DEF IInv

LEMMA NotSelectedKeepsIInv ==
  ASSUME IInv, TrailingLine \/ OtherLine
  PROVE  IInv'
<1>1. EndLine /\ ~ selected /\ queue' = Queued
  BY DEF TrailingLine, OtherLine
<1>2. /\ FileOpen /\ InLine /\ FileOpen' /\ ~ InLine'
      /\ UNCHANGED <<files, opt, total, status, file_err, file, line_no, st, m, selected>>
      /\ c' \in Nat /\ mcount' \in Nat /\ PlaceInv' /\ LimitInv' /\ pc' # "procfile"
  BY <1>1, EndLineCounts
<1>3. line_no \in Nat /\ line_no >= 1 /\ opt.Bflag \in Nat
      /\ queue \in Seq(Entries) /\ Len(queue) \in Nat /\ Len(queue) <= opt.Bflag /\ file \in Nat
  BY <1>2, OptionTypes DEF IInv, Types, TypeOK, PlaceInv, QueueInv
<1>4. LastDone = line_no - 1 /\ LastDone' = line_no
  BY <1>2, <1>3 DEF LastDone
<1>5. queue' \in Seq(Entries) /\ Len(queue') <= opt.Bflag /\ (Recent => Recent')
  <2>1. CASE opt.Bflag > 0
    <3>1. line_no - 1 \in Nat /\ line_no - 1 + 1 = line_no
      BY <1>3
    <3>2. queue' = enqueue(queue, Line(line_no - 1 + 1))
      BY <1>1, <2>1, <3>1 DEF Queued, ThisLine
    <3>3. /\ queue' \in Seq(Entries) /\ Len(queue') <= opt.Bflag
          /\ (\A n \in DOMAIN queue : queue[n] = Line(line_no - 1 - Len(queue) + n))
               => \A n \in DOMAIN queue' : queue'[n] = Line(line_no - 1 + 1 - Len(queue') + n)
      BY <1>3, <2>1, <3>1, <3>2, EnqueueRecent, ZenonT(30) DEF IInv
    <3>4. (\A n \in DOMAIN queue' : queue'[n] = Line(line_no - Len(queue') + n)) => Recent'
      BY <1>2, <1>4 DEF Recent, Line
    <3> QED
      BY <1>4, <3>1, <3>3, <3>4 DEF Recent
  <2>2. CASE ~ (opt.Bflag > 0)
    <3>1. queue' = queue /\ queue = <<>>
      BY <1>1, <1>3, <2>2 DEF Queued
    <3> QED
      BY <1>3, <3>1 DEF Recent
  <2> QED
    BY <2>1, <2>2
<1>6. Types'
  <2>1. tail' \in Nat /\ first' \in BOOLEAN /\ prev' \in BOOLEAN
    <3>1. tail \in Nat /\ first \in BOOLEAN
      BY DEF IInv, Types, TypeOK
    <3>2. tail' = tail \/ (tail > 0 /\ tail' = tail - 1)
      BY DEF TrailingLine, OtherLine, Trailing
    <3>3. tail' \in Nat
      BY <3>1, <3>2
    <3> QED
      BY <3>1, <3>3 DEF TrailingLine, OtherLine
  <2>2. pc' \in {"fgetln", "grep_close"}
    BY <1>1 DEF EndLine
  <2>3. (\A n \in DOMAIN queue : queue[n].file \in Nat /\ queue[n].no \in Nat)'
    BY <1>5, EntriesHaveNumbers
  <2>4. TypeOK'
    BY <1>2, <2>1, <2>2, <2>3 DEF IInv, Types, TypeOK
  <2> QED
    BY <1>2, <1>5, <2>4 DEF IInv, Types
<1>7. QueueInv'
  <2>1. (Showing <=> Showing') /\ line_no' # 0
    BY <1>2, <1>3 DEF Showing, Shows, Nottext, Current
  <2> QED
    BY <1>2, <1>5, <2>1 DEF IInv, QueueInv
<1> QED
  BY <1>2, <1>6, <1>7 DEF IInv
-----------------------------------------------------------------------------
(* The end of a file *)
LEMMA StopsReadingKeepsIInv ==
  ASSUME IInv, OneIsEnough \/ EndOfFile
  PROVE  IInv'
<1>1. /\ pc = "fgetln" /\ pc' = "grep_close"
      /\ UNCHANGED <<files, opt, total, status, file_err, file, line_no, c, st, m, selected, mcount,
                     queue, first, prev, tail>>
  BY DEF OneIsEnough, EndOfFile, MoreLines, args, limits, search, shape
<1>2. FileOpen /\ FileOpen' /\ ~ InLine /\ ~ InLine' /\ ~ Searching'
  BY <1>1 DEF FileOpen, InLine, Searching
<1>3. Types'
  BY <1>1 DEF IInv, Types, TypeOK
<1>4. PlaceInv'
  BY <1>1, <1>2 DEF IInv, PlaceInv, Lines, Current, Nottext
<1>5. LimitInv'
  BY <1>1, <1>2 DEF IInv, LimitInv, SelectedSoFar
<1>6. QueueInv'
  <2>1. (Showing <=> Showing') /\ LastDone' = LastDone
    BY <1>1, <1>2 DEF Showing, Shows, Nottext, Current, LastDone
  <2>2. Recent => Recent'
    BY <1>1, <2>1 DEF Recent, Line
  <2> QED
    BY <1>1, <1>2, <2>1, <2>2 DEF IInv, QueueInv
<1> QED
  BY <1>3, <1>4, <1>5, <1>6 DEF IInv

LEMMA LeavesFileKeepsIInv ==
  ASSUME IInv, EmptyFileMatches \/ SkipBinary \/ Close \/ Exit
  PROVE  IInv'
<1>1. /\ pc' \in {"procfile", "exited"}
      /\ UNCHANGED <<files, opt, file_err, line_no, c, st, m, selected, mcount, first, prev, tail>>
  BY DEF EmptyFileMatches, SkipBinary, Close, Exit, args, limits, search, shape
<1>2. ~ FileOpen' /\ ~ InLine' /\ ~ Searching'
  BY <1>1 DEF FileOpen, InLine, Searching
<1>3. opt.Bflag \in Nat /\ Len(queue) <= opt.Bflag /\ queue \in Seq(Entries) /\ line_no \in Nat /\ c \in Nat
  BY OptionTypes DEF IInv, QueueInv, Types, TypeOK
<1>4. queue' = <<>>
  <2>1. CASE EmptyFileMatches
    <3>1. FileOpen /\ line_no = 0
      <4>1. FileOpen /\ Lines = <<>>
        BY <2>1 DEF EmptyFileMatches, MoreLines, FileOpen
      <4>2. line_no <= 0
        BY <4>1 DEF IInv, PlaceInv
      <4> QED
        BY <1>3, <4>1, <4>2
    <3> QED
      BY <2>1, <3>1 DEF EmptyFileMatches, IInv, QueueInv
  <2>2. CASE SkipBinary
    <3>1. line_no = 0
      BY <2>2 DEF SkipBinary, MoreLines, FileOpen, IInv, PlaceInv
    <3> QED
      BY <2>2, <3>1 DEF SkipBinary, MoreLines, FileOpen, IInv, QueueInv
  <2>3. CASE Close
    <3>1. opt.Bflag = 0 => queue = <<>>
      BY <1>3
    <3> QED
      BY <1>3, <2>3, <3>1 DEF Close, clearqueue
  <2>4. CASE Exit
    BY <2>4 DEF Exit, IInv, QueueInv, FileOpen
  <2> QED
    BY <2>1, <2>2, <2>3, <2>4
<1>5. file' \in 1 .. Len(files) + 1
  <2>1. CASE EmptyFileMatches \/ Exit
    BY <2>1 DEF EmptyFileMatches, Exit, IInv, Types, TypeOK
  <2>2. CASE SkipBinary \/ Close
    <3>1. file \in DOMAIN files /\ file' = file + 1
      BY <2>2 DEF SkipBinary, Close, MoreLines, FileOpen, IInv, PlaceInv
    <3>2. file \in Nat /\ file >= 1 /\ file <= Len(files) /\ Len(files) \in Nat
      BY <3>1 DEF IInv, Types, TypeOK
    <3> QED
      BY <3>1, <3>2
  <2> QED
    BY <2>1, <2>2
<1>6. total' = SelectedSoFar /\ total' \in Nat
  <2>1. total \in Nat
    BY DEF IInv, Types, TypeOK
  <2>2. CASE EmptyFileMatches \/ SkipBinary
    <3>1. FileOpen /\ c <= line_no
      BY <2>2 DEF EmptyFileMatches, SkipBinary, MoreLines, FileOpen, IInv, PlaceInv
    <3>2. line_no = 0
      <4>1. CASE EmptyFileMatches
        <5>1. line_no <= 0
          BY <3>1, <4>1 DEF EmptyFileMatches, IInv, PlaceInv
        <5> QED
          BY <1>3, <5>1
      <4>2. CASE SkipBinary
        BY <3>1, <4>2 DEF SkipBinary, IInv, PlaceInv
      <4> QED
        BY <2>2, <4>1, <4>2
    <3>3. c = 0 /\ total' = total
      BY <1>3, <2>2, <3>1, <3>2 DEF EmptyFileMatches, SkipBinary, limits
    <3> QED
      BY <2>1, <3>1, <3>3 DEF SelectedSoFar
  <2>3. CASE Close
    BY <1>3, <2>1, <2>3 DEF Close, SelectedSoFar, FileOpen
  <2>4. CASE Exit
    BY <2>1, <2>4 DEF Exit, SelectedSoFar, FileOpen
  <2> QED
    BY <2>2, <2>3, <2>4
<1>7. Types'
  <2>1. status' \in {-1, 0, 1, 2}
    BY DEF EmptyFileMatches, SkipBinary, Close, Exit, ExitStatus, limits, IInv, Types, TypeOK
  <2>2. (\A n \in DOMAIN queue : queue[n].file \in Nat /\ queue[n].no \in Nat)'
    BY <1>4
  <2>3. TypeOK'
    BY <1>1, <1>5, <1>6, <2>1, <2>2 DEF IInv, Types, TypeOK
  <2> QED
    BY <1>1, <1>4, <2>3 DEF IInv, Types
<1>8. PlaceInv'
  BY <1>2 DEF PlaceInv
<1>9. LimitInv'
  <2>1. SelectedSoFar' = SelectedSoFar
    BY <1>2, <1>6 DEF SelectedSoFar
  <2>2. pc # "exited"
    BY DEF EmptyFileMatches, SkipBinary, Close, Exit, MoreLines
  <2> QED
    BY <1>1, <1>2, <2>1, <2>2 DEF IInv, LimitInv
<1>10. QueueInv'
  BY <1>1, <1>2, <1>3, <1>4 DEF QueueInv
<1> QED
  BY <1>7, <1>8, <1>9, <1>10 DEF IInv

(* The lines of the file that were selected are not added to the total. *)
LEMMA SearchFailsKeepsIInv ==
  ASSUME IInv, SearchFails
  PROVE  IInv'
<1>1. /\ pc = "procline" /\ pc' = "exited" /\ status' = 2
      /\ UNCHANGED <<files, opt, total, file_err, file, line_no, c, st, m, selected, mcount, queue, first, prev, tail>>
  BY DEF SearchFails, args, search, shape
<1>2. FileOpen /\ ~ FileOpen' /\ ~ InLine' /\ ~ Searching'
  BY <1>1 DEF FileOpen, InLine, Searching
<1>3. Types'
  BY <1>1 DEF IInv, Types, TypeOK
<1>4. PlaceInv'
  BY <1>2 DEF PlaceInv
<1>5. LimitInv'
  <2>1. total \in Nat /\ c \in Nat /\ opt.max \in Nat
    BY OptionTypes DEF IInv, Types, TypeOK
  <2>2. opt.mflag => total + c <= opt.max
    BY <1>2 DEF IInv, LimitInv, SelectedSoFar
  <2>3. opt.mflag => total <= opt.max
    BY <2>1, <2>2
  <2> QED
    BY <1>1, <1>2, <2>1, <2>3 DEF LimitInv, SelectedSoFar
<1>6. QueueInv'
  BY <1>1, <1>2 DEF IInv, QueueInv
<1> QED
  BY <1>3, <1>4, <1>5, <1>6 DEF IInv

LEMMA NextIInv == IInv /\ [Next]_vars => IInv'
<1>1. ASSUME IInv, UNCHANGED vars PROVE IInv'
  BY <1>1 DEF vars, args, limits, search, shape, IInv, Types, TypeOK, PlaceInv, LimitInv, QueueInv, FileOpen,
     InLine, Searching, Found, This, Lines, Current, Nottext, SelectedSoFar, LastDone, Recent, Line, Showing, Shows
<1>2. ASSUME IInv, Next PROVE IInv'
  BY <1>2, NextFileKeepsIInv, OpenKeepsIInv, ReadLineKeepsIInv, SearchKeepsIInv, SelectedKeepsIInv,
     NotSelectedKeepsIInv, StopsReadingKeepsIInv, LeavesFileKeepsIInv, SearchFailsKeepsIInv DEF Next
<1> QED
  BY <1>1, <1>2

THEOREM Invariance == Spec => []IInv
BY InitIInv, NextIInv, PTL DEF Spec

(* For all files and options the counters stay natural numbers, with -m too,  *)
(* and no entry behind the last file is looked at, directories left out       *)
(* included.                                                               *)
THEOREM TypeCorrect == Spec => []TypeOK
<1>1. IInv => TypeOK
  BY DEF IInv, Types
<1> QED
  BY <1>1, Invariance, PTL

(* Leading context is what immediately precedes, in the same file, whatever   *)
(* -A, -B and -m are and however a file was left before.                     *)
THEOREM QueueStaysRecent == Spec => []QueueIsRecent
<1>1. IInv => QueueIsRecent
  BY DEF IInv, QueueInv, QueueIsRecent, FileOpen, Recent, LastDone, InLine, Reading
<1> QED
  BY <1>1, Invariance, PTL

(* -m: over all files together, as many lines are selected as the limit has   *)
(* lost until a search fails, and so never more than it was.                *)
WithinLimit == opt.mflag => SelectedSoFar <= opt.max
THEOREM LimitKept == Spec => []WithinLimit
<1>1. IInv => WithinLimit
  <2>1. SUFFICES ASSUME IInv, opt.mflag PROVE SelectedSoFar <= opt.max
    BY DEF WithinLimit
  <2> QED
    BY <2>1 DEF IInv, LimitInv
<1> QED
  BY <1>1, Invariance, PTL
-----------------------------------------------------------------------------
(* What is searched does not change. *)
Given ==
  /\ \A n \in DOMAIN files : \A k \in n + 1 .. n + files[n].below : k + files[k].below <= n + files[n].below
  /\ Fits(files, opt)

LEMMA ArgsKept ==
  ASSUME [Next]_vars
  PROVE  files' = files /\ opt' = opt
<1>1. CASE UNCHANGED vars
  BY <1>1 DEF vars, args
<1>2. CASE Next
  <2>1. EndLine => UNCHANGED args
    BY DEF EndLine
  <2>2. UNCHANGED args
    BY <1>2, <2>1 DEF Next, Directory, PassOver, Unreadable, Open, OneIsEnough, EmptyFileMatches, EndOfFile,
       SkipBinary, ReadLine, SearchFails, NotFound, NotWhole, Match, BinaryMatches, SelectLine, TrailingLine,
       OtherLine, Close, Exit
  <2> QED
    BY <2>2 DEF args
<1> QED
  BY <1>1, <1>2

LEMMA GivenKept ==
  /\ Init => Given
  /\ Given /\ [Next]_vars => Given'
<1>1. Init => Given
  BY CallsAssumption DEF Init, Given
<1>2. Given /\ files' = files /\ opt' = opt => Given'
  BY DEF Given, Fits
<1> QED
  BY <1>1, <1>2, ArgsKept

(* The lines that the code takes for selected, in the files it is to search.  *)
(* They are the hits where the code follows the manual.                     *)
Taken(l) ==
  /\ l.len > 0 /\ l.so # -1
  /\ opt.xflag => l.so = 0 /\ l.eo = l.len
  /\ ~ (opt.vflag /\ ~ SkipsFurther)
TakenLines ==
  UNION {{<<n, k>> : k \in {j \in DOMAIN files[n].lines : Taken(files[n].lines[j])}} : n \in Searched}

LEMMA DocumentedAreTaken ==
  ASSUME AsDocumented, NEW n \in DOMAIN files, NEW k \in DOMAIN files[n].lines
  PROVE  Taken(files[n].lines[k]) <=> IsHit(files[n].lines[k])
<1> DEFINE l == files[n].lines[k]
<1>1. (Matches(l) => l.len > 0) /\ (opt.vflag => Matches(l) /\ ~ SkipsFurther)
  BY DEF AsDocumented
<1> HIDE DEF l
<1>2. Taken(l) <=> IsHit(l)
  BY <1>1 DEF Taken, IsHit, Matches
<1> QED
  BY <1>2 DEF l

LEMMA DocumentedHits ==
  ASSUME AsDocumented
  PROVE  TakenLines = Hits
<1>1. \A n \in Searched : {j \in DOMAIN files[n].lines : Taken(files[n].lines[j])}
                             = {j \in DOMAIN files[n].lines : IsHit(files[n].lines[j])}
  BY DocumentedAreTaken DEF Searched
<1> QED
  BY <1>1 DEF TakenLines, Hits

(* The loop of procline tells a line that is to be selected: after its first   *)
(* round selected is settled, and it goes on only if selected is TRUE.       *)
SearchInv == InLine =>
  /\ selected => Taken(This)
  /\ pc = "context" \/ st >= This.len => (Taken(This) => selected)
  /\ pc = "procline" /\ m = 0 => ~ selected /\ (Found => st = 0)
  /\ pc = "procline" /\ m # 0 =>
       selected /\ Found /\ ~ SkipsFurther /\ ~ opt.vflag /\ (opt.xflag => st = 0)
  /\ This.err => pc = "procline" /\ st = 0

LEMMA SearchSettles ==
  ASSUME IInv, IInv', SearchInv, NotFound \/ NotWhole \/ Match
  PROVE  SearchInv'
<1>1. /\ pc = "procline" /\ st' = NextStart
      /\ UNCHANGED <<files, opt, file, line_no>>
  BY DEF NotFound, NotWhole, Match, Searching, args
<1>2. InLine /\ InLine' /\ FileOpen
  BY <1>1 DEF InLine, FileOpen, NotFound, NotWhole, Match
<1>3. /\ file \in DOMAIN files /\ line_no \in Nat /\ line_no >= 1 /\ line_no <= Len(Lines)
      /\ st \in Nat /\ m \in Nat /\ selected \in BOOLEAN
  BY <1>2, MatchesAssumption DEF IInv, PlaceInv, Types, TypeOK
<1>4. This \in Content /\ This.len \in Nat /\ This.so \in Int /\ This.eo \in Int
  BY <1>3, LineTypes DEF IInv, Content
<1>5. This' = This /\ (Found' <=> Found) /\ (Taken(This)' <=> Taken(This)) /\ (SkipsFurther' <=> SkipsFurther)
  BY <1>1 DEF This, Lines, Current, Found, Taken, SkipsFurther
<1>6. st < This.len /\ ~ This.err
  BY DEF NotFound, NotWhole, Match, Searching
<1>7. CASE NotFound
  <2>1. ~ Taken(This) /\ ~ Found /\ m = 0 /\ ~ selected
    BY <1>1, <1>2, <1>7 DEF NotFound, Taken, Found, SearchInv
  <2>2. m' = 0 /\ ~ selected'
    BY <1>7, <2>1 DEF NotFound
  <2> QED
    BY <1>2, <1>5, <1>6, <2>1, <2>2 DEF SearchInv
<1>8. CASE NotWhole
  <2>1. Found /\ opt.xflag /\ ~ Whole /\ pc' = "context" /\ selected' = selected
    BY <1>8 DEF NotWhole
  <2>2. st = 0
    BY <1>1, <1>2, <1>3, <2>1 DEF SearchInv
  <2>3. ~ Taken(This)
    BY <1>4, <2>1, <2>2 DEF Taken, Whole
  <2> QED
    BY <1>2, <1>5, <1>6, <2>1, <2>3 DEF SearchInv
<1>9. CASE Match
  <2>1. Found /\ (opt.xflag => Whole) /\ (opt.xflag => st = 0)
    BY <1>1, <1>2, <1>3, <1>9 DEF Match, SearchInv
  <2>2. Taken(This) <=> ~ (opt.vflag /\ ~ SkipsFurther)
    BY <1>3, <1>4, <1>6, <2>1 DEF Taken, Whole, Found
  <2>3. m' # 0
    BY <1>3, <1>9, MatchesAssumption DEF Match
  <2>4. CASE SkipsFurther \/ opt.vflag
    <3>1. pc' = "context"
      BY <1>9, <2>4 DEF Match
    <3>2. m = 0 \/ selected
      BY <1>1, <1>2 DEF SearchInv
    <3>3. selected' <=> ~ (opt.vflag /\ ~ SkipsFurther)
      BY <1>9, <3>2 DEF Match
    <3> QED
      BY <1>2, <1>5, <1>6, <2>2, <3>1, <3>3 DEF SearchInv
  <2>5. CASE ~ (SkipsFurther \/ opt.vflag)
    <3>1. pc' = "procline" /\ (selected' <=> m = 0 \/ selected)
      BY <1>9, <2>5 DEF Match
    <3>2. selected'
      BY <1>1, <1>2, <3>1 DEF SearchInv
    <3>3. opt.xflag => st' = 0
      <4>1. SUFFICES ASSUME opt.xflag PROVE st' = 0
        OBVIOUS
      <4>2. ~ opt.REG_NOSUB
        BY <4>1 DEF IInv, Types, Option
      <4>3. This.so = 0
        BY <1>4, <2>1, <4>1 DEF Whole
      <4>4. st' = This.so - st
        BY <1>1, <2>1, <4>2, Zenon DEF NextStart
      <4>5. st = 0
        BY <2>1, <4>1
      <4> QED
        BY <4>3, <4>4, <4>5
    <3>4. opt'.vflag = opt.vflag /\ opt'.xflag = opt.xflag
      BY <1>1
    <3> QED
      BY <1>2, <1>5, <1>6, <2>1, <2>2, <2>3, <2>5, <3>1, <3>2, <3>3, <3>4 DEF SearchInv
  <2> QED
    BY <2>4, <2>5
<1> QED
  BY <1>7, <1>8, <1>9

(* A line is counted if it is to be selected. *)
LEMMA SelectedIsHit ==
  ASSUME SearchInv, EndLine
  PROVE  selected <=> Taken(This)
<1>1. InLine /\ (pc = "context" \/ st >= This.len)
  BY DEF EndLine, InLine
<1> QED
  BY <1>1 DEF SearchInv

LEMMA SearchInvKept ==
  /\ Init => SearchInv
  /\ IInv /\ IInv' /\ SearchInv /\ [Next]_vars => SearchInv'
<1>1. Init => SearchInv
  BY DEF Init, SearchInv, InLine
<1>2. ASSUME UNCHANGED vars, SearchInv PROVE SearchInv'
  BY <1>2 DEF vars, args, search, SearchInv, InLine, This, Lines, Current, Found, Taken, SkipsFurther
<1>3. ASSUME IInv', ReadLine PROVE SearchInv'
  <2>1. pc' = "procline" /\ st' = 0 /\ m' = 0 /\ ~ selected'
    BY <1>3 DEF ReadLine
  <2>2. (This \in Content)'
    <3>1. (FileOpen /\ InLine)'
      BY <2>1 DEF FileOpen, InLine
    <3>2. (file \in DOMAIN files /\ line_no \in Nat /\ line_no >= 1 /\ line_no <= Len(Lines))'
      BY <1>3, <3>1 DEF IInv, PlaceInv, Types, TypeOK
    <3>3. (Lines \in Seq(Content))' /\ (Len(Lines) \in Nat)'
      <4>1. (files[file] \in File)'
        BY <1>3, <3>2 DEF IInv, Types
      <4> QED
        BY <4>1 DEF File, Lines, Current
    <3> QED
      BY <3>2, <3>3 DEF This
  <2>3. (st >= This.len)' => ~ Taken(This)'
    BY <2>1, <2>2 DEF Content, Taken
  <2> QED
    BY <2>1, <2>3 DEF SearchInv
<1>4. ASSUME IInv, IInv', SearchInv, NotFound \/ NotWhole \/ Match PROVE SearchInv'
  BY <1>4, SearchSettles
<1>5. ASSUME Next, ~ (ReadLine \/ NotFound \/ NotWhole \/ Match), IInv PROVE ~ InLine'
  <2>1. CASE Directory \/ PassOver \/ Unreadable \/ Open \/ OneIsEnough \/ EmptyFileMatches \/ EndOfFile
               \/ SkipBinary \/ SearchFails \/ Close \/ Exit
    BY <2>1 DEF Directory, PassOver, Unreadable, Open, OneIsEnough, EmptyFileMatches, EndOfFile, SkipBinary,
       SearchFails, Close, Exit, NextFile, InLine
  <2>2. CASE EndLine
    BY <2>2 DEF EndLine, InLine
  <2> QED
    BY <1>5, <2>1, <2>2 DEF Next, BinaryMatches, SelectLine, TrailingLine, OtherLine
<1>6. ~ InLine' => SearchInv'
  BY DEF SearchInv
<1> QED
  BY <1>1, <1>2, <1>3, <1>4, <1>5, <1>6
-----------------------------------------------------------------------------
(* Where grep_tree is: the directories above the next entry are selected, and *)
(* a file that was opened is one to be searched.                            *)
TreeInv ==
  /\ Reached(file)
  /\ FileOpen => /\ file \in Searched \/ (Nottext /\ opt.binbehave = "SKIP")
                 /\ file \notin Failing /\ Current.kind \notin DirKind

Spent == opt.mflag /\ mcount = 0

LEMMA GoalsKept ==
  ASSUME files' = files, opt' = opt
  PROVE  /\ Searched' = Searched /\ Failing' = Failing /\ TakenLines' = TakenLines /\ Hits' = Hits
         /\ (Recurses' <=> Recurses) /\ (AsDocumented' <=> AsDocumented)
<1>1. Recurses' <=> Recurses
  BY DEF Recurses
<1>2. \A n : Above(n)' = Above(n)
  BY <1>1 DEF Above
<1>3. \A n : (Reached(n)' <=> Reached(n)) /\ (Wanted(n)' <=> Wanted(n))
  BY <1>2 DEF Reached, Wanted, dir_matching
<1>4. Searched' = Searched /\ Failing' = Failing
  BY <1>1, <1>3 DEF Searched, Failing, dir_matching
<1>5. \A l : (Taken(l)' <=> Taken(l)) /\ (IsHit(l)' <=> IsHit(l)) /\ (Matches(l)' <=> Matches(l))
  BY DEF Taken, IsHit, Matches, SkipsFurther
<1>6. TakenLines' = TakenLines /\ Hits' = Hits
  BY <1>4, <1>5 DEF TakenLines, Hits
<1>7. AsDocumented' <=> AsDocumented
  BY <1>5 DEF AsDocumented, SkipsFurther
<1> QED
  BY <1>1, <1>4, <1>6, <1>7

LEMMA TakenKept ==
  ASSUME files' = files, opt' = opt
  PROVE  file' = file => Lines' = Lines /\ \A k : Taken(Lines[k])' <=> Taken(Lines[k])
BY DEF Taken, SkipsFurther, Lines, Current

(* What is not opened is not to be searched, unless the limit is spent; and it *)
(* is not one that cannot be read, unless the limit is spent before it, or it *)
(* was just found to be so.                                                *)
LEMMA PassedOver ==
  ASSUME IInv, TreeInv, Directory \/ PassOver \/ Unreadable \/ SkipBinary,
         NEW n \in DOMAIN files, file <= n, n < file'
  PROVE  /\ ~ Spent => n \notin Searched
         /\ n \in Failing => file_err' \/ (PassOver /\ Spent)
<1>1. /\ file \in DOMAIN files /\ file \in Nat /\ Len(files) \in Nat /\ n \in Nat /\ DOMAIN files = 1 .. Len(files)
      /\ mcount \in Nat /\ Current.below \in Nat
  <2>1. file \in DOMAIN files
    BY DEF Directory, PassOver, Unreadable, SkipBinary, NextFile, MoreLines, FileOpen, IInv, PlaceInv, Types, TypeOK
  <2> QED
    BY <2>1, FileTypes DEF IInv, Types, TypeOK
<1>2. CASE Directory
  <2>1. Recurses /\ Current.kind \in DirKind
    BY <1>2 DEF Directory, IsDirectory
  <2>2. CASE n = file
    <3>1. n \notin Searched
      BY <2>1, <2>2 DEF Searched, Current, DirKind
    <3>2. n \in Failing => CannotBeListed
      BY <2>1, <2>2 DEF Failing, CannotBeListed, Recurses, Current, DirKind
    <3> QED
      BY <1>2, <3>1, <3>2 DEF Directory
  <2>3. CASE n # file
    <3>1. ~ dir_matching(files[file]) /\ file' = file + 1 + Current.below
      BY <1>1, <1>2, <2>3 DEF Directory, Current
    <3>2. files[file].kind = "dir"
      <4>1. Current.kind = "locked" => Current.below = 0
        BY <1>1, FileTypes DEF IInv
      <4>2. file + 1 <= n /\ n < file + 1 + Current.below
        BY <1>1, <2>3, <3>1
      <4>3. Current.below # 0
        BY <1>1, <4>2
      <4> QED
        BY <2>1, <4>1, <4>3 DEF DirKind, Current
    <3>3. file \in Above(n)
      BY <1>1, <2>1, <2>3, <3>1, <3>2 DEF Above, Current
    <3>4. ~ Reached(n)
      BY <3>1, <3>3 DEF Reached
    <3> QED
      BY <3>4 DEF Searched, Failing, Wanted
  <2> QED
    BY <2>2, <2>3
<1>3. CASE PassOver \/ Unreadable
  <2>1. n = file /\ ~ IsDirectory
    BY <1>1, <1>3 DEF PassOver, Unreadable
  <2>2. CASE PassOver
    <3>1. CASE ~ file_matching
      <4>1. ~ Wanted(n)
        BY <2>1, <3>1 DEF file_matching, Wanted, Current
      <4> QED
        BY <2>1, <4>1 DEF Searched, Failing, IsDirectory, Current, DirKind
    <3>2. CASE NotToBeRead /\ ~ Spent
      <4>1. \/ Current.kind \in DirKind /\ opt.dirbehave = "SKIP"
            \/ Current.kind = "device" /\ opt.devbehave = "SKIP"
        BY <1>1, <3>2 DEF NotToBeRead, Spent
      <4> QED
        BY <2>1, <4>1 DEF Searched, Failing, IsDirectory, Current, DirKind
    <3>3. CASE Spent
      BY <2>2, <3>3
    <3> QED
      BY <2>2, <3>1, <3>2, <3>3 DEF PassOver
  <2>3. CASE Unreadable
    <3>1. n \notin Searched
      BY <2>1, <2>3 DEF Unreadable, CannotBeRead, Searched, Current, DirKind
    <3> QED
      BY <2>3, <3>1 DEF Unreadable
  <2> QED
    BY <1>3, <2>2, <2>3
<1>4. CASE SkipBinary
  <2>1. n = file
    BY <1>1, <1>4 DEF SkipBinary
  <2>2. FileOpen
    BY <1>4 DEF SkipBinary, MoreLines, FileOpen
  <2>3. Current.kind = "binary" /\ opt.binbehave = "SKIP"
    BY <1>4 DEF SkipBinary, Nottext
  <2> QED
    BY <2>1, <2>2, <2>3 DEF TreeInv, Searched, Current
<1> QED
  BY <1>2, <1>3, <1>4

LEMMA NextEntryReached ==
  ASSUME IInv, Given, TreeInv, files' = files, opt' = opt,
         Directory \/ (file \in DOMAIN files /\ file' = file + 1 /\ ~ IsDirectory)
  PROVE  Reached(file)'
<1>1. /\ file \in DOMAIN files /\ file \in Nat /\ Len(files) \in Nat /\ DOMAIN files = 1 .. Len(files)
      /\ Current.below \in Nat
  <2>1. file \in DOMAIN files
    BY DEF Directory, NextFile, IInv, Types, TypeOK
  <2> QED
    BY <2>1, FileTypes DEF IInv, Types, TypeOK
<1>2. file' = file + 1 \/ (~ dir_matching(files[file]) /\ file' = file + 1 + Current.below)
  BY DEF Directory, Current
<1>3. file' = file + 1 => \/ dir_matching(files[file])
                          \/ ~ (Recurses /\ Current.kind = "dir")
                          \/ (Directory /\ Current.below = 0)
  BY <1>1 DEF Directory, IsDirectory, Current, DirKind
<1>4. file' \in Nat /\ file < file' /\ file' <= Len(files) + 1
  BY <1>1, FileTypes, <1>2 DEF IInv
<1>5. SUFFICES ASSUME NEW k \in 1 .. file' - 1, Recurses, files[k].kind = "dir", file' <= k + files[k].below
               PROVE  dir_matching(files[k])
  BY DEF Above, Reached, dir_matching, Recurses
<1>6. k \in Nat /\ files[k].below \in Nat /\ k \in DOMAIN files
  <2>1. k \in DOMAIN files
    <3>1. PICK f \in Nat : f = file'
      BY <1>4
    <3>2. k \in 1 .. f - 1 /\ f <= Len(files) + 1
      BY <1>4, <1>5, <3>1
    <3> QED
      BY <1>1, <3>2
  <2>2. files[k] \in File
    BY <2>1 DEF IInv, Types
  <2> QED
    BY <2>1, <2>2, <1>1 DEF File
<1>7. CASE k < file
  <2>1. k \in Above(file)
    BY <1>1, <1>4, <1>5, <1>6, <1>7 DEF Above
  <2> QED
    BY <2>1 DEF TreeInv, Reached
<1>8. CASE k = file
  <2>1. file' <= file + Current.below
    BY <1>5, <1>8 DEF Current
  <2>2. file' = file + 1 /\ Current.below # 0
    BY <1>1, <1>2, <2>1
  <2> QED
    BY <1>3, <1>5, <1>8, <2>2 DEF Current
<1>9. CASE k > file
  <2>1. file' = file + 1 + Current.below /\ k \in file + 1 .. file + Current.below
    <3>1. PICK f \in Nat : f = file'
      BY <1>4
    <3>2. k \in 1 .. f - 1 /\ (f = file + 1 \/ f = file + 1 + Current.below)
      <4>1. k \in 1 .. file' - 1
        BY <1>5
      <4> QED
        BY <1>2, <3>1, <4>1
    <3>3. f = file + 1 + Current.below /\ k \in file + 1 .. file + Current.below
      BY <1>1, <1>6, <1>9, <3>2
    <3> QED
      BY <3>1, <3>3
  <2>2. k + files[k].below <= file + files[file].below
    BY <1>1, <2>1 DEF Given, Current
  <2> QED
    BY <1>1, <1>5, <1>6, <2>1, <2>2 DEF Current
<1> QED
  BY <1>1, <1>6, <1>7, <1>8, <1>9

LEMMA OpenedIsSearched ==
  ASSUME IInv, TreeInv, Given, Open
  PROVE  /\ file \in Searched \/ (Nottext /\ opt.binbehave = "SKIP")
         /\ file \notin Failing /\ Current.kind \notin DirKind
<1>1. file \in DOMAIN files
  BY DEF Open, NextFile, IInv, Types, TypeOK
<1>2. files[file] \in File
  BY <1>1 DEF IInv, Types
<1>3. Current.kind \in FileKind \ {"missing", "dir", "locked"} /\ (Current.kind = "device" => opt.devbehave # "SKIP")
  BY <1>2 DEF Open, CannotBeRead, NotToBeRead, File, Current, DirKind
<1>4. Wanted(file)
  BY DEF Open, file_matching, Wanted, Current, TreeInv
<1>5. opt.devbehave \in {"READ", "SKIP"}
  BY DEF IInv, Types, Option
<1> QED
  BY <1>1, <1>3, <1>4, <1>5 DEF FileKind, Searched, Failing, Nottext, Current, DirKind

LEMMA TreeInvKept ==
  /\ Init => TreeInv
  /\ IInv /\ Given /\ TreeInv /\ [Next]_vars => TreeInv'
<1>1. Init => TreeInv
  BY DEF Init, TreeInv, Reached, Above, FileOpen
<1> SUFFICES ASSUME IInv, Given, TreeInv, [Next]_vars PROVE TreeInv'
  BY <1>1
<1>2. files' = files /\ opt' = opt
  BY ArgsKept
<1>3. Searched' = Searched /\ Failing' = Failing /\ (Recurses' <=> Recurses)
  BY <1>2, GoalsKept
<1>4. CASE Directory \/ PassOver \/ Unreadable \/ SkipBinary \/ Close
  <2>1. ~ FileOpen'
    BY <1>4 DEF Directory, PassOver, Unreadable, SkipBinary, Close, NextFile, FileOpen
  <2>2. Directory \/ (file \in DOMAIN files /\ file' = file + 1 /\ ~ IsDirectory)
    <3>1. CASE PassOver \/ Unreadable
      BY <3>1 DEF PassOver, Unreadable, NextFile, IInv, Types, TypeOK
    <3>2. CASE SkipBinary \/ Close
      BY <3>2 DEF SkipBinary, Close, MoreLines, FileOpen, IInv, PlaceInv, TreeInv, IsDirectory
    <3> QED
      BY <1>4, <3>1, <3>2
  <2>3. Reached(file)'
    BY <1>2, <2>2, NextEntryReached
  <2> QED
    BY <2>1, <2>3 DEF TreeInv
<1>5. ASSUME file' = file, FileOpen' => FileOpen \/ Open PROVE TreeInv'
  <2>1. Reached(file)'
    <3>1. Above(file)' = Above(file)
      BY <1>2, <1>3, <1>5 DEF Above
    <3> QED
      BY <1>2, <3>1 DEF TreeInv, Reached, dir_matching
  <2>2. (Nottext' <=> Nottext) /\ Current' = Current
    BY <1>2, <1>5 DEF Nottext, Current
  <2>3. FileOpen' => /\ file \in Searched \/ (Nottext /\ opt.binbehave = "SKIP")
                     /\ file \notin Failing /\ Current.kind \notin DirKind
    BY <1>5, OpenedIsSearched DEF TreeInv
  <2> QED
    BY <1>2, <1>3, <1>5, <2>1, <2>2, <2>3 DEF TreeInv
<1>6. CASE UNCHANGED vars
  BY <1>5, <1>6 DEF vars, FileOpen
<1>7. CASE \/ Open \/ OneIsEnough \/ EmptyFileMatches \/ EndOfFile \/ ReadLine \/ SearchFails \/ NotFound \/ NotWhole
           \/ Match \/ Exit
  BY <1>5, <1>7 DEF Open, OneIsEnough, EmptyFileMatches, EndOfFile, ReadLine, SearchFails, NotFound, NotWhole, Match,
     Exit, MoreLines, Searching, FileOpen
<1>8. CASE EndLine
  BY <1>5, <1>8 DEF EndLine, FileOpen
<1> QED
  BY <1>4, <1>6, <1>7, <1>8 DEF Next, BinaryMatches, SelectLine, TrailingLine, OtherLine
-----------------------------------------------------------------------------
(* The output.  What a step prints is s things that are no lines, and then the *)
(* lines f to l of the file that is read, the last of them with x.           *)
Things ==
  [what : {"line"}, file : Nat, no : Nat, sep : {":", "-"}] \cup {Separator}
    \cup [what : {"count"}, file : Nat, no : Nat] \cup [what : {"name", "binary"}, file : Nat]

Prints(new, out, s, f, l, x) ==
  /\ Len(new) = Len(out) + s + (l + 1 - f)
  /\ \A k \in 1 .. Len(out) : new[k] = out[k]
  /\ \A k \in Len(out) + 1 .. Len(out) + s : ~ IsLine(new[k])
  /\ \A k \in Len(out) + s + 1 .. Len(new) :
       new[k] = Printed(Line(f + (k - Len(out) - s - 1)), IF k = Len(new) THEN x ELSE "-")

InThisFile(e) == IsLine(e) /\ e.file = file
Ordered(out) ==
  \A j, k \in DOMAIN out :
    j < k /\ IsLine(out[j]) /\ IsLine(out[k]) /\ out[j].file = out[k].file => out[j].no < out[k].no
Gapless(out) ==
  \A k \in 1 .. Len(out) - 1 :
    IsLine(out[k]) /\ IsLine(out[k + 1]) /\ out[k].file = out[k + 1].file => out[k + 1].no <= out[k].no + 1
LinesOf(out, n) == {k \in DOMAIN out : InThisFile(out[k]) /\ out[k].no = n}
AddsLine(new, out, n, sep) ==
  \E k : k \notin LinesOf(out, n) /\ LinesOf(new, n) = LinesOf(out, n) \cup {k} /\ new[k].sep = sep
ShownIn(out) == {k \in DOMAIN out : IsLine(out[k]) /\ out[k].sep = ":"}

LEMMA ThingTypes ==
  ASSUME NEW out \in Seq(Things), NEW k \in DOMAIN out, IsLine(out[k])
  PROVE  out[k].file \in Nat /\ out[k].no \in Nat /\ out[k].sep \in {":", "-"}
<1>1. out[k] \in Things
  OBVIOUS
<1> QED
  BY <1>1 DEF Things, IsLine, Separator

LEMMA SeparatorIsNoLine == ~ IsLine(Separator)
BY DEF Separator, IsLine

LEMMA PrintedFields ==
  ASSUME NEW n, NEW x
  PROVE  LET p == Printed(Line(n), x) IN IsLine(p) /\ p.file = file /\ p.no = n /\ p.sep = x
BY DEF Printed, Line, IsLine

(* An entry of the new output is an old one, no line, or a new line. *)
IsOld(new, out, k) == k \in DOMAIN out /\ new[k] = out[k]
IsGap(new, out, k) == k \notin DOMAIN out /\ ~ IsLine(new[k])
IsNew(new, out, s, f, l, x, k) ==
  /\ k \notin DOMAIN out /\ k \in Len(out) + s + 1 .. Len(out) + s + (l + 1 - f)
  /\ InThisFile(new[k]) /\ new[k].no = f + (k - Len(out) - s - 1)
  /\ new[k].sep = IF k = Len(new) THEN x ELSE "-"

LEMMA PrintsCases ==
  ASSUME NEW out \in Seq(Things), NEW new \in Seq(Things), NEW s \in Nat, NEW f \in Nat, NEW l \in Nat,
         f <= l + 1, NEW x, Prints(new, out, s, f, l, x), NEW k \in DOMAIN new
  PROVE  IsOld(new, out, k) \/ IsGap(new, out, k) \/ IsNew(new, out, s, f, l, x, k)
<1>1. Len(out) \in Nat /\ Len(new) \in Nat /\ DOMAIN out = 1 .. Len(out) /\ DOMAIN new = 1 .. Len(new) /\ k \in 1 .. Len(new)
  OBVIOUS
<1>2. Len(new) = Len(out) + s + (l + 1 - f)
  BY DEF Prints
<1>3. CASE k <= Len(out)
  BY <1>1, <1>3 DEF Prints, IsOld
<1>4. CASE k > Len(out) /\ k <= Len(out) + s
  <2>1. k \in Len(out) + 1 .. Len(out) + s /\ k \notin DOMAIN out
    BY <1>1, <1>4
  <2>2. ~ IsLine(new[k])
    BY <2>1 DEF Prints
  <2> QED
    BY <2>1, <2>2 DEF IsGap
<1>5. CASE k > Len(out) + s
  <2>1. k \in Len(out) + s + 1 .. Len(new) /\ k \notin DOMAIN out
    BY <1>1, <1>5
  <2>2. new[k] = Printed(Line(f + (k - Len(out) - s - 1)), IF k = Len(new) THEN x ELSE "-")
    BY <2>1 DEF Prints
  <2>3. InThisFile(new[k]) /\ new[k].no = f + (k - Len(out) - s - 1) /\ new[k].sep = IF k = Len(new) THEN x ELSE "-"
    BY <2>2, PrintedFields DEF InThisFile
  <2> QED
    BY <1>2, <2>1, <2>3 DEF IsNew
<1> QED
  BY <1>1, <1>3, <1>4, <1>5

(* The new lines are in order, and if they come after those printed before,   *)
(* all are.                                                                *)
LEMMA PrintsInOrder ==
  ASSUME NEW out \in Seq(Things), NEW new \in Seq(Things), NEW s \in Nat, NEW f \in Nat, NEW l \in Nat,
         f <= l + 1, NEW x, Prints(new, out, s, f, l, x), Ordered(out),
         \A k \in DOMAIN out : InThisFile(out[k]) => out[k].no < f
  PROVE  Ordered(new)
<1> SUFFICES ASSUME NEW j \in DOMAIN new, NEW k \in DOMAIN new, j < k, IsLine(new[j]), IsLine(new[k]),
                    new[j].file = new[k].file
             PROVE  new[j].no < new[k].no
  BY DEF Ordered
<1>0. \A i \in DOMAIN new : IsOld(new, out, i) \/ IsGap(new, out, i) \/ IsNew(new, out, s, f, l, x, i)
  BY PrintsCases
<1>1. /\ j \in Nat /\ k \in Nat /\ Len(out) \in Nat /\ DOMAIN out = 1 .. Len(out) /\ DOMAIN new = 1 .. Len(new)
  OBVIOUS
<1>2. CASE k \in DOMAIN out
  <2>1. j \in DOMAIN out
    BY <1>1, <1>2
  <2>2. new[j] = out[j] /\ new[k] = out[k]
    BY <1>1, <1>2, <2>1 DEF Prints
  <2> QED
    BY <1>2, <2>1, <2>2 DEF Ordered
<1>3. CASE k \notin DOMAIN out
  <2>1. /\ k \in Len(out) + s + 1 .. Len(out) + s + (l + 1 - f)
        /\ InThisFile(new[k]) /\ new[k].no = f + (k - Len(out) - s - 1)
    BY <1>0, <1>3 DEF IsOld, IsGap, IsNew
  <2>2. CASE j \in DOMAIN out
    <3>1. new[j] = out[j]
      BY <1>1, <2>2 DEF Prints
    <3>2. InThisFile(out[j])
      BY <2>1, <3>1 DEF InThisFile
    <3>3. out[j].no < f /\ out[j].no \in Nat
      BY <2>2, <3>2, ThingTypes DEF InThisFile
    <3>4. PICK i \in Int : i = f + (k - Len(out) - s - 1) /\ i >= f
      BY <1>1, <2>1
    <3>5. new[j].no = out[j].no /\ new[k].no = i
      BY <2>1, <3>1, <3>4
    <3>6. out[j].no < i
      BY <3>3, <3>4, SMTT(30)
    <3> QED
      BY <3>5, <3>6, Zenon
  <2>3. CASE j \notin DOMAIN out
    <3>1. new[j].no = f + (j - Len(out) - s - 1)
      BY <1>0, <2>3 DEF IsOld, IsGap, IsNew
    <3>2. f + (j - Len(out) - s - 1) < f + (k - Len(out) - s - 1)
      BY <1>1
    <3> QED
      BY <2>1, <3>1, <3>2
  <2> QED
    BY <2>2, <2>3
<1> QED
  BY <1>2, <1>3

(* Without a separator in between the first new line must not come later than *)
(* right after the last old one.                                            *)
LEMMA PrintsGapless ==
  ASSUME NEW out \in Seq(Things), NEW new \in Seq(Things), NEW s \in Nat, NEW f \in Nat, NEW l \in Nat,
         f <= l + 1, NEW x, Prints(new, out, s, f, l, x), Gapless(out),
         s = 0 /\ f <= l /\ Len(out) > 0 /\ InThisFile(out[Len(out)]) => f <= out[Len(out)].no + 1
  PROVE  Gapless(new)
<1> SUFFICES ASSUME NEW k \in 1 .. Len(new) - 1, IsLine(new[k]), IsLine(new[k + 1]), new[k].file = new[k + 1].file
             PROVE  new[k + 1].no <= new[k].no + 1
  BY DEF Gapless
<1>0. \A i \in DOMAIN new : IsOld(new, out, i) \/ IsGap(new, out, i) \/ IsNew(new, out, s, f, l, x, i)
  BY PrintsCases
<1>1. Len(new) \in Nat /\ Len(out) \in Nat /\ DOMAIN new = 1 .. Len(new) /\ DOMAIN out = 1 .. Len(out)
  OBVIOUS
<1>2. k \in DOMAIN new /\ k + 1 \in DOMAIN new /\ k \in Nat
  BY <1>1
<1>3. CASE k + 1 \in DOMAIN out
  <2>1. new[k] = out[k] /\ new[k + 1] = out[k + 1] /\ k \in 1 .. Len(out) - 1
    BY <1>1, <1>2, <1>3 DEF Prints
  <2> QED
    BY <2>1 DEF Gapless
<1>4. CASE k + 1 \notin DOMAIN out
  <2> DEFINE j == k + 1
  <2>1. /\ j \in Len(out) + s + 1 .. Len(out) + s + (l + 1 - f)
        /\ InThisFile(new[j]) /\ new[j].no = f + (j - Len(out) - s - 1)
    BY <1>0, <1>2, <1>4 DEF j, IsOld, IsGap, IsNew
  <2> HIDE DEF j
  <2>2. CASE k \in DOMAIN out
    <3>1. k = Len(out) /\ s = 0
      BY <1>1, <1>2, <1>4, <2>1, <2>2, SMTT(30) DEF j
    <3>2. new[k] = out[k]
      BY <2>2, <1>1 DEF Prints
    <3>3. InThisFile(out[Len(out)]) /\ Len(out) > 0
      <4>1. new[j].file = file
        BY <2>1 DEF InThisFile
      <4>2. new[k].file = file
        BY <4>1 DEF j
      <4> QED
        BY <1>1, <1>2, <2>2, <3>1, <3>2, <4>2 DEF InThisFile
    <3>4. f <= out[Len(out)].no + 1
      <4>1. f <= l
        BY <1>1, <2>1
      <4> QED
        BY <3>1, <3>3, <4>1
    <3>5. j = Len(out) + 1
      BY <3>1 DEF j
    <3>6. new[j].no = f
      BY <1>1, <2>1, <3>1, <3>5
    <3> QED
      BY <3>1, <3>2, <3>4, <3>6 DEF j
  <2>3. CASE k \notin DOMAIN out
    <3>1. k \in Len(out) + s + 1 .. Len(out) + s + (l + 1 - f) /\ new[k].no = f + (k - Len(out) - s - 1)
      BY <1>0, <1>2, <2>3 DEF IsOld, IsGap, IsNew
    <3>2. new[k + 1].no = f + ((k + 1) - Len(out) - s - 1)
      BY <2>1 DEF j
    <3>3. f + ((k + 1) - Len(out) - s - 1) = f + (k - Len(out) - s - 1) + 1
      BY <1>1, <1>2, SMTT(30)
    <3>4. new[k + 1].no = new[k].no + 1
      BY <3>1, <3>2, <3>3, Zenon
    <3>5. new[k].no \in Int
      BY <1>1, <1>2, <3>1
    <3> QED
      BY <3>4, <3>5
  <2> QED
    BY <2>2, <2>3
<1> QED
  BY <1>3, <1>4

LEMMA PrintsLinesOf ==
  ASSUME NEW out \in Seq(Things), NEW new \in Seq(Things), NEW s \in Nat, NEW f \in Nat, NEW l \in Nat,
         f <= l + 1, NEW x, Prints(new, out, s, f, l, x), NEW n \in Nat
  PROVE  /\ ~ (f <= n /\ n <= l) => LinesOf(new, n) = LinesOf(out, n)
         /\ f <= n /\ n <= l /\ n = l => AddsLine(new, out, n, x)
         /\ f <= n /\ n <= l /\ n # l => AddsLine(new, out, n, "-")
         /\ \A k \in LinesOf(out, n) : new[k] = out[k]
<1>1. \A i \in DOMAIN new : IsOld(new, out, i) \/ IsGap(new, out, i) \/ IsNew(new, out, s, f, l, x, i)
  BY PrintsCases
<1>2. /\ Len(out) \in Nat /\ Len(new) \in Nat /\ DOMAIN out = 1 .. Len(out) /\ DOMAIN new = 1 .. Len(new)
      /\ Len(new) = Len(out) + s + (l + 1 - f)
  BY DEF Prints
<1>3. \A k \in DOMAIN out : k \in DOMAIN new /\ new[k] = out[k]
  BY <1>2 DEF Prints
<1>4. \A k \in LinesOf(out, n) : new[k] = out[k] /\ k \in LinesOf(new, n)
  BY <1>3 DEF LinesOf
<1>5. ASSUME NEW k \in LinesOf(new, n), k \notin LinesOf(out, n)
      PROVE  f <= n /\ n <= l /\ k = Len(out) + s + 1 + (n - f)
  <2>1. k \in DOMAIN new /\ IsLine(new[k]) /\ InThisFile(new[k]) /\ new[k].no = n
    BY <1>5 DEF LinesOf, InThisFile
  <2>2. IsNew(new, out, s, f, l, x, k)
    BY <1>1, <1>5, <2>1 DEF IsOld, IsGap, LinesOf
  <2>3. k \in Len(out) + s + 1 .. Len(out) + s + (l + 1 - f) /\ n = f + (k - Len(out) - s - 1)
    BY <2>1, <2>2 DEF IsNew
  <2> QED
    BY <1>2, <2>3
<1>6. ASSUME f <= n, n <= l
      PROVE  /\ n = l => AddsLine(new, out, n, x)
             /\ n # l => AddsLine(new, out, n, "-")
  <2> DEFINE k == Len(out) + s + 1 + (n - f)
  <2>1. k \in Len(out) + s + 1 .. Len(new) /\ (k = Len(new) <=> n = l) /\ f + (k - Len(out) - s - 1) = n
    BY <1>2, <1>6
  <2>2. k \in DOMAIN new /\ k \notin DOMAIN out
    BY <1>2, <2>1
  <2> HIDE DEF k
  <2>3. new[k] = Printed(Line(f + (k - Len(out) - s - 1)), IF k = Len(new) THEN x ELSE "-")
    BY <2>1 DEF Prints
  <2>4. new[k] = Printed(Line(n), IF n = l THEN x ELSE "-")
    BY <2>1, <2>3
  <2>5. IsLine(new[k]) /\ new[k].file = file /\ new[k].no = n /\ new[k].sep = IF n = l THEN x ELSE "-"
    BY <2>4, PrintedFields
  <2>6. /\ k \in LinesOf(new, n) /\ k \notin LinesOf(out, n)
        /\ (n = l => new[k].sep = x) /\ (n # l => new[k].sep = "-")
    BY <2>2, <2>5 DEF LinesOf, InThisFile
  <2>7. LinesOf(new, n) = LinesOf(out, n) \cup {k}
    BY <1>4, <1>5, <2>6 DEF k
  <2> QED
    BY <2>6, <2>7 DEF AddsLine
<1> QED
  BY <1>4, <1>5, <1>6

LEMMA PrintsShown ==
  ASSUME NEW out \in Seq(Things), NEW new \in Seq(Things), NEW s \in Nat, NEW f \in Nat, NEW l \in Nat,
         f <= l + 1, NEW x, Prints(new, out, s, f, l, x)
  PROVE  /\ f <= l => Len(new) \notin ShownIn(out)
         /\ ShownIn(new) = IF x = ":" /\ f <= l THEN ShownIn(out) \cup {Len(new)} ELSE ShownIn(out)
<1>1. \A i \in DOMAIN new : IsOld(new, out, i) \/ IsGap(new, out, i) \/ IsNew(new, out, s, f, l, x, i)
  BY PrintsCases
<1>2. /\ Len(out) \in Nat /\ Len(new) \in Nat /\ DOMAIN out = 1 .. Len(out) /\ DOMAIN new = 1 .. Len(new)
      /\ Len(new) = Len(out) + s + (l + 1 - f) /\ (f <= l => Len(new) > Len(out))
  BY DEF Prints
<1>3. \A k \in ShownIn(out) : k \in ShownIn(new)
  BY <1>2 DEF Prints, ShownIn
<1>4. ASSUME NEW k \in ShownIn(new), k \notin ShownIn(out)
      PROVE  k = Len(new) /\ x = ":" /\ f <= l
  <2>1. k \in DOMAIN new /\ IsLine(new[k]) /\ new[k].sep = ":"
    BY <1>4 DEF ShownIn
  <2>2. IsNew(new, out, s, f, l, x, k)
    BY <1>1, <1>4, <2>1 DEF IsOld, IsGap, ShownIn
  <2>3. (new[k].sep = IF k = Len(new) THEN x ELSE "-") /\ k \in Len(out) + s + 1 .. Len(out) + s + (l + 1 - f)
    BY <2>2 DEF IsNew
  <2> QED
    BY <1>2, <2>1, <2>3
<1>5. x = ":" /\ f <= l => Len(new) \in ShownIn(new)
  <2> SUFFICES ASSUME f <= l PROVE x = ":" => Len(new) \in ShownIn(new)
    OBVIOUS
  <2> DEFINE k == Len(new)
  <2>1. k \in DOMAIN new /\ k \in Len(out) + s + 1 .. Len(new)
    BY <1>2
  <2>2. new[k] = Printed(Line(f + (k - Len(out) - s - 1)), x)
    BY <2>1 DEF Prints
  <2> HIDE DEF k
  <2>3. IsLine(new[k]) /\ new[k].sep = x
    BY <2>2, PrintedFields
  <2>4. x = ":" => k \in ShownIn(new)
    BY <2>1, <2>3 DEF ShownIn
  <2> QED
    BY <2>4 DEF k
<1>6. f <= l => Len(new) \notin ShownIn(out)
  BY <1>2 DEF ShownIn
<1> QED
  BY <1>3, <1>4, <1>5, <1>6

(* What procline prints of a line that is selected: separators, the queue and  *)
(* the line.                                                               *)
QueueFits == FileOpen => Len(queue) <= LastDone

LEMMA SelectPrints ==
  ASSUME IInv, QueueFits, output \in Seq(Things), SelectLine, Shows
  PROVE  /\ Showing /\ output' \in Seq(Things) /\ queue' = <<>> /\ line_no - Len(queue) \in Nat
         /\ line_no - Len(queue) >= 1
         /\ Prints(output', output, Len(Separators), line_no - Len(queue), line_no, ":")
         /\ Len(Separators) \in Nat /\ (Len(Separators) = 0 <=> Separators = <<>>)
<1>1. EndLine /\ selected /\ ~ OnlyCounts /\ PrintSelected
  BY DEF SelectLine
<1>2. FileOpen /\ InLine
  BY <1>1, EndLineCounts
<1>3. Showing
  BY <1>1 DEF Showing, OnlyCounts
<1>4. /\ line_no \in Nat /\ queue \in Seq(Entries) /\ Len(queue) \in Nat /\ file \in Nat
      /\ opt.Bflag \in Nat /\ Len(queue) <= opt.Bflag /\ LastDone = line_no - 1 /\ Len(queue) <= line_no - 1
      /\ DOMAIN queue = 1 .. Len(queue)
  BY <1>2, OptionTypes DEF IInv, Types, TypeOK, QueueInv, QueueFits, LastDone
<1>5. \A n \in 1 .. Len(queue) : queue[n] = Line(line_no - 1 - Len(queue) + n)
  BY <1>2, <1>3, <1>4 DEF IInv, QueueInv, Recent
<1> DEFINE q == IF opt.Bflag > 0 THEN printqueue ELSE <<>>
           p == <<Printed(ThisLine, ":")>>
           sp == Separators
<1>6. Separator \in Things /\ \A n \in Nat, x \in {":", "-"} : Printed(Line(n), x) \in Things
  BY <1>4 DEF Things, Printed, Line
<1>7. /\ sp \in Seq(Things) /\ Len(sp) \in Nat /\ (Len(sp) = 0 <=> sp = <<>>)
      /\ \A n \in 1 .. Len(sp) : sp[n] = Separator
  <2> DEFINE t == IF ~ first /\ ~ prev /\ tail = 0 /\ opt.Aflag > 0 THEN <<Separator>> ELSE <<>>
             u == IF ~ first /\ ~ prev /\ opt.Bflag > 0 THEN <<Separator>> ELSE <<>>
  <2>1. /\ t \in Seq(Things) /\ Len(t) \in Nat /\ \A n \in 1 .. Len(t) : t[n] = Separator
        /\ u \in Seq(Things) /\ Len(u) \in Nat /\ \A n \in 1 .. Len(u) : u[n] = Separator
    BY <1>6
  <2>2. sp = t \o u
    BY DEF Separators
  <2> HIDE DEF t, u, sp
  <2>3. /\ sp \in Seq(Things) /\ Len(sp) = Len(t) + Len(u)
        /\ \A n \in 1 .. Len(t) + Len(u) : sp[n] = IF n <= Len(t) THEN t[n] ELSE u[n - Len(t)]
    BY <2>1, <2>2, ConcatProperties
  <2>4. \A n \in 1 .. Len(sp) : sp[n] = Separator
    <3>1. SUFFICES ASSUME NEW n \in 1 .. Len(sp) PROVE sp[n] = Separator
      OBVIOUS
    <3>2. CASE n <= Len(t)
      BY <2>1, <2>3, <3>1, <3>2
    <3>3. CASE n > Len(t)
      <4>1. n - Len(t) \in 1 .. Len(u) /\ ~ (n <= Len(t)) /\ n \in 1 .. Len(t) + Len(u)
        BY <2>1, <2>3, <3>1, <3>3
      <4> QED
        BY <2>1, <2>3, <4>1
    <3> QED
      BY <2>1, <2>3, <3>1, <3>2, <3>3
  <2> QED
    BY <2>3, <2>4
<1>8. /\ q \in Seq(Things) /\ Len(q) = Len(queue)
      /\ \A n \in 1 .. Len(queue) : q[n] = Printed(Line(line_no - 1 - Len(queue) + n), "-")
  <2>1. CASE opt.Bflag > 0
    <3>1. q = printqueue
      BY <2>1
    <3>2. \A n \in 1 .. Len(queue) : printqueue[n] = Printed(Line(line_no - 1 - Len(queue) + n), "-")
      BY <1>4, <1>5 DEF printqueue
    <3>3. \A n \in 1 .. Len(queue) : printqueue[n] \in Things
      <4>1. \A n \in 1 .. Len(queue) : line_no - 1 - Len(queue) + n \in Nat
        BY <1>4
      <4> QED
        BY <1>6, <3>2, <4>1
    <3>4. printqueue = [n \in 1 .. Len(queue) |-> printqueue[n]]
      BY <1>4 DEF printqueue
    <3>5. printqueue \in Seq(Things) /\ Len(printqueue) = Len(queue)
      BY <1>4, <3>3, <3>4
    <3> QED
      BY <3>1, <3>2, <3>5
  <2>2. CASE ~ (opt.Bflag > 0)
    BY <1>4, <2>2
  <2> QED
    BY <2>1, <2>2
<1>9. p \in Seq(Things) /\ Len(p) = 1 /\ p[1] = Printed(Line(line_no), ":")
  BY <1>4, <1>6 DEF ThisLine
<1>10. output' = output \o sp \o q \o p
  BY <1>1 DEF PrintSelected
<1>11. queue' = <<>>
  BY <1>1, <1>4 DEF PrintSelected, LeftByPrintqueue
<1> HIDE DEF q, p, sp
<1> DEFINE a == output \o sp
           b == a \o q
<1>12. a \in Seq(Things) /\ Len(a) = Len(output) + Len(sp)
       /\ \A k \in 1 .. Len(a) : a[k] = IF k <= Len(output) THEN output[k] ELSE sp[k - Len(output)]
  BY <1>7, ConcatProperties
<1>13. output' = b \o p
  BY <1>10
<1> HIDE DEF a
<1>14. b \in Seq(Things) /\ Len(b) = Len(a) + Len(queue)
       /\ \A k \in 1 .. Len(b) : b[k] = IF k <= Len(a) THEN a[k] ELSE q[k - Len(a)]
  <2>0. a \in Seq(Things) /\ q \in Seq(Things)
    BY <1>8, <1>12
  <2>1. /\ b \in Seq(Things) /\ Len(b) = Len(a) + Len(q)
        /\ \A k \in 1 .. Len(a) + Len(q) : b[k] = IF k <= Len(a) THEN a[k] ELSE q[k - Len(a)]
    BY <2>0, ConcatProperties
  <2> QED
    BY <1>8, <2>1
<1> HIDE DEF b
<1>15. output' \in Seq(Things) /\ Len(output') = Len(b) + 1
       /\ \A k \in 1 .. Len(b) + 1 : output'[k] = IF k <= Len(b) THEN b[k] ELSE p[k - Len(b)]
  <2>0. b \in Seq(Things) /\ p \in Seq(Things)
    BY <1>9, <1>14
  <2>1. /\ output' \in Seq(Things) /\ Len(output') = Len(b) + Len(p)
        /\ \A k \in 1 .. Len(b) + Len(p) : output'[k] = IF k <= Len(b) THEN b[k] ELSE p[k - Len(b)]
    BY <1>13, <2>0, ConcatProperties
  <2> QED
    BY <1>9, <2>1
<1>16. Prints(output', output, Len(sp), line_no - Len(queue), line_no, ":")
  <2> DEFINE new == output' f == line_no - Len(queue)
  <2>1. /\ Len(output) \in Nat /\ Len(a) \in Nat /\ Len(b) \in Nat /\ Len(new) \in Nat
        /\ Len(a) = Len(output) + Len(sp) /\ Len(b) = Len(a) + Len(queue) /\ Len(new) = Len(b) + 1 /\ f \in Nat
    BY <1>4, <1>12, <1>14, <1>15
  <2>2. \A k \in 1 .. Len(b) + 1 : new[k] = IF k <= Len(b) THEN b[k] ELSE p[k - Len(b)]
    BY <1>15
  <2> HIDE DEF new
  <2>3. Len(new) = Len(output) + Len(sp) + (line_no + 1 - f)
    BY <1>4, <1>7, <2>1
  <2>4. \A k \in 1 .. Len(output) : new[k] = output[k]
    BY <1>4, <1>7, <1>12, <1>14, <2>1, <2>2
  <2>5. \A k \in Len(output) + 1 .. Len(output) + Len(sp) : ~ IsLine(new[k])
    <3>1. SUFFICES ASSUME NEW k \in Len(output) + 1 .. Len(output) + Len(sp) PROVE ~ IsLine(new[k])
      OBVIOUS
    <3>2. k \in 1 .. Len(a) /\ k \in 1 .. Len(b) /\ k \in 1 .. Len(b) + 1 /\ k - Len(output) \in 1 .. Len(sp) /\ ~ (k <= Len(output))
      BY <1>4, <1>7, <2>1, <3>1
    <3>3. new[k] = sp[k - Len(output)]
      BY <1>12, <1>14, <2>2, <3>2
    <3> QED
      BY <1>7, <3>2, <3>3, SeparatorIsNoLine
  <2>6. ASSUME NEW k \in Len(output) + Len(sp) + 1 .. Len(new)
        PROVE  new[k] = Printed(Line(f + (k - Len(output) - Len(sp) - 1)), IF k = Len(new) THEN ":" ELSE "-")
    <3>1. CASE k <= Len(b)
      <4>1. /\ k \in 1 .. Len(b) /\ k \in 1 .. Len(b) + 1 /\ k - Len(a) \in 1 .. Len(queue)
            /\ ~ (k <= Len(a)) /\ k # Len(new)
        BY <1>4, <1>7, <2>1, <2>6, <3>1
      <4>2. new[k] = q[k - Len(a)]
        BY <1>14, <2>2, <3>1, <4>1
      <4>3. new[k] = Printed(Line(line_no - 1 - Len(queue) + (k - Len(a))), "-")
        BY <1>8, <4>1, <4>2
      <4>4. line_no - 1 - Len(queue) + (k - Len(a)) = f + (k - Len(output) - Len(sp) - 1)
        BY <1>4, <1>7, <2>1, <2>6
      <4> QED
        BY <4>1, <4>3, <4>4
    <3>2. CASE k > Len(b)
      <4>1. k = Len(b) + 1 /\ k = Len(new) /\ k - Len(b) = 1 /\ k \in 1 .. Len(b) + 1 /\ ~ (k <= Len(b))
        BY <1>4, <1>7, <2>1, <2>6, <3>2
      <4>2. new[k] = p[1]
        BY <2>2, <4>1
      <4>3. f + (k - Len(output) - Len(sp) - 1) = line_no
        BY <1>4, <1>7, <2>1, <4>1
      <4> QED
        BY <1>9, <4>1, <4>2, <4>3
    <3> QED
      BY <1>4, <1>7, <2>1, <2>6, <3>1, <3>2
  <2>7. Prints(new, output, Len(sp), f, line_no, ":")
    BY <2>3, <2>4, <2>5, <2>6 DEF Prints
  <2> QED
    BY <2>7 DEF new
<1> QED
  BY <1>3, <1>4, <1>7, <1>11, <1>15, <1>16 DEF sp

LEMMA TrailingPrints ==
  ASSUME IInv, output \in Seq(Things), TrailingLine
  PROVE  output' \in Seq(Things) /\ Prints(output', output, 0, line_no, line_no, "-")
<1>1. output' = Append(output, Printed(ThisLine, "-"))
  BY DEF TrailingLine
<1>2. line_no \in Nat /\ file \in Nat
  BY DEF IInv, Types, TypeOK
<1>3. Printed(ThisLine, "-") \in Things
  BY <1>2 DEF ThisLine, Printed, Line, Things
<1> DEFINE p == Printed(ThisLine, "-")
<1> HIDE DEF p
<1>4. /\ output' \in Seq(Things) /\ Len(output') = Len(output) + 1
      /\ \A k \in 1 .. Len(output) : output'[k] = output[k] 
      /\ output'[Len(output) + 1] = p /\ Len(output) \in Nat
  BY <1>1, <1>3 DEF p
<1>5. ASSUME NEW k \in Len(output) + 0 + 1 .. Len(output')
      PROVE  output'[k] = Printed(Line(line_no + (k - Len(output) - 0 - 1)), IF k = Len(output') THEN "-" ELSE "-")
  <2>1. k = Len(output) + 1 /\ line_no + (k - Len(output) - 0 - 1) = line_no
    BY <1>2, <1>4, <1>5
  <2> QED
    BY <1>4, <2>1 DEF p, ThisLine
<1>6. Len(output') = Len(output) + 0 + (line_no + 1 - line_no)
  BY <1>2, <1>4
<1>7. \A k \in Len(output) + 1 .. Len(output) + 0 : ~ IsLine(output'[k])
  BY <1>4
<1> QED
  BY <1>4, <1>5, <1>6, <1>7 DEF Prints

(* At its end a file adds at most a line of its own, which is none of its lines. *)
LEMMA LeavingPrints ==
  ASSUME IInv, output \in Seq(Things),
         Directory \/ PassOver \/ Unreadable \/ SkipBinary \/ Close \/ EmptyFileMatches \/ SearchFails \/ Exit
  PROVE  /\ ~ FileOpen' /\ ~ InLine' /\ UNCHANGED <<files, opt, first>> /\ output' \in Seq(Things) /\ file' \in Nat /\ file' >= file
         /\ file' = file => ~ FileOpen \/ line_no = 0 \/ pc' = "exited"
         /\ \E s \in Nat : Prints(output', output, s, line_no + 1, line_no, "-")
<1>1. ~ FileOpen' /\ ~ InLine' /\ UNCHANGED <<files, opt, first>>
  BY DEF Directory, PassOver, Unreadable, SkipBinary, Close, EmptyFileMatches, SearchFails, Exit, NextFile, FileOpen, InLine, args, shape
<1>2. file' \in Nat /\ file' >= file
  <2>1. file \in Nat
    BY DEF IInv, Types, TypeOK
  <2>2. CASE Directory
    <3>1. Current.below \in Nat
      BY <2>2, FileTypes DEF Directory, NextFile, IInv, Types, TypeOK
    <3> QED
      BY <2>1, <2>2, <3>1 DEF Directory
  <2>3. CASE ~ Directory
    BY <2>1, <2>3 DEF PassOver, Unreadable, SkipBinary, Close, EmptyFileMatches, SearchFails, Exit
  <2> QED
    BY <2>2, <2>3
<1>3. file' = file => ~ FileOpen \/ line_no = 0 \/ pc' = "exited"
  BY DEF Directory, PassOver, Unreadable, SkipBinary, Close, EmptyFileMatches, SearchFails, Exit, NextFile, FileOpen,
     IInv, Types, TypeOK
<1>4. /\ output' \in Seq(Things)
      /\ \E s \in Nat : Prints(output', output, s, line_no + 1, line_no, "-")
  <2>1. line_no \in Nat /\ Len(output) \in Nat /\ line_no + 1 - (line_no + 1) = 0
    BY DEF IInv, Types, TypeOK
  <2>2. CASE output' = output
    <3>1. Prints(output', output, 0, line_no + 1, line_no, "-")
      BY <2>1, <2>2 DEF Prints
    <3> QED
      BY <2>2, <3>1
  <2>3. CASE Close
    <3>1. c \in Nat /\ file \in Nat
      BY DEF IInv, Types, TypeOK
    <3>2. /\ Summary \in Seq(Things) /\ Len(Summary) \in Nat
          /\ \A k \in 1 .. Len(Summary) : ~ IsLine(Summary[k])
      <4>1. \/ Summary = <<>>
            \/ \E e \in {[what |-> "count", file |-> file, no |-> c], [what |-> "name", file |-> file],
                         [what |-> "binary", file |-> file]} : Summary = <<e>>
        BY DEF Summary
      <4>2. \A e \in {[what |-> "count", file |-> file, no |-> c], [what |-> "name", file |-> file],
                      [what |-> "binary", file |-> file]} : e \in Things /\ ~ IsLine(e)
        BY <3>1 DEF Things, IsLine
      <4>3. Summary = <<>> \/ \E e \in Things : ~ IsLine(e) /\ Summary = <<e>>
        BY <4>1, <4>2, Zenon
      <4>4. CASE Summary = <<>>
        BY <4>4
      <4>5. ASSUME NEW e \in Things, ~ IsLine(e), Summary = <<e>>
            PROVE  /\ Summary \in Seq(Things) /\ Len(Summary) \in Nat
                   /\ \A k \in 1 .. Len(Summary) : ~ IsLine(Summary[k])
        BY <4>5
      <4> QED
        BY <4>3, <4>4, <4>5
    <3> DEFINE sm == Summary
    <3> HIDE DEF sm
    <3>3. /\ output' \in Seq(Things) /\ Len(output') = Len(output) + Len(sm)
          /\ \A k \in 1 .. Len(output) + Len(sm) :
               output'[k] = IF k <= Len(output) THEN output[k] ELSE sm[k - Len(output)]
      <4>1. output' = output \o sm /\ sm \in Seq(Things)
        BY <2>3, <3>2 DEF Close, sm
      <4> QED
        BY <4>1, ConcatProperties
    <3>4. \A k \in Len(output) + 1 .. Len(output) + Len(sm) : ~ IsLine(output'[k])
      <4>1. SUFFICES ASSUME NEW k \in Len(output) + 1 .. Len(output) + Len(sm) PROVE ~ IsLine(output'[k])
        OBVIOUS
      <4>2. k \in 1 .. Len(output) + Len(sm) /\ ~ (k <= Len(output)) /\ k - Len(output) \in 1 .. Len(sm)
        BY <2>1, <3>2, <4>1 DEF sm
      <4> QED
        BY <3>2, <3>3, <4>2 DEF sm
    <3>5. \A k \in 1 .. Len(output) : output'[k] = output[k]
      BY <2>1, <3>2, <3>3 DEF sm
    <3>6. Prints(output', output, Len(sm), line_no + 1, line_no, "-")
      BY <2>1, <3>2, <3>3, <3>4, <3>5 DEF Prints, sm
    <3> QED
      BY <3>2, <3>3, <3>6 DEF sm
  <2> QED
    BY <2>2, <2>3 DEF Directory, PassOver, Unreadable, SkipBinary, EmptyFileMatches, SearchFails, Exit
<1> QED
  BY <1>1, <1>2, <1>3, <1>4

(* Steps that neither print nor are done with a line. *)
LEMMA QuietSteps ==
  ASSUME IInv,
         UNCHANGED vars \/ OneIsEnough \/ EndOfFile \/ ReadLine \/ NotFound \/ NotWhole \/ Match
  PROVE  /\ UNCHANGED <<files, opt, file, c, total, mcount, queue, first, prev, tail, output>>
         /\ (FileOpen' <=> FileOpen) /\ LastDone' = LastDone /\ (Showing' <=> Showing)
<1>1. UNCHANGED <<files, opt, file, c, total, mcount, queue, first, prev, tail, output>>
  BY DEF vars, args, limits, shape, OneIsEnough, EndOfFile, ReadLine, NotFound, NotWhole, Match
<1>2. FileOpen' <=> FileOpen
  BY DEF vars, OneIsEnough, EndOfFile, ReadLine, NotFound, NotWhole, Match, MoreLines, Searching, FileOpen
<1>3. LastDone' = LastDone
  <2>1. CASE ReadLine
    BY <2>1 DEF ReadLine, MoreLines, LastDone, InLine, IInv, Types, TypeOK
  <2>2. CASE ~ ReadLine
    BY <2>2 DEF vars, OneIsEnough, EndOfFile, NotFound, NotWhole, Match, MoreLines, Searching, LastDone, InLine
  <2> QED
    BY <2>1, <2>2
<1>4. Showing' <=> Showing
  BY <1>1 DEF Showing, Shows, Nottext, Current
<1> QED
  BY <1>1, <1>2, <1>3, <1>4

(* The end of a line, as the output sees it. *)
LEMMA EndLineDone ==
  ASSUME IInv, QueueFits, EndLine
  PROVE  /\ FileOpen /\ FileOpen' /\ UNCHANGED <<files, opt, file, line_no>>
         /\ line_no \in Nat /\ line_no >= 1 /\ line_no <= Len(Lines) /\ Len(Lines) \in Nat /\ file \in Nat
         /\ LastDone = line_no - 1 /\ LastDone' = line_no /\ Len(queue) \in Nat /\ Len(queue) <= LastDone
         /\ (Showing' <=> Showing) /\ Lines' = Lines
<1>1. /\ FileOpen /\ InLine /\ FileOpen' /\ ~ InLine'
      /\ UNCHANGED <<files, opt, file, line_no>>
  BY EndLineCounts
<1>2. Lines' = Lines /\ (Showing' <=> Showing)
  BY <1>1 DEF Showing, Shows, Nottext, Current, Lines
<1>3. line_no \in Nat /\ line_no >= 1 /\ line_no <= Len(Lines) /\ Len(queue) \in Nat /\ Len(Lines) \in Nat /\ file \in Nat
  BY <1>1, FileTypes DEF IInv, PlaceInv, Types, TypeOK
<1> QED
  BY <1>1, <1>2, <1>3 DEF LastDone, QueueFits

LEMMA QueuedLength ==
  ASSUME IInv, QueueFits, EndLine
  PROVE  /\ Queued \in Seq(Entries) /\ Len(Queued) \in Nat
         /\ Len(Queued) = IF Len(queue) < opt.Bflag THEN Len(queue) + 1 ELSE Len(queue)
<1>1. /\ line_no \in Nat /\ queue \in Seq(Entries) /\ Len(queue) \in Nat /\ file \in Nat
      /\ opt.Bflag \in Nat /\ Len(queue) <= opt.Bflag
  BY OptionTypes DEF IInv, Types, TypeOK, QueueInv
<1>2. ThisLine \in Entries
  BY <1>1, LineIsEntry DEF ThisLine
<1> DEFINE a == Append(queue, ThisLine)
<1>3. a \in Seq(Entries) /\ Len(a) = Len(queue) + 1 /\ a # <<>>
  BY <1>1, <1>2
<1>4. Queued = IF opt.Bflag > 0 THEN (IF Len(queue) + 1 > opt.Bflag THEN Tail(a) ELSE a) ELSE queue
  BY DEF Queued, enqueue
<1> HIDE DEF a
<1>5. Tail(a) \in Seq(Entries) /\ Len(Tail(a)) = Len(a) - 1
  BY <1>3, HeadTailProperties
<1>6. Len(a) - 1 = Len(queue)
  BY <1>1, <1>3
<1> QED
  BY <1>1, <1>3, <1>4, <1>5, <1>6
-----------------------------------------------------------------------------
(* What is in the output: lines of the files up to this one, and of this one   *)
(* only lines that were done with.                                         *)
OutputInv ==
  /\ output \in Seq(Things)
  /\ QueueFits
  /\ \A k \in DOMAIN output : IsLine(output[k]) => output[k].no >= 1 /\ output[k].file <= file /\ ~ first
  /\ pc # "exited" =>
       \A k \in DOMAIN output : InThisFile(output[k]) => FileOpen /\ Showing /\ output[k].no <= LastDone

LEMMA GoesOn ==
  ASSUME Next
  PROVE  pc # "exited"
BY DEF Next, Directory, PassOver, Unreadable, Open, OneIsEnough, EmptyFileMatches, EndOfFile, SkipBinary, ReadLine,
   SearchFails, NotFound, NotWhole, Match, BinaryMatches, SelectLine, TrailingLine, OtherLine, EndLine, Close, Exit,
   NextFile, MoreLines, Searching

(* first, prev and tail tell what was printed last. *)
LastPrinted ==
  Len(output) > 0 /\ InThisFile(output[Len(output)]) /\ output[Len(output)].no = LastDone
ShapeInv == FileOpen =>
  /\ tail <= opt.Aflag
  /\ ~ Showing \/ first => tail = 0
  /\ tail > 0 => LastPrinted
  /\ Showing /\ prev /\ LastDone >= 1 => LastPrinted /\ queue = <<>>

(* A line that is printed. *)
LEMMA SelectsShown ==
  ASSUME IInv, OutputInv, SelectLine, Shows
  PROVE  /\ Showing /\ output' \in Seq(Things) /\ queue' = <<>>
         /\ file' = file /\ FileOpen' /\ Showing' /\ LastDone' = line_no /\ ~ first' /\ prev' /\ tail' = opt.Aflag
         /\ line_no - Len(queue) \in Nat /\ line_no - Len(queue) >= 1 /\ line_no \in Nat
         /\ line_no - Len(queue) <= line_no
         /\ Prints(output', output, Len(Separators), line_no - Len(queue), line_no, ":")
         /\ Len(Separators) \in Nat /\ (Len(Separators) = 0 <=> Separators = <<>>)
<1>1. EndLine /\ ~ first' /\ prev' /\ tail' = opt.Aflag
  BY DEF SelectLine, PrintSelected
<1>2. QueueFits /\ output \in Seq(Things)
  BY DEF OutputInv
<1>3. /\ FileOpen' /\ UNCHANGED <<files, opt, file, line_no>>
      /\ line_no \in Nat /\ LastDone' = line_no /\ (Showing' <=> Showing) /\ Len(queue) \in Nat
  BY <1>1, <1>2, EndLineDone
<1>4. /\ Showing /\ output' \in Seq(Things) /\ queue' = <<>> /\ line_no - Len(queue) \in Nat
      /\ line_no - Len(queue) >= 1
      /\ Prints(output', output, Len(Separators), line_no - Len(queue), line_no, ":")
      /\ Len(Separators) \in Nat /\ (Len(Separators) = 0 <=> Separators = <<>>)
  BY <1>2, SelectPrints
<1>5. line_no - Len(queue) <= line_no
  BY <1>3
<1> QED
  BY <1>1, <1>3, <1>4, <1>5

LEMMA TrailingShown ==
  ASSUME IInv, OutputInv, ShapeInv, TrailingLine
  PROVE  /\ Showing /\ output' \in Seq(Things) /\ tail > 0 /\ LastPrinted /\ tail' = tail - 1 /\ opt.Aflag > 0
         /\ file' = file /\ FileOpen' /\ Showing' /\ LastDone' = line_no /\ ~ first' /\ ~ prev'
         /\ line_no \in Nat /\ line_no >= 1 /\ Prints(output', output, 0, line_no, line_no, "-")
<1>1. EndLine /\ tail > 0 /\ Shows /\ tail' = tail - 1 /\ ~ prev' /\ first' = first
  BY DEF TrailingLine, Trailing
<1>2. /\ FileOpen /\ FileOpen' /\ file' = file /\ LastDone' = line_no /\ line_no \in Nat /\ line_no >= 1
      /\ (Showing' <=> Showing)
  BY <1>1, EndLineDone DEF OutputInv
<1>3. Showing /\ LastPrinted /\ ~ first /\ tail <= opt.Aflag /\ tail \in Nat /\ opt.Aflag \in Nat /\ first \in BOOLEAN
  <2>1. tail \in Nat /\ opt.Aflag \in Nat /\ tail # 0 /\ first \in BOOLEAN
    BY <1>1, OptionTypes DEF IInv, Types, TypeOK
  <2> QED
    BY <1>1, <1>2, <2>1 DEF ShapeInv
<1>4. opt.Aflag > 0
  BY <1>1, <1>3
<1>5. output' \in Seq(Things) /\ Prints(output', output, 0, line_no, line_no, "-")
  BY TrailingPrints DEF OutputInv
<1> QED
  BY <1>1, <1>2, <1>3, <1>4, <1>5

LEMMA PrintsOutput ==
  ASSUME IInv, OutputInv, output' \in Seq(Things), NEW s \in Nat, NEW f \in Nat, f >= 1, f <= line_no, NEW x,
         Prints(output', output, s, f, line_no, x),
         file' = file, FileOpen', Showing', LastDone' = line_no, ~ first', EndLine
  PROVE  /\ \A k \in DOMAIN output' : IsLine(output'[k]) => output'[k].no >= 1 /\ output'[k].file <= file' /\ ~ first'
         /\ \A k \in DOMAIN output' : InThisFile(output'[k]) => output'[k].no <= line_no
         /\ LastPrinted'
<1>0. pc # "exited"
  BY DEF EndLine
<1>1. line_no \in Nat /\ LastDone = line_no - 1 /\ file \in Nat /\ line_no >= 1 /\ f <= line_no + 1
  BY EndLineDone DEF OutputInv
<1> DEFINE new == output'
<1>2. new \in Seq(Things) /\ output \in Seq(Things) /\ Prints(new, output, s, f, line_no, x)
  BY DEF OutputInv
<1>3. Len(new) \in Nat /\ Len(output) \in Nat /\ DOMAIN new = 1 .. Len(new) /\ Len(new) = Len(output) + s + (line_no + 1 - f)
      /\ DOMAIN output = 1 .. Len(output)
  BY <1>2 DEF Prints
<1> HIDE DEF new
<1>4. \A k \in DOMAIN new : IsOld(new, output, k) \/ IsGap(new, output, k) \/ IsNew(new, output, s, f, line_no, x, k)
  BY <1>1, <1>2, PrintsCases
<1>5. ASSUME NEW k \in DOMAIN new, IsLine(new[k])
      PROVE  new[k].no >= 1 /\ new[k].file <= file /\ (InThisFile(new[k]) => new[k].no <= line_no)
  <2>1. CASE IsOld(new, output, k)
    <3>1. k \in DOMAIN output /\ new[k] = output[k] /\ IsLine(output[k])
      BY <1>5, <2>1 DEF IsOld
    <3>2. output[k].no \in Nat
      BY <3>1, <1>2, ThingTypes
    <3>3. InThisFile(output[k]) => output[k].no <= line_no - 1
      BY <1>0, <1>1, <3>1 DEF OutputInv
    <3>4. InThisFile(output[k]) => output[k].no <= line_no
      BY <1>1, <3>2, <3>3
    <3>5. output[k].no >= 1 /\ output[k].file <= file
      BY <3>1 DEF OutputInv
    <3> QED
      BY <3>1, <3>4, <3>5
  <2>2. CASE IsNew(new, output, s, f, line_no, x, k)
    <3>1. /\ k \in Len(output) + s + 1 .. Len(output) + s + (line_no + 1 - f)
          /\ InThisFile(new[k]) /\ new[k].no = f + (k - Len(output) - s - 1)
      BY <2>2 DEF IsNew
    <3>2. new[k].no >= 1 /\ new[k].no <= line_no
      BY <1>1, <1>3, <3>1
    <3>3. new[k].file = file
      BY <3>1 DEF InThisFile
    <3> QED
      BY <1>1, <3>2, <3>3
  <2> QED
    BY <1>4, <1>5, <2>1, <2>2 DEF IsGap
<1>6. Len(new) > 0 /\ InThisFile(new[Len(new)]) /\ new[Len(new)].no = line_no
  <2> DEFINE k == Len(new)
  <2>1. k > 0 /\ k \in Len(output) + s + 1 .. k /\ f + (k - Len(output) - s - 1) = line_no
    BY <1>1, <1>3
  <2>2. new[k] = Printed(Line(f + (k - Len(output) - s - 1)), IF k = Len(new) THEN x ELSE "-")
    BY <1>2, <2>1 DEF Prints
  <2>3. IsLine(new[k]) /\ new[k].file = file /\ new[k].no = line_no
    BY <2>1, <2>2, PrintedFields
  <2> QED
    BY <2>1, <2>3 DEF InThisFile
<1>7. \A k \in DOMAIN new : InThisFile(new[k]) => IsLine(new[k])
  BY DEF InThisFile
<1>8. LastPrinted'
  BY <1>6 DEF LastPrinted, InThisFile, new
<1> QED
  BY <1>5, <1>7, <1>8 DEF new

LEMMA OutputInvKept ==
  /\ Init => OutputInv
  /\ IInv /\ OutputInv /\ ShapeInv /\ [Next]_vars => OutputInv'
<1>1. Init => OutputInv
  BY DEF Init, OutputInv, QueueFits, FileOpen
<1> SUFFICES ASSUME IInv, OutputInv, ShapeInv, [Next]_vars PROVE OutputInv'
  BY <1>1
<1>2. CASE UNCHANGED vars \/ OneIsEnough \/ EndOfFile \/ ReadLine \/ NotFound \/ NotWhole \/ Match
  <2>1. /\ UNCHANGED <<file, queue, first, output>>
        /\ (FileOpen' <=> FileOpen) /\ LastDone' = LastDone /\ (Showing' <=> Showing)
    BY <1>2, QuietSteps
  <2>2. pc' # "exited" => pc # "exited"
    BY <1>2, GoesOn DEF vars, Next
  <2> QED
    BY <2>1, <2>2 DEF OutputInv, QueueFits, InThisFile
<1>3. CASE Directory \/ PassOver \/ Unreadable \/ SkipBinary \/ Close \/ EmptyFileMatches \/ SearchFails \/ Exit
  <2>1. /\ ~ FileOpen' /\ output' \in Seq(Things) /\ file' \in Nat /\ file' >= file /\ first' = first
        /\ file' = file => ~ FileOpen \/ line_no = 0 \/ pc' = "exited"
    BY <1>3, LeavingPrints DEF OutputInv
  <2>2. PICK s \in Nat : Prints(output', output, s, line_no + 1, line_no, "-")
    BY <1>3, LeavingPrints DEF OutputInv
  <2>3. line_no \in Nat /\ file \in Nat /\ output \in Seq(Things) /\ pc # "exited"
    BY <1>3, GoesOn DEF IInv, Types, TypeOK, OutputInv, Next
  <2>4. \A k \in DOMAIN output' : \/ IsOld(output', output, k) \/ IsGap(output', output, k)
                                  \/ IsNew(output', output, s, line_no + 1, line_no, "-", k)
    BY <2>1, <2>2, <2>3, PrintsCases
  <2>5. ASSUME NEW k \in DOMAIN output', IsLine(output'[k])
        PROVE  k \in DOMAIN output /\ output'[k] = output[k] /\ IsLine(output[k])
    <3>1. ~ IsNew(output', output, s, line_no + 1, line_no, "-", k)
      BY <2>3 DEF IsNew
    <3> QED
      BY <2>4, <2>5, <3>1 DEF IsOld, IsGap
  <2>6. ASSUME NEW k \in DOMAIN output', IsLine(output'[k])
        PROVE  /\ output'[k].no >= 1 /\ output'[k].file <= file' /\ ~ first'
               /\ pc' # "exited" => output'[k].file # file'
    <3>1. /\ output[k].no >= 1 /\ output[k].file <= file /\ ~ first /\ k \in DOMAIN output /\ output'[k] = output[k]
          /\ IsLine(output[k]) /\ output[k].file \in Nat /\ output[k].no \in Nat
      BY <2>3, <2>5, <2>6, ThingTypes DEF OutputInv
    <3>2. pc' # "exited" => output[k].file # file'
      <4>1. SUFFICES ASSUME pc' # "exited", output[k].file = file' PROVE FALSE
        OBVIOUS
      <4>2. file' = file /\ InThisFile(output[k])
        BY <2>1, <2>3, <3>1, <4>1 DEF InThisFile
      <4>3. FileOpen /\ output[k].no <= LastDone
        BY <2>3, <3>1, <4>2 DEF OutputInv
      <4>4. line_no = 0
        BY <2>1, <4>1, <4>2, <4>3
      <4>5. LastDone = 0
        BY <4>3, <4>4 DEF LastDone, IInv, PlaceInv
      <4> QED
        BY <3>1, <4>3, <4>5
    <3> QED
      BY <2>1, <2>3, <3>1, <3>2
  <2>7. QueueFits'
    BY <2>1 DEF QueueFits
  <2>8. pc' # "exited" => \A k \in DOMAIN output' : ~ InThisFile(output[k])'
    BY <2>6 DEF InThisFile
  <2> QED
    BY <2>1, <2>6, <2>7, <2>8 DEF OutputInv
<1>4. CASE Open
  <2>1. UNCHANGED <<file, first, output, queue>> /\ pc = "procfile" /\ ~ FileOpen /\ line_no' = 0 /\ pc' = "fgetln"
    BY <1>4 DEF Open, NextFile, FileOpen
  <2>2. queue = <<>> /\ LastDone' = 0
    BY <2>1 DEF IInv, QueueInv, LastDone, InLine
  <2>3. QueueFits'
    BY <2>1, <2>2 DEF QueueFits
  <2>4. \A k \in DOMAIN output : ~ InThisFile(output[k])
    BY <2>1 DEF OutputInv
  <2> QED
    BY <2>1, <2>3, <2>4 DEF OutputInv, InThisFile
<1>5. CASE BinaryMatches \/ SelectLine \/ TrailingLine \/ OtherLine
  <2>0. EndLine /\ pc # "exited"
    BY <1>5, GoesOn DEF Next, BinaryMatches, SelectLine, TrailingLine, OtherLine
  <2>1. /\ FileOpen' /\ file' = file /\ line_no \in Nat /\ LastDone = line_no - 1 /\ LastDone' = line_no
        /\ Len(queue) \in Nat /\ Len(queue) <= LastDone /\ (Showing' <=> Showing) /\ line_no >= 1
    BY <2>0, EndLineDone DEF OutputInv
  <2>2. ASSUME UNCHANGED output, first' = first \/ ~ first',
               Len(queue') <= line_no
        PROVE  OutputInv'
    <3>1. \A k \in DOMAIN output : IsLine(output[k]) => output[k].no \in Nat
      BY ThingTypes DEF OutputInv
    <3>2. \A k \in DOMAIN output : InThisFile(output[k]) => IsLine(output[k]) /\ output[k].no <= line_no - 1 /\ Showing
      BY <2>0, <2>1 DEF OutputInv, InThisFile
    <3>3. \A k \in DOMAIN output : InThisFile(output[k]) => output[k].no <= line_no /\ Showing
      BY <2>1, <3>1, <3>2
    <3>4. QueueFits'
      BY <2>1, <2>2 DEF QueueFits
    <3>5. \A k \in DOMAIN output : InThisFile(output[k])' => InThisFile(output[k])
      BY <2>1, <2>2 DEF InThisFile
    <3>6. (\A k \in DOMAIN output : InThisFile(output[k]) => FileOpen /\ Showing /\ output[k].no <= LastDone)'
      BY <2>1, <2>2, <3>3, <3>5
    <3>7. (\A k \in DOMAIN output : IsLine(output[k]) => output[k].no >= 1 /\ output[k].file <= file /\ ~ first)'
      BY <2>1, <2>2 DEF OutputInv
    <3>8. (output \in Seq(Things))'
      BY <2>2 DEF OutputInv
    <3> QED
      BY <3>4, <3>6, <3>7, <3>8 DEF OutputInv
  <2>3. CASE BinaryMatches \/ (SelectLine /\ ~ Shows)
    <3>1. UNCHANGED <<output, queue>> /\ (first' = first \/ ~ first')
      BY <2>3 DEF BinaryMatches, SelectLine, shape
    <3>2. Len(queue') <= line_no
      BY <2>1, <3>1
    <3> QED
      BY <2>2, <3>1, <3>2
  <2>4. CASE OtherLine
    <3>1. UNCHANGED <<output, first>> /\ queue' = Queued
      BY <2>4 DEF OtherLine
    <3>2. Len(Queued) <= Len(queue) + 1 /\ Len(Queued) \in Nat
      BY <2>0, <2>1, QueuedLength DEF OutputInv
    <3>3. Len(queue') <= line_no
      BY <2>1, <3>1, <3>2
    <3> QED
      BY <2>2, <3>1, <3>3
  <2>5. ASSUME output' \in Seq(Things), NEW s \in Nat, NEW f \in Nat, f >= 1, f <= line_no, NEW x,
               Prints(output', output, s, f, line_no, x), Showing', ~ first', Len(queue') <= line_no
        PROVE  OutputInv'
    <3>1. QueueFits'
      BY <2>1, <2>5 DEF QueueFits
    <3>2. /\ \A k \in DOMAIN output' : IsLine(output'[k]) => output'[k].no >= 1 /\ output'[k].file <= file' /\ ~ first'
          /\ \A k \in DOMAIN output' : InThisFile(output'[k]) => output'[k].no <= line_no
      BY <2>0, <2>1, <2>5, PrintsOutput
    <3>3. \A k \in DOMAIN output' : InThisFile(output[k])' => InThisFile(output'[k])
      BY <2>1 DEF InThisFile
    <3> QED
      BY <2>1, <2>5, <3>1, <3>2, <3>3 DEF OutputInv
  <2>6. CASE SelectLine /\ Shows
    <3>1. Len(queue') <= line_no
      BY <2>1, <2>6, SelectsShown
    <3> QED
      BY <2>5, <2>6, <3>1, SelectsShown
  <2>7. CASE TrailingLine
    <3>1. Len(queue') <= line_no
      <4>1. queue' = Queued
        BY <2>7 DEF TrailingLine
      <4>2. Len(Queued) <= Len(queue) + 1 /\ Len(Queued) \in Nat
        BY <2>0, <2>1, QueuedLength DEF OutputInv
      <4> QED
        BY <2>1, <4>1, <4>2
    <3>2. line_no <= line_no
      BY <2>1
    <3> QED
      BY <2>5, <2>7, <3>1, <3>2, TrailingShown
  <2> QED
    BY <1>5, <2>3, <2>4, <2>6, <2>7
<1> QED
  BY <1>2, <1>3, <1>4, <1>5 DEF Next

LEMMA ShapeInvKept ==
  /\ Init => ShapeInv
  /\ IInv /\ OutputInv /\ ShapeInv /\ [Next]_vars => ShapeInv'
<1>1. Init => ShapeInv
  BY DEF Init, ShapeInv, FileOpen
<1> SUFFICES ASSUME IInv, OutputInv, ShapeInv, [Next]_vars PROVE ShapeInv'
  BY <1>1
<1>2. CASE UNCHANGED vars \/ OneIsEnough \/ EndOfFile \/ ReadLine \/ NotFound \/ NotWhole \/ Match
  <2>1. /\ UNCHANGED <<opt, file, queue, first, prev, tail, output>>
        /\ (FileOpen' <=> FileOpen) /\ LastDone' = LastDone /\ (Showing' <=> Showing)
    BY <1>2, QuietSteps
  <2>2. LastPrinted' <=> LastPrinted
    BY <2>1 DEF LastPrinted, InThisFile
  <2> QED
    BY <2>1, <2>2 DEF ShapeInv
<1>3. CASE Directory \/ PassOver \/ Unreadable \/ SkipBinary \/ Close \/ EmptyFileMatches \/ SearchFails \/ Exit
  BY <1>3, LeavingPrints DEF OutputInv, ShapeInv
<1>4. CASE Open
  <2>1. tail' = 0 /\ LastDone' = 0 /\ opt' = opt /\ opt.Aflag \in Nat
    BY <1>4, OptionTypes DEF Open, LastDone, InLine, args, IInv
  <2> QED
    BY <2>1 DEF ShapeInv
<1>5. CASE BinaryMatches \/ SelectLine \/ TrailingLine \/ OtherLine
  <2>1. EndLine
    BY <1>5 DEF BinaryMatches, SelectLine, TrailingLine, OtherLine
  <2>2. /\ FileOpen /\ FileOpen' /\ UNCHANGED <<opt, file>> /\ LastDone' = line_no /\ (Showing' <=> Showing)
        /\ tail \in Nat /\ opt.Aflag \in Nat
    BY <2>1, EndLineDone, OptionTypes DEF OutputInv, IInv, Types, TypeOK
  <2>3. ASSUME ~ Showing, tail' = tail PROVE ShapeInv'
    BY <2>2, <2>3 DEF ShapeInv
  <2>4. CASE BinaryMatches
    <3>1. ~ Showing /\ tail' = tail
      BY <2>4 DEF BinaryMatches, OnlyCounts, Showing, shape
    <3> QED
      BY <2>3, <3>1
  <2>5. CASE SelectLine /\ ~ Shows
    <3>1. ~ Showing /\ tail' = tail
      BY <2>5 DEF SelectLine, Showing
    <3> QED
      BY <2>3, <3>1
  <2>6. CASE SelectLine /\ Shows
    <3>1. /\ Showing /\ output' \in Seq(Things) /\ queue' = <<>> /\ file' = file /\ FileOpen' /\ Showing'
          /\ LastDone' = line_no /\ ~ first' /\ tail' = opt.Aflag
      BY <2>6, SelectsShown
    <3>2. LastPrinted'
      BY <2>1, <2>6, SelectsShown, PrintsOutput
    <3> QED
      BY <2>2, <3>1, <3>2 DEF ShapeInv
  <2>7. CASE TrailingLine
    <3>1. tail > 0 /\ tail' = tail - 1 /\ Showing /\ ~ first' /\ ~ prev'
      BY <2>7, TrailingShown
    <3>2. LastPrinted'
      <4>1. line_no <= line_no
        BY <2>7, TrailingShown
      <4> QED
        BY <2>1, <2>7, <4>1, TrailingShown, PrintsOutput
    <3>3. tail' <= opt'.Aflag
      BY <2>2, <3>1 DEF ShapeInv
    <3> QED
      BY <2>2, <3>1, <3>2, <3>3 DEF ShapeInv
  <2>8. CASE OtherLine
    <3>1. tail' = tail /\ ~ prev' /\ ~ (tail > 0 /\ Shows)
      BY <2>8 DEF OtherLine, Trailing
    <3>2. tail = 0
      BY <2>2, <3>1 DEF ShapeInv, Showing
    <3> QED
      BY <2>2, <3>1, <3>2 DEF ShapeInv
  <2> QED
    BY <1>5, <2>4, <2>5, <2>6, <2>7, <2>8
<1> QED
  BY <1>2, <1>3, <1>4, <1>5 DEF Next

(* With context on one side only what is queued comes after what was printed. *)
OneSided == opt.Aflag = 0 \/ opt.Bflag = 0
OrderInv == OneSided =>
  /\ Ordered(output)
  /\ pc # "exited" => \A k \in DOMAIN output : InThisFile(output[k]) => output[k].no <= LastDone - Len(queue)
GapInv == opt.Aflag > 0 \/ opt.Bflag > 0 => Gapless(output)

LEMMA OrderInvKept ==
  /\ Init => OrderInv
  /\ IInv /\ OutputInv /\ OutputInv' /\ ShapeInv /\ OrderInv /\ [Next]_vars => OrderInv'
<1>1. Init => OrderInv
  BY DEF Init, OrderInv, Ordered
<1> SUFFICES ASSUME IInv, OutputInv, OutputInv', ShapeInv, OrderInv, [Next]_vars PROVE OrderInv'
  BY <1>1
<1>2. files' = files /\ opt' = opt /\ (OneSided' <=> OneSided)
  BY ArgsKept DEF OneSided
<1>0. CASE UNCHANGED vars
  BY <1>0 DEF vars, args, search, limits, shape, OrderInv, OneSided, LastDone, InLine, InThisFile
<1> SUFFICES ASSUME OneSided, Next, pc # "exited"
             PROVE  /\ Ordered(output')
                    /\ pc' # "exited" => \A k \in DOMAIN output' : InThisFile(output[k])' => output'[k].no <= LastDone' - Len(queue')
  BY <1>2, <1>0, GoesOn DEF OrderInv, Ordered
<1>3. output \in Seq(Things) /\ line_no \in Nat /\ file \in Nat /\ Len(queue) \in Nat
  BY DEF OutputInv, IInv, Types, TypeOK
<1>4. \A k \in DOMAIN output : InThisFile(output[k]) =>
        FileOpen /\ output[k].no \in Nat /\ output[k].no <= LastDone /\ output[k].no <= LastDone - Len(queue)
  BY <1>3, ThingTypes DEF OutputInv, OrderInv, InThisFile
<1>5. CASE OneIsEnough \/ EndOfFile \/ ReadLine \/ NotFound \/ NotWhole \/ Match
  <2>1. UNCHANGED <<file, queue, output>> /\ LastDone' = LastDone
    BY <1>5, QuietSteps
  <2> QED
    BY <1>4, <2>1 DEF InThisFile, OrderInv
<1>6. CASE Directory \/ PassOver \/ Unreadable \/ SkipBinary \/ Close \/ EmptyFileMatches \/ SearchFails \/ Exit
  <2>1. ~ FileOpen' /\ output' \in Seq(Things)
    BY <1>3, <1>6, LeavingPrints
  <2>2. PICK s \in Nat : Prints(output', output, s, line_no + 1, line_no, "-")
    BY <1>3, <1>6, LeavingPrints
  <2>3. \A k \in DOMAIN output : InThisFile(output[k]) => output[k].no < line_no + 1
    <3>1. FileOpen => LastDone \in Int /\ LastDone <= line_no
      BY <1>3 DEF LastDone
    <3> QED
      BY <1>3, <1>4, <3>1
  <2>4. line_no + 1 <= line_no + 1 /\ line_no + 1 \in Nat
    BY <1>3
  <2>5. Ordered(output')
    BY <1>3, <2>1, <2>2, <2>3, <2>4, PrintsInOrder DEF OrderInv
  <2> QED
    BY <2>1, <2>5 DEF OutputInv
<1>7. CASE Open
  <2>1. UNCHANGED <<file, output>> /\ ~ FileOpen
    BY <1>7 DEF Open, NextFile, FileOpen
  <2> QED
    BY <1>4, <2>1 DEF OrderInv, InThisFile
<1>8. CASE BinaryMatches \/ SelectLine \/ TrailingLine \/ OtherLine
  <2>1. EndLine
    BY <1>8 DEF BinaryMatches, SelectLine, TrailingLine, OtherLine
  <2>2. file' = file /\ LastDone = line_no - 1 /\ LastDone' = line_no /\ line_no >= 1 /\ pc' # "exited"
    BY <2>1, EndLineDone DEF OutputInv, EndLine
  <2>3. ASSUME output' = output, Len(queue') \in Nat, Len(queue') <= Len(queue) + 1
        PROVE  /\ Ordered(output')
               /\ \A k \in DOMAIN output' : InThisFile(output[k])' => output'[k].no <= LastDone' - Len(queue')
    <3>1. PICK q \in Nat : q = Len(queue')
      BY <2>3
    <3>2. \A k \in DOMAIN output : InThisFile(output[k]) => output[k].no <= line_no - q
      <4>1. q <= Len(queue) + 1
        BY <2>3, <3>1
      <4> QED
        BY <1>3, <1>4, <2>2, <4>1
    <3>3. \A k \in DOMAIN output : InThisFile(output[k])' => InThisFile(output[k])
      BY <2>2, <2>3 DEF InThisFile
    <3> QED
      BY <2>2, <2>3, <3>1, <3>2, <3>3 DEF OrderInv
  <2>4. CASE BinaryMatches \/ (SelectLine /\ ~ Shows)
    <3>1. output' = output /\ queue' = queue
      BY <2>4 DEF BinaryMatches, SelectLine
    <3> QED
      BY <1>3, <2>3, <3>1
  <2>5. CASE OtherLine
    <3>1. output' = output /\ queue' = Queued
      BY <2>5 DEF OtherLine
    <3>2. Len(Queued) \in Nat /\ Len(Queued) <= Len(queue) + 1
      BY <1>3, <2>1, QueuedLength DEF OutputInv
    <3> QED
      BY <2>3, <3>1, <3>2
  <2>6. ASSUME queue' = <<>>
        PROVE  \A k \in DOMAIN output' : InThisFile(output[k])' => output'[k].no <= LastDone' - Len(queue')
    <3>1. Len(queue') = 0 /\ LastDone' - 0 = LastDone'
      BY <1>3, <2>2, <2>6
    <3> QED
      BY <2>2, <3>1 DEF OutputInv
  <2>7. CASE SelectLine /\ Shows
    <3>1. \A k \in DOMAIN output : InThisFile(output[k]) => output[k].no < line_no - Len(queue)
      BY <1>3, <1>4, <2>2
    <3>2. line_no - Len(queue) <= line_no + 1
      BY <1>3
    <3>3. Ordered(output')
      BY <1>3, <2>7, <3>1, <3>2, SelectsShown, PrintsInOrder DEF OrderInv
    <3>4. queue' = <<>>
      BY <2>7, SelectsShown
    <3> QED
      BY <2>6, <3>3, <3>4
  <2>8. CASE TrailingLine
    <3>1. opt.Aflag > 0 /\ output' \in Seq(Things) /\ Prints(output', output, 0, line_no, line_no, "-")
      BY <2>8, TrailingShown
    <3>2. opt.Bflag = 0
      BY <3>1, OptionTypes DEF OneSided, IInv
    <3>3. queue = <<>> /\ queue' = queue
      <4>1. queue' = Queued
        BY <2>8 DEF TrailingLine
      <4>2. Len(queue) = 0 /\ queue \in Seq(Entries)
        BY <1>3, <3>2 DEF IInv, QueueInv, Types
      <4> QED
        BY <3>2, <4>1, <4>2 DEF Queued
    <3>4. \A k \in DOMAIN output : InThisFile(output[k]) => output[k].no < line_no
      BY <1>3, <1>4, <2>2
    <3>5. line_no <= line_no + 1 /\ 0 \in Nat
      BY <1>3
    <3>6. Ordered(output')
      BY <1>3, <3>1, <3>4, <3>5, PrintsInOrder DEF OrderInv
    <3> QED
      BY <2>6, <3>3, <3>6
  <2> QED
    BY <1>8, <2>4, <2>5, <2>7, <2>8
<1> QED
  BY <1>5, <1>6, <1>7, <1>8 DEF Next

LEMMA GapInvKept ==
  /\ Init => GapInv
  /\ IInv /\ OutputInv /\ ShapeInv /\ GapInv /\ [Next]_vars => GapInv'
<1>1. Init => GapInv
  BY DEF Init, GapInv, Gapless
<1> SUFFICES ASSUME IInv, OutputInv, ShapeInv, GapInv, [Next]_vars PROVE GapInv'
  BY <1>1
<1>2. opt' = opt
  BY ArgsKept
<1> SUFFICES ASSUME opt.Aflag > 0 \/ opt.Bflag > 0 PROVE Gapless(output')
  BY <1>2 DEF GapInv, Gapless
<1>3. output \in Seq(Things) /\ line_no \in Nat /\ Len(queue) \in Nat /\ Gapless(output) /\ 0 \in Nat /\ Len(output) \in Nat
  BY DEF OutputInv, IInv, Types, TypeOK, GapInv
<1>4. CASE output' = output
  BY <1>3, <1>4
<1>5. CASE Directory \/ PassOver \/ Unreadable \/ SkipBinary \/ Close \/ EmptyFileMatches \/ SearchFails \/ Exit
  <2>1. output' \in Seq(Things)
    BY <1>3, <1>5, LeavingPrints
  <2>2. PICK s \in Nat : Prints(output', output, s, line_no + 1, line_no, "-")
    BY <1>3, <1>5, LeavingPrints
  <2>3. line_no + 1 <= line_no + 1 /\ line_no + 1 \in Nat /\ ~ (line_no + 1 <= line_no)
    BY <1>3
  <2> QED
    BY <1>3, <2>1, <2>2, <2>3, PrintsGapless
<1>6. CASE SelectLine /\ Shows
  <2>1. LastDone = line_no - 1 /\ FileOpen /\ pc # "exited"
    <3>1. EndLine
      BY <1>6 DEF SelectLine
    <3> QED
      BY <3>1, EndLineDone DEF OutputInv, EndLine
  <2>2. ASSUME Len(Separators) = 0, Len(output) > 0, InThisFile(output[Len(output)])
        PROVE  line_no - Len(queue) <= output[Len(output)].no + 1
    <3>1. Len(output) \in DOMAIN output /\ IsLine(output[Len(output)])
      BY <1>3, <2>2 DEF InThisFile
    <3>2. output[Len(output)].no \in Nat
      BY <1>3, <3>1, ThingTypes
    <3>3. ~ first /\ output[Len(output)].no >= 1 /\ output[Len(output)].no <= LastDone
      BY <2>1, <2>2, <3>1 DEF OutputInv
    <3>4. LastDone >= 1 /\ Showing
      <4>1. Showing
        BY <1>6, SelectsShown
      <4>2. LastDone >= 1
        BY <1>3, <2>1, <3>2, <3>3
      <4> QED
        BY <4>1, <4>2
    <3>5. Separators = <<>>
      BY <1>6, <2>2, SelectsShown
    <3>6. CASE prev
      <4>1. LastPrinted /\ queue = <<>>
        BY <2>1, <3>4, <3>6 DEF ShapeInv
      <4>2. output[Len(output)].no = line_no - 1 /\ Len(queue) = 0
        BY <2>1, <4>1 DEF LastPrinted
      <4> QED
        BY <1>3, <4>2
    <3>7. CASE ~ prev
      <4>1. opt.Bflag = 0 /\ tail > 0
        <5> DEFINE t == IF ~ first /\ ~ prev /\ tail = 0 /\ opt.Aflag > 0 THEN <<Separator>> ELSE <<>>
                   u == IF ~ first /\ ~ prev /\ opt.Bflag > 0 THEN <<Separator>> ELSE <<>>
        <5>0. Separator \in Things
          BY DEF Things
        <5>1. t \in Seq(Things) /\ u \in Seq(Things) /\ Len(<<Separator>>) = 1
          BY <5>0
        <5>2. t \o u = <<>>
          BY <3>5 DEF Separators
        <5> HIDE DEF t, u
        <5>3. t = <<>> /\ u = <<>>
          <6>1. Len(t \o u) = Len(t) + Len(u) /\ Len(t) \in Nat /\ Len(u) \in Nat
            BY <5>1, ConcatProperties
          <6>2. Len(t) = 0 /\ Len(u) = 0
            BY <5>2, <6>1
          <6> QED
            BY <5>1, <6>2
        <5>4. ~ (opt.Bflag > 0) /\ ~ (tail = 0 /\ opt.Aflag > 0)
          BY <3>3, <3>7, <5>1, <5>3 DEF t, u
        <5> QED
          BY <5>4, OptionTypes DEF IInv, Types, TypeOK
      <4>2. LastPrinted /\ Len(queue) = 0
        BY <1>3, <2>1, <4>1 DEF ShapeInv, IInv, QueueInv
      <4>3. output[Len(output)].no = line_no - 1
        BY <2>1, <4>2 DEF LastPrinted
      <4> QED
        BY <1>3, <4>2, <4>3
    <3> QED
      BY <3>6, <3>7
  <2>3. line_no - Len(queue) <= line_no + 1
    BY <1>3
  <2> QED
    BY <1>3, <1>6, <2>2, <2>3, SelectsShown, PrintsGapless
<1>7. CASE TrailingLine
  <2>1. /\ output' \in Seq(Things) /\ Prints(output', output, 0, line_no, line_no, "-") /\ LastPrinted
    BY <1>7, TrailingShown
  <2>2. LastDone = line_no - 1
    <3>1. EndLine
      BY <1>7 DEF TrailingLine
    <3> QED
      BY <3>1, EndLineDone DEF OutputInv
  <2>3. line_no <= output[Len(output)].no + 1 /\ line_no <= line_no + 1
    BY <1>3, <2>1, <2>2 DEF LastPrinted
  <2> QED
    BY <1>3, <2>1, <2>3, PrintsGapless
<1>8. CASE \/ UNCHANGED vars \/ OneIsEnough \/ EndOfFile \/ ReadLine \/ NotFound \/ NotWhole \/ Match \/ Open
           \/ BinaryMatches \/ OtherLine \/ (SelectLine /\ ~ Shows)
  BY <1>4, <1>8 DEF vars, OneIsEnough, EndOfFile, ReadLine, NotFound, NotWhole, Match, Open, BinaryMatches, OtherLine,
     SelectLine
<1> QED
  BY <1>5, <1>6, <1>7, <1>8 DEF Next

OInv == IInv /\ OutputInv /\ ShapeInv /\ OrderInv /\ GapInv

LEMMA OutputInvariance == Spec => []OInv
<1>1. Init => OInv
  BY InitIInv, OutputInvKept, ShapeInvKept, OrderInvKept, GapInvKept DEF OInv
<1>2. OInv /\ [Next]_vars => OInv'
  BY NextIInv, OutputInvKept, ShapeInvKept, OrderInvKept, GapInvKept DEF OInv
<1> QED
  BY <1>1, <1>2, PTL DEF Spec

(* With context on one side only, the lines of a file are printed in order and *)
(* none twice, though they go to the output directly and through the queue.   *)
THEOREM PrintedInOrder == Spec => []InOrder
<1>1. OInv => InOrder
  BY DEF OInv, OrderInv, InOrder, OneSided, Ordered
<1> QED
  BY <1>1, OutputInvariance, PTL

(* With context two lines of a file that follow each other in the output but   *)
(* not in the file have a separator between them: first, prev and tail, which *)
(* are global, tell rightly what was printed last.                          *)
THEOREM GapsAreSeparated == Spec => []GapsSeparated
<1>1. OInv => GapsSeparated
  BY DEF OInv, GapInv, GapsSeparated, Gapless
<1> QED
  BY <1>1, OutputInvariance, PTL
-----------------------------------------------------------------------------
(* Context.  The queue holds the lines since the last one that was selected,   *)
(* or the last -B of them; tail counts down from that line; and every line    *)
(* that was done with is printed as often as it should be.                  *)
HitAt(n) == Taken(Lines[n])
QueueEnds ==
  /\ \A n \in LastDone - Len(queue) + 1 .. LastDone : ~ HitAt(n)
  /\ Len(queue) = opt.Bflag \/ LastDone = Len(queue) \/ HitAt(LastDone - Len(queue))
TailCounts ==
  /\ \A h \in 1 .. LastDone : HitAt(h) => h + opt.Aflag <= LastDone + tail
  /\ tail > 0 => \E h \in 1 .. LastDone : HitAt(h) /\ h + opt.Aflag = LastDone + tail
TrailsAt(n) == \E h \in 1 .. LastDone : HitAt(h) /\ h < n /\ n <= h + opt.Aflag
LeadsAt(n) == \E h \in 1 .. LastDone : HitAt(h) /\ n < h /\ h <= n + opt.Bflag
HasSize(T, n) == IsFiniteSet(T) /\ Cardinality(T) = n
PrintedRightly(n) ==
  IF HitAt(n) THEN \E k \in DOMAIN output : LinesOf(output, n) = {k} /\ output[k].sep = ":"
  ELSE /\ \A k \in LinesOf(output, n) : output[k].sep = "-"
       /\ HasSize(LinesOf(output, n), Times(TrailsAt(n)) + Times(LeadsAt(n)))
LinesPrinted == \A n \in 1 .. LastDone : PrintedRightly(n)
ContextInv == FileOpen /\ Showing => QueueEnds /\ TailCounts /\ LinesPrinted

LEMMA HitAtKept ==
  ASSUME files' = files, opt' = opt, file' = file
  PROVE  \A n : HitAt(n)' <=> HitAt(n)
BY TakenKept DEF HitAt

LEMMA ContextKept ==
  ASSUME UNCHANGED <<files, opt, file, queue, tail, output>>, LastDone' = LastDone, FileOpen' <=> FileOpen,
         Showing' <=> Showing, ContextInv
  PROVE  ContextInv'
<1>1. \A n : HitAt(n)' <=> HitAt(n)
  BY HitAtKept
<1>2. \A n : LinesOf(output, n)' = LinesOf(output, n)
  BY DEF LinesOf, InThisFile
<1>3. QueueEnds => QueueEnds'
  BY <1>1 DEF QueueEnds
<1>4. TailCounts => TailCounts'
  BY <1>1 DEF TailCounts
<1>5. \A n : (TrailsAt(n)' <=> TrailsAt(n)) /\ (LeadsAt(n)' <=> LeadsAt(n))
  BY <1>1 DEF TrailsAt, LeadsAt
<1>6. LinesPrinted => LinesPrinted'
  <2>1. \A n : PrintedRightly(n) => PrintedRightly(n)'
    BY <1>1, <1>2, <1>5 DEF PrintedRightly, HasSize, Times
  <2> QED
    BY <2>1 DEF LinesPrinted
<1> QED
  BY <1>3, <1>4, <1>6 DEF ContextInv

(* A line that was not done with was not printed. *)
LEMMA NotYetPrinted ==
  ASSUME OutputInv, pc # "exited", NEW n \in Nat, LastDone \in Int, LastDone < n
  PROVE  LinesOf(output, n) = {}
<1> SUFFICES ASSUME NEW k \in LinesOf(output, n) PROVE FALSE
  OBVIOUS
<1>1. k \in DOMAIN output /\ InThisFile(output[k]) /\ output[k].no = n
  BY DEF LinesOf
<1>2. output[k].no <= LastDone
  BY <1>1 DEF OutputInv
<1> QED
  BY <1>1, <1>2

(* A line that is not selected. *)
LEMMA OtherQueueEnds ==
  ASSUME IInv, OutputInv, EndLine, ~ HitAt(line_no), queue' = Queued, QueueEnds
  PROVE  QueueEnds'
<1>1. /\ UNCHANGED <<files, opt, file>> /\ line_no \in Nat /\ LastDone = line_no - 1 /\ LastDone' = line_no
      /\ Len(queue) \in Nat /\ Len(queue) <= LastDone
  BY EndLineDone DEF OutputInv
<1>2. opt.Bflag \in Nat /\ Len(queue) <= opt.Bflag
  BY OptionTypes DEF IInv, QueueInv
<1>3. PICK q \in Nat : q = Len(Queued) /\ q = IF Len(queue) < opt.Bflag THEN Len(queue) + 1 ELSE Len(queue)
  BY QueuedLength DEF OutputInv
<1>4. \A n : HitAt(n)' <=> HitAt(n)
  BY <1>1, HitAtKept
<1>5. \A n \in line_no - q + 1 .. line_no : ~ HitAt(n)
  <2>1. SUFFICES ASSUME NEW n \in line_no - q + 1 .. line_no, n # line_no PROVE ~ HitAt(n)
    OBVIOUS
  <2>2. n \in LastDone - Len(queue) + 1 .. LastDone
    BY <1>1, <1>2, <1>3, <2>1
  <2> QED
    BY <2>2 DEF QueueEnds
<1>6. q = opt.Bflag \/ line_no = q \/ HitAt(line_no - q)
  <2>1. CASE Len(queue) < opt.Bflag
    <3>1. q = Len(queue) + 1 /\ line_no - q = LastDone - Len(queue)
      BY <1>1, <1>3, <2>1
    <3>2. LastDone = Len(queue) \/ HitAt(LastDone - Len(queue))
      BY <1>2, <2>1 DEF QueueEnds
    <3>3. LastDone = Len(queue) => line_no = q
      BY <1>1, <3>1
    <3> QED
      BY <3>1, <3>2, <3>3
  <2>2. CASE ~ (Len(queue) < opt.Bflag)
    BY <1>1, <1>2, <1>3, <2>2
  <2> QED
    BY <2>1, <2>2
<1>7. Len(queue') = q
  BY <1>3
<1> QED
  BY <1>1, <1>4, <1>5, <1>6, <1>7 DEF QueueEnds

(* The lines before stay as they were printed. *)
LEMMA EarlierPrinted ==
  ASSUME IInv, OutputInv, EndLine, ~ HitAt(line_no), LinesPrinted,
         \A n \in 1 .. line_no - 1 : /\ LinesOf(output', n) = LinesOf(output, n)
                                     /\ \A k \in LinesOf(output, n) : output'[k] = output[k],
         DOMAIN output \subseteq DOMAIN output',
         NEW n \in 1 .. line_no - 1
  PROVE  PrintedRightly(n)'
<1>1. /\ UNCHANGED <<files, opt, file>> /\ line_no \in Nat /\ LastDone = line_no - 1 /\ LastDone' = line_no
  BY EndLineDone DEF OutputInv
<1>2. \A h : HitAt(h)' <=> HitAt(h)
  BY <1>1, HitAtKept
<1>3. LinesOf(output, n)' = LinesOf(output', n)
  BY <1>1 DEF LinesOf, InThisFile
<1>4. (TrailsAt(n)' <=> TrailsAt(n)) /\ (LeadsAt(n)' <=> LeadsAt(n))
  <2>1. /\ TrailsAt(n)' <=> \E h \in 1 .. line_no : HitAt(h) /\ h < n /\ n <= h + opt.Aflag
        /\ LeadsAt(n)' <=> \E h \in 1 .. line_no : HitAt(h) /\ n < h /\ h <= n + opt.Bflag
    BY <1>1, <1>2 DEF TrailsAt, LeadsAt
  <2>2. \A h \in 1 .. line_no : HitAt(h) => h \in 1 .. LastDone
    BY <1>1
  <2>3. \A h \in 1 .. LastDone : h \in 1 .. line_no
    BY <1>1
  <2> QED
    BY <2>1, <2>2, <2>3 DEF TrailsAt, LeadsAt
<1>5. PrintedRightly(n) /\ n \in 1 .. LastDone
  BY <1>1 DEF LinesPrinted
<1>6. CASE HitAt(n)
  <2>1. PICK k \in DOMAIN output : LinesOf(output, n) = {k} /\ output[k].sep = ":"
    BY <1>5, <1>6 DEF PrintedRightly
  <2>2. k \in DOMAIN output' /\ LinesOf(output, n)' = {k} /\ output'[k].sep = ":"
    BY <1>3, <2>1
  <2> QED
    BY <1>2, <1>6, <2>2 DEF PrintedRightly
<1>7. CASE ~ HitAt(n)
  <2>1. \A k \in LinesOf(output, n)' : output'[k].sep = "-"
    BY <1>3, <1>5, <1>7 DEF PrintedRightly
  <2>2. HasSize(LinesOf(output, n), Times(TrailsAt(n)) + Times(LeadsAt(n)))'
    BY <1>3, <1>4, <1>5, <1>7 DEF PrintedRightly, HasSize, Times
  <2> QED
    BY <1>2, <1>7, <2>1, <2>2 DEF PrintedRightly
<1> QED
  BY <1>6, <1>7

LEMMA TrailingContext ==
  ASSUME IInv, SearchInv, OutputInv, ShapeInv, ContextInv, TrailingLine
  PROVE  ContextInv'
<1>1. EndLine /\ ~ selected /\ queue' = Queued
  BY DEF TrailingLine
<1>2. /\ FileOpen /\ UNCHANGED <<files, opt, file>> /\ line_no \in Nat /\ line_no >= 1 /\ LastDone = line_no - 1 /\ LastDone' = line_no
  BY <1>1, EndLineDone DEF OutputInv
<1>3. ~ HitAt(line_no)
  BY <1>1, SelectedIsHit DEF HitAt, This
<1>4. /\ Showing /\ output' \in Seq(Things) /\ Prints(output', output, 0, line_no, line_no, "-")
      /\ tail > 0 /\ tail' = tail - 1
  BY TrailingShown
<1>5. QueueEnds /\ TailCounts /\ LinesPrinted
  BY <1>2, <1>4 DEF ContextInv
<1>6. \A h : HitAt(h)' <=> HitAt(h)
  BY <1>2, HitAtKept
<1>7. tail \in Nat /\ opt.Aflag \in Nat /\ opt.Bflag \in Nat
  BY OptionTypes DEF IInv, Types, TypeOK
<1>8. QueueEnds'
  BY <1>1, <1>3, <1>5, OtherQueueEnds
<1>9. TailCounts'
  <2>1. PICK t \in Nat : t = tail' /\ line_no + t = LastDone + tail
    BY <1>2, <1>4, <1>7
  <2>2. \A h \in 1 .. line_no : HitAt(h) => h + opt.Aflag <= line_no + t
    <3>1. SUFFICES ASSUME NEW h \in 1 .. line_no, HitAt(h) PROVE h + opt.Aflag <= line_no + t
      OBVIOUS
    <3>2. h \in 1 .. LastDone
      BY <1>2, <1>3, <3>1
    <3> QED
      BY <1>5, <2>1, <3>1, <3>2 DEF TailCounts
  <2>3. \E h \in 1 .. line_no : HitAt(h) /\ h + opt.Aflag = line_no + t
    <3>1. PICK h \in 1 .. LastDone : HitAt(h) /\ h + opt.Aflag = LastDone + tail
      BY <1>4, <1>5 DEF TailCounts
    <3>2. h \in 1 .. line_no
      BY <1>2
    <3> QED
      BY <2>1, <3>1, <3>2
  <2> QED
    BY <1>2, <1>6, <2>1, <2>2, <2>3 DEF TailCounts
<1>10. output \in Seq(Things) /\ 0 \in Nat /\ line_no <= line_no + 1
  BY <1>2 DEF OutputInv
<1>11. LinesPrinted'
  <2>1. SUFFICES ASSUME NEW n \in 1 .. line_no PROVE PrintedRightly(n)'
    BY <1>2 DEF LinesPrinted
  <2>2. CASE n < line_no
    <3>1. \A j \in 1 .. line_no - 1 : /\ LinesOf(output', j) = LinesOf(output, j)
                                      /\ \A k \in LinesOf(output, j) : output'[k] = output[k]
      <4>1. SUFFICES ASSUME NEW j \in 1 .. line_no - 1
                     PROVE  /\ LinesOf(output', j) = LinesOf(output, j)
                            /\ \A k \in LinesOf(output, j) : output'[k] = output[k]
        OBVIOUS
      <4>2. j \in Nat /\ ~ (line_no <= j /\ j <= line_no)
        BY <1>2
      <4> QED
        BY <1>2, <1>4, <1>10, <4>2, PrintsLinesOf
    <3>2. DOMAIN output \subseteq DOMAIN output'
      <4>1. Len(output') = Len(output) + 0 + (line_no + 1 - line_no)
        BY <1>4 DEF Prints
      <4> QED
        BY <1>2, <1>4, <1>10, <4>1
    <3>3. n \in 1 .. line_no - 1
      BY <1>2, <2>2
    <3> QED
      BY <1>1, <1>3, <1>5, <3>1, <3>2, <3>3, EarlierPrinted
  <2>3. CASE n = line_no
    <3>1. LinesOf(output, line_no) = {}
      BY <1>1, <1>2, NotYetPrinted DEF EndLine
    <3>2. line_no \in Nat /\ line_no <= line_no
      BY <1>2
    <3>3. AddsLine(output', output, line_no, "-")
      BY <1>4, <1>10, <3>2, PrintsLinesOf
    <3>4. PICK k : LinesOf(output', line_no) = {k} /\ output'[k].sep = "-"
      BY <3>1, <3>3 DEF AddsLine
    <3>5. LinesOf(output, line_no)' = LinesOf(output', line_no')
      BY <1>2 DEF LinesOf, InThisFile
    <3>6. LinesOf(output, n)' = {k}
      BY <1>2, <2>3, <3>4 DEF LinesOf, InThisFile
    <3>7. TrailsAt(n)'
      <4>1. PICK h \in 1 .. LastDone : HitAt(h) /\ h + opt.Aflag = LastDone + tail
        BY <1>4, <1>5 DEF TailCounts
      <4>2. h \in 1 .. line_no /\ h < line_no /\ line_no <= h + opt.Aflag
        BY <1>2, <1>4, <1>7, <4>1
      <4> QED
        BY <1>2, <1>6, <2>3, <4>1, <4>2 DEF TrailsAt
    <3>8. ~ LeadsAt(n)'
      BY <1>2, <2>3 DEF LeadsAt
    <3>9. HasSize({k}, Times(TrailsAt(n)') + Times(LeadsAt(n)'))
      <4>1. Times(TrailsAt(n)') = 1 /\ Times(LeadsAt(n)') = 0
        BY <3>7, <3>8 DEF Times
      <4>2. IsFiniteSet({k}) /\ Cardinality({k}) = 1
        BY FS_Singleton
      <4> QED
        BY <4>1, <4>2 DEF HasSize
    <3>10. HasSize(LinesOf(output, n), Times(TrailsAt(n)) + Times(LeadsAt(n)))'
      BY <3>6, <3>9 DEF HasSize, Times
    <3> QED
      BY <1>3, <1>6, <2>3, <3>4, <3>6, <3>10 DEF PrintedRightly
  <2> QED
    BY <1>2, <2>1, <2>2, <2>3
<1> QED
  BY <1>8, <1>9, <1>11 DEF ContextInv

LEMMA OtherContext ==
  ASSUME IInv, SearchInv, OutputInv, ShapeInv, ContextInv, OtherLine
  PROVE  ContextInv'
<1>1. EndLine /\ ~ selected /\ queue' = Queued /\ tail' = tail /\ output' = output /\ ~ (tail > 0 /\ Shows)
  BY DEF OtherLine, Trailing
<1>2. /\ FileOpen /\ UNCHANGED <<files, opt, file>> /\ line_no \in Nat /\ line_no >= 1 /\ LastDone = line_no - 1 /\ LastDone' = line_no
      /\ (Showing' <=> Showing)
  BY <1>1, EndLineDone DEF OutputInv
<1>3. ~ HitAt(line_no)
  BY <1>1, SelectedIsHit DEF HitAt, This
<1> SUFFICES ASSUME Showing PROVE QueueEnds' /\ TailCounts' /\ LinesPrinted'
  BY <1>2 DEF ContextInv
<1>4. tail = 0
  BY <1>1 DEF Showing, IInv, Types, TypeOK
<1>5. QueueEnds /\ TailCounts /\ LinesPrinted
  BY <1>2 DEF ContextInv
<1>6. \A h : HitAt(h)' <=> HitAt(h)
  BY <1>2, HitAtKept
<1>7. opt.Aflag \in Nat /\ opt.Bflag \in Nat
  BY OptionTypes DEF IInv
<1>8. QueueEnds'
  BY <1>1, <1>3, <1>5, OtherQueueEnds
<1>9. \A h \in 1 .. line_no : HitAt(h) => h + opt.Aflag <= line_no - 1
  <2>1. SUFFICES ASSUME NEW h \in 1 .. line_no, HitAt(h) PROVE h + opt.Aflag <= line_no - 1
    OBVIOUS
  <2>2. h \in 1 .. LastDone
    BY <1>2, <1>3, <2>1
  <2>3. h + opt.Aflag <= LastDone + tail
    BY <1>5, <2>1, <2>2 DEF TailCounts
  <2> QED
    BY <1>2, <1>4, <2>3
<1>10. TailCounts'
  <2>1. \A h \in 1 .. line_no : HitAt(h) => h + opt.Aflag <= line_no + 0
    BY <1>2, <1>7, <1>9
  <2>2. tail' = 0 /\ ~ (tail' > 0)
    BY <1>1, <1>4
  <2> QED
    BY <1>2, <1>6, <2>1, <2>2 DEF TailCounts
<1>11. LinesPrinted'
  <2>1. SUFFICES ASSUME NEW n \in 1 .. line_no PROVE PrintedRightly(n)'
    BY <1>2 DEF LinesPrinted
  <2>2. CASE n < line_no
    <3>1. n \in 1 .. line_no - 1
      BY <1>2, <2>2
    <3> QED
      BY <1>1, <1>3, <1>5, <3>1, EarlierPrinted
  <2>3. CASE n = line_no
    <3>1. LinesOf(output, n) = {}
      BY <1>1, <1>2, <2>3, NotYetPrinted DEF EndLine
    <3>2. LinesOf(output, n)' = {}
      BY <1>1, <1>2, <3>1 DEF LinesOf, InThisFile
    <3>3. ~ TrailsAt(n)'
      <4>1. SUFFICES ASSUME NEW h \in 1 .. line_no, HitAt(h), n <= h + opt.Aflag PROVE FALSE
        BY <1>2, <1>6 DEF TrailsAt
      <4>2. h + opt.Aflag <= line_no - 1
        BY <1>9, <4>1
      <4> QED
        BY <1>2, <1>7, <2>3, <4>1, <4>2
    <3>4. ~ LeadsAt(n)'
      BY <1>2, <2>3 DEF LeadsAt
    <3>5. HasSize(LinesOf(output, n), Times(TrailsAt(n)) + Times(LeadsAt(n)))'
      BY <3>2, <3>3, <3>4, FS_EmptySet DEF HasSize, Times
    <3> QED
      BY <1>3, <1>6, <2>3, <3>2, <3>5 DEF PrintedRightly
  <2> QED
    BY <1>2, <2>1, <2>2, <2>3
<1> QED
  BY <1>8, <1>10, <1>11

LEMMA SelectContext ==
  ASSUME IInv, SearchInv, OutputInv, ShapeInv, ContextInv, SelectLine, Shows
  PROVE  ContextInv'
<1>1. EndLine /\ selected
  BY DEF SelectLine
<1>2. /\ FileOpen /\ UNCHANGED <<files, opt, file>> /\ line_no \in Nat /\ line_no >= 1 /\ LastDone = line_no - 1 /\ LastDone' = line_no
      /\ Len(queue) \in Nat
  BY <1>1, EndLineDone DEF OutputInv
<1>3. HitAt(line_no)
  BY <1>1, SelectedIsHit DEF HitAt, This
<1>4. /\ Showing /\ output' \in Seq(Things) /\ queue' = <<>> /\ tail' = opt.Aflag
      /\ Prints(output', output, Len(Separators), line_no - Len(queue), line_no, ":") /\ Len(Separators) \in Nat
  BY SelectsShown
<1>5. QueueEnds /\ TailCounts /\ LinesPrinted
  BY <1>2, <1>4 DEF ContextInv
<1>6. \A h : HitAt(h)' <=> HitAt(h)
  BY <1>2, HitAtKept
<1>7. opt.Aflag \in Nat /\ opt.Bflag \in Nat /\ Len(queue) <= opt.Bflag
  BY OptionTypes DEF IInv, QueueInv
<1>8. PICK f \in Nat : f = line_no - Len(queue) /\ f >= 1 /\ f <= line_no /\ f <= line_no + 1
  BY <1>2, SelectsShown
<1>9. QueueEnds'
  <2>1. Len(queue') = 0 /\ line_no - 0 = line_no
    BY <1>2, <1>4
  <2>2. LastDone' - Len(queue') = line_no /\ LastDone' - Len(queue') + 1 = line_no + 1
    BY <1>2, <2>1
  <2>3. \A n \in LastDone' - Len(queue') + 1 .. LastDone' : FALSE
    BY <1>2, <2>2
  <2>4. HitAt(LastDone - Len(queue))'
    BY <1>3, <1>6, <2>2
  <2> QED
    BY <2>3, <2>4 DEF QueueEnds
<1>10. TailCounts'
  <2>1. line_no \in 1 .. line_no /\ \A h \in 1 .. line_no : h + opt.Aflag <= line_no + opt.Aflag
    BY <1>2, <1>7
  <2> QED
    BY <1>2, <1>3, <1>4, <1>6, <2>1 DEF TailCounts
<1> DEFINE new == output' s == Len(Separators)
<1>11. new \in Seq(Things) /\ s \in Nat /\ Prints(new, output, s, f, line_no, ":") /\ output \in Seq(Things)
  BY <1>4, <1>8 DEF OutputInv
<1>12. \A n \in Nat : LinesOf(output, n)' = LinesOf(new, n)
  BY <1>2 DEF LinesOf, InThisFile
<1>13. \A n : /\ (\E h \in 1 .. line_no : HitAt(h) /\ h < n /\ n <= h + opt.Aflag) <=> TrailsAt(n)'
              /\ (\E h \in 1 .. line_no : HitAt(h) /\ n < h /\ h <= n + opt.Bflag) <=> LeadsAt(n)'
  BY <1>2, <1>6 DEF TrailsAt, LeadsAt
<1> HIDE DEF new, s
<1>14. \A n \in Nat : /\ ~ (f <= n /\ n <= line_no) => LinesOf(new, n) = LinesOf(output, n)
                      /\ n = line_no => AddsLine(new, output, n, ":")
                      /\ f <= n /\ n < line_no => AddsLine(new, output, n, "-")
                      /\ \A k \in LinesOf(output, n) : new[k] = output[k]
  <2>1. SUFFICES ASSUME NEW n \in Nat
                 PROVE  /\ ~ (f <= n /\ n <= line_no) => LinesOf(new, n) = LinesOf(output, n)
                        /\ n = line_no => AddsLine(new, output, n, ":")
                        /\ f <= n /\ n < line_no => AddsLine(new, output, n, "-")
                        /\ \A k \in LinesOf(output, n) : new[k] = output[k]
    OBVIOUS
  <2>2. f <= line_no + 1 /\ f \in Nat /\ line_no \in Nat
    BY <1>2, <1>8
  <2>3. \A k \in LinesOf(output, n) : new[k] = output[k]
    BY <1>11, <2>1, <2>2, PrintsLinesOf
  <2>4. ASSUME ~ (f <= n /\ n <= line_no) PROVE LinesOf(new, n) = LinesOf(output, n)
    BY <1>11, <2>1, <2>2, <2>4, PrintsLinesOf
  <2>5. ASSUME n = line_no PROVE AddsLine(new, output, n, ":")
    <3>1. f <= n /\ n <= line_no
      BY <1>8, <2>2, <2>5
    <3> QED
      BY <1>11, <2>1, <2>2, <2>5, <3>1, PrintsLinesOf
  <2>6. ASSUME f <= n, n < line_no PROVE AddsLine(new, output, n, "-")
    <3>1. n <= line_no /\ n # line_no
      BY <2>1, <2>2, <2>6
    <3> QED
      BY <1>11, <2>1, <2>2, <2>6, <3>1, PrintsLinesOf
  <2> QED
    BY <2>3, <2>4, <2>5, <2>6
<1>15. LinesPrinted'
  <2>1. SUFFICES ASSUME NEW n \in 1 .. line_no PROVE PrintedRightly(n)'
    BY <1>2 DEF LinesPrinted
  <2>2. n \in Nat /\ n >= 1 /\ n <= line_no
    BY <1>2
  <2>3. new = output'
    BY DEF new
  <2>0. n # line_no => (TrailsAt(n)' <=> TrailsAt(n))
    <3>1. \A h \in 1 .. line_no : h < n => h \in 1 .. LastDone
      BY <1>2, <2>2
    <3>2. \A h \in 1 .. LastDone : h \in 1 .. line_no
      BY <1>2
    <3> QED
      BY <1>13, <3>1, <3>2 DEF TrailsAt
  <2>4. CASE n = line_no
    <3>1. LinesOf(output, n) = {}
      BY <1>1, <1>2, <2>2, <2>4, NotYetPrinted DEF EndLine
    <3>2. PICK k : LinesOf(new, n) = {k} /\ new[k].sep = ":"
      BY <1>14, <2>2, <2>4, <3>1 DEF AddsLine
    <3>3. k \in DOMAIN output'
      BY <2>3, <3>2 DEF LinesOf
    <3> QED
      BY <1>3, <1>6, <1>12, <2>2, <2>3, <2>4, <3>2, <3>3 DEF PrintedRightly
  <2>5. CASE f <= n /\ n # line_no
    <3>1. n \in LastDone - Len(queue) + 1 .. LastDone /\ n \in 1 .. LastDone
      BY <1>2, <1>8, <2>2, <2>5
    <3>2. ~ HitAt(n)
      BY <1>5, <3>1 DEF QueueEnds
    <3>3. PICK k : k \notin LinesOf(output, n) /\ LinesOf(new, n) = LinesOf(output, n) \cup {k} /\ new[k].sep = "-"
      BY <1>2, <1>14, <2>2, <2>5 DEF AddsLine
    <3>4. /\ \A i \in LinesOf(output, n) : output[i].sep = "-"
          /\ HasSize(LinesOf(output, n), Times(TrailsAt(n)) + Times(LeadsAt(n)))
      BY <1>5, <3>1, <3>2 DEF LinesPrinted, PrintedRightly
    <3>5. \A i \in LinesOf(new, n) : new[i].sep = "-"
      BY <1>14, <2>2, <3>3, <3>4
    <3>6. LeadsAt(n)'
      <4>1. line_no \in 1 .. line_no /\ n < line_no /\ line_no <= n + opt.Bflag
        BY <1>2, <1>7, <1>8, <2>2, <2>5
      <4> QED
        BY <1>3, <1>13, <4>1
    <3>7. ~ LeadsAt(n)
      <4>1. SUFFICES ASSUME NEW h \in 1 .. LastDone, HitAt(h), n < h PROVE FALSE
        BY DEF LeadsAt
      <4>2. h \in LastDone - Len(queue) + 1 .. LastDone
        BY <1>2, <1>8, <2>2, <2>5, <4>1
      <4> QED
        BY <1>5, <4>1, <4>2 DEF QueueEnds
    <3>8. HasSize(LinesOf(new, n), Times(TrailsAt(n)') + Times(LeadsAt(n)'))
      <4>1. HasSize(LinesOf(new, n), Cardinality(LinesOf(output, n)) + 1)
        BY <3>3, <3>4, FS_AddElement DEF HasSize
      <4>2. Cardinality(LinesOf(output, n)) = Times(TrailsAt(n))
        BY <3>4, <3>7 DEF HasSize, Times
      <4>3. Times(TrailsAt(n)') = Times(TrailsAt(n)) /\ Times(LeadsAt(n)') = 1
        BY <2>0, <2>5, <3>6 DEF Times
      <4> QED
        BY <4>1, <4>2, <4>3
    <3>9. HasSize(LinesOf(output, n), Times(TrailsAt(n)) + Times(LeadsAt(n)))'
      BY <1>12, <2>2, <2>3, <3>8 DEF HasSize, Times
    <3> QED
      BY <1>6, <1>12, <2>2, <2>3, <3>2, <3>5, <3>9 DEF PrintedRightly
  <2>6. CASE n < f
    <3>1. n \in 1 .. LastDone
      BY <1>2, <1>8, <2>2, <2>6
    <3>2. PrintedRightly(n)
      BY <1>5, <3>1 DEF LinesPrinted
    <3>3. LinesOf(new, n) = LinesOf(output, n) /\ \A k \in LinesOf(output, n) : new[k] = output[k]
      BY <1>8, <1>14, <2>2, <2>6
    <3>4. CASE HitAt(n)
      <4>1. PICK k \in DOMAIN output : LinesOf(output, n) = {k} /\ output[k].sep = ":"
        BY <3>2, <3>4 DEF PrintedRightly
      <4>2. LinesOf(new, n) = {k} /\ new[k].sep = ":"
        BY <3>3, <4>1
      <4>3. k \in DOMAIN output'
        BY <2>3, <4>2 DEF LinesOf
      <4> QED
        BY <1>6, <1>12, <2>2, <2>3, <3>4, <4>2, <4>3 DEF PrintedRightly
    <3>5. CASE ~ HitAt(n)
      <4>1. \A k \in LinesOf(new, n) : new[k].sep = "-"
        BY <3>2, <3>3, <3>5 DEF PrintedRightly
      <4>2. HasSize(LinesOf(new, n), Times(TrailsAt(n)) + Times(LeadsAt(n)))
        BY <3>2, <3>3, <3>5 DEF PrintedRightly
      <4>3. LeadsAt(n) => LeadsAt(n)'
        <5>1. \A h \in 1 .. LastDone : h \in 1 .. line_no
          BY <1>2
        <5> QED
          BY <1>13, <5>1 DEF LeadsAt
      <4>4. ASSUME LeadsAt(n)' PROVE LeadsAt(n)
        <5>1. PICK h \in 1 .. line_no : HitAt(h) /\ n < h /\ h <= n + opt.Bflag
          BY <1>13, <4>4
        <5>2. CASE h \in 1 .. LastDone
          BY <5>1, <5>2 DEF LeadsAt
        <5>3. CASE h \notin 1 .. LastDone
          <6>1. h = line_no
            BY <1>2, <5>3
          <6>2. Len(queue) # opt.Bflag /\ LastDone # Len(queue)
            BY <1>2, <1>7, <1>8, <2>2, <2>6, <5>1, <6>1
          <6>3. HitAt(LastDone - Len(queue))
            BY <1>5, <6>2 DEF QueueEnds
          <6>4. PICK b : b = LastDone - Len(queue)
            OBVIOUS
          <6>5. b # n
            BY <3>5, <6>3, <6>4
          <6>6. b \in 1 .. LastDone /\ n < b /\ b <= n + opt.Bflag
            BY <1>2, <1>7, <1>8, <2>2, <2>6, <5>1, <6>1, <6>4, <6>5, SMTT(30)
          <6> QED
            BY <6>3, <6>4, <6>6 DEF LeadsAt
        <5> QED
          BY <5>2, <5>3
      <4>5. n # line_no
        BY <1>2, <1>8, <2>2, <2>6
      <4>6. Times(TrailsAt(n)') = Times(TrailsAt(n)) /\ Times(LeadsAt(n)') = Times(LeadsAt(n))
        BY <2>0, <4>3, <4>4, <4>5 DEF Times
      <4>7. HasSize(LinesOf(output, n), Times(TrailsAt(n)) + Times(LeadsAt(n)))'
        BY <1>12, <2>2, <2>3, <4>2, <4>6 DEF HasSize, Times
      <4> QED
        BY <1>6, <1>12, <2>2, <2>3, <3>5, <4>1, <4>7 DEF PrintedRightly
    <3> QED
      BY <3>4, <3>5
  <2> QED
    BY <1>2, <1>8, <2>2, <2>4, <2>5, <2>6
<1> QED
  BY <1>9, <1>10, <1>15 DEF ContextInv

LEMMA ContextInvKept ==
  /\ Init => ContextInv
  /\ IInv /\ IInv' /\ SearchInv /\ OutputInv /\ ShapeInv /\ ContextInv /\ [Next]_vars => ContextInv'
<1>1. Init => ContextInv
  BY DEF Init, ContextInv, FileOpen
<1> SUFFICES ASSUME IInv, IInv', SearchInv, OutputInv, ShapeInv, ContextInv, [Next]_vars PROVE ContextInv'
  BY <1>1
<1>2. CASE UNCHANGED vars \/ OneIsEnough \/ EndOfFile \/ ReadLine \/ NotFound \/ NotWhole \/ Match
  BY <1>2, QuietSteps, ContextKept
<1>3. CASE Directory \/ PassOver \/ Unreadable \/ SkipBinary \/ Close \/ EmptyFileMatches \/ SearchFails \/ Exit
  BY <1>3, LeavingPrints DEF OutputInv, ContextInv
<1>4. CASE Open
  <2>1. LastDone' = 0 /\ FileOpen' /\ ~ FileOpen /\ tail' = 0 /\ queue' = queue
    BY <1>4 DEF Open, NextFile, LastDone, InLine, FileOpen
  <2>2. queue = <<>> /\ Len(queue') = 0
    BY <1>4, <2>1 DEF Open, NextFile, IInv, QueueInv
  <2>3. LastDone' = Len(queue') /\ LastDone' - Len(queue') + 1 .. LastDone' = {} /\ 1 .. LastDone' = {}
    <3>1. 0 - 0 + 1 .. 0 = {} /\ 1 .. 0 = {}
      OBVIOUS
    <3> QED
      BY <2>1, <2>2, <3>1, Zenon
  <2>4. QueueEnds'
    BY <2>3 DEF QueueEnds
  <2>5. TailCounts'
    BY <2>1, <2>3 DEF TailCounts
  <2>6. LinesPrinted'
    BY <2>3 DEF LinesPrinted
  <2> QED
    BY <2>4, <2>5, <2>6 DEF ContextInv
<1>5. CASE BinaryMatches
  <2>1. EndLine /\ OnlyCounts
    BY <1>5 DEF BinaryMatches
  <2>2. ~ Showing'
    BY <2>1, EndLineDone DEF OutputInv, Showing, OnlyCounts
  <2> QED
    BY <2>2 DEF ContextInv
<1>6. CASE SelectLine /\ ~ Shows
  <2>1. EndLine
    BY <1>6 DEF SelectLine
  <2>2. ~ Showing'
    BY <1>6, <2>1, EndLineDone DEF OutputInv, Showing
  <2> QED
    BY <2>2 DEF ContextInv
<1>7. CASE SelectLine /\ Shows
  BY <1>7, SelectContext
<1>8. CASE TrailingLine
  BY <1>8, TrailingContext
<1>9. CASE OtherLine
  BY <1>9, OtherContext
<1> QED
  BY <1>2, <1>3, <1>4, <1>5, <1>6, <1>7, <1>8, <1>9 DEF Next

CInv == IInv /\ SearchInv /\ OutputInv /\ ShapeInv /\ ContextInv

LEMMA ContextInvariance == Spec => []CInv
<1>1. Init => CInv
  BY InitIInv, SearchInvKept, OutputInvKept, ShapeInvKept, ContextInvKept DEF CInv
<1>2. CInv /\ [Next]_vars => CInv'
  BY NextIInv, SearchInvKept, OutputInvKept, ShapeInvKept, ContextInvKept DEF CInv
<1> QED
  BY <1>1, <1>2, PTL DEF Spec

(* Of the lines read so far, a selected one is printed once, marked as such,  *)
(* and another one once if it is within -A after one that is and once more if *)
(* it is within -B before one, for all files and options on which the code    *)
(* selects the lines that the manual says.                                 *)
THEOREM ContextIsExact == Spec => []PrintedExactly
<1>1. CInv => PrintedExactly
  <2> SUFFICES ASSUME CInv, Reading, Showing, AsDocumented, NEW n \in 1 .. line_no
               PROVE  IF n \in ReadHits
                      THEN Cardinality(OutputOf(n)) = 1 /\ \A k \in OutputOf(n) : output[k].sep = ":"
                      ELSE /\ \A k \in OutputOf(n) : output[k].sep = "-"
                           /\ Cardinality(OutputOf(n)) = Times(Trails(n)) + Times(Leads(n))
    BY DEF PrintedExactly
  <2>1. FileOpen /\ LastDone = line_no
    BY DEF Reading, FileOpen, LastDone, InLine
  <2>2. OutputOf(n) = LinesOf(output, n)
    BY DEF OutputOf, LinesOf, InThisFile
  <2>3. \A h : h \in ReadHits <=> h \in 1 .. LastDone /\ HitAt(h)
    <3>1. file \in DOMAIN files /\ DOMAIN Lines = 1 .. Len(Lines) /\ line_no <= Len(Lines) /\ line_no \in Nat
          /\ Len(Lines) \in Nat
      BY <2>1, FileTypes DEF CInv, IInv, PlaceInv, Types, TypeOK
    <3>2. \A h \in 1 .. line_no : h \in DOMAIN Lines
      BY <3>1
    <3>3. \A h \in DOMAIN Lines : HitAt(h) <=> IsHit(Lines[h])
      BY <3>1, DocumentedAreTaken DEF HitAt, Lines, Current
    <3> QED
      BY <2>1, <3>2, <3>3 DEF ReadHits
  <2>4. PrintedRightly(n)
    BY <2>1 DEF CInv, ContextInv, LinesPrinted
  <2>5. CASE n \in ReadHits
    <3>1. PICK k \in DOMAIN output : LinesOf(output, n) = {k} /\ output[k].sep = ":"
      BY <2>3, <2>4, <2>5 DEF PrintedRightly
    <3>2. Cardinality({k}) = 1
      BY FS_Singleton
    <3> QED
      BY <2>2, <2>5, <3>1, <3>2
  <2>6. CASE n \notin ReadHits
    <3>1. ~ HitAt(n)
      BY <2>1, <2>3, <2>6
    <3>2. (TrailsAt(n) <=> Trails(n)) /\ (LeadsAt(n) <=> Leads(n))
      BY <2>3 DEF TrailsAt, LeadsAt, Trails, Leads
    <3>3. Times(TrailsAt(n)) = Times(Trails(n)) /\ Times(LeadsAt(n)) = Times(Leads(n))
      BY <3>2 DEF Times
    <3> QED
      BY <2>2, <2>4, <2>6, <3>1, <3>3 DEF PrintedRightly, HasSize
  <2> QED
    BY <2>5, <2>6
<1> QED
  BY <1>1, ContextInvariance, PTL
-----------------------------------------------------------------------------
(* Counting.  While the limit is not spent, the lines that were printed as     *)
(* selected are as many as the hits in what was done with; when it is, there  *)
(* are at least as many hits as it allows.                                  *)
Done == {h \in TakenLines : h[1] < file \/ (FileOpen /\ h[1] = file /\ h[2] <= LastDone)}

CountInv == PrintsToTheEnd =>
  /\ IsFiniteSet(Shown) /\ Cardinality(Shown) = SelectedSoFar
  /\ ~ Spent => IsFiniteSet(Done) /\ Cardinality(Done) = SelectedSoFar
  /\ Spent => \E D \in SUBSET TakenLines : IsFiniteSet(D) /\ Cardinality(D) = opt.max
  /\ pc = "grep_close" => Spent \/ line_no = Len(Lines)
  /\ pc = "exited" => file > Len(files) /\ (opt.mflag => SelectedSoFar + mcount = opt.max)

LEMMA HitPlaces ==
  ASSUME Types, NEW h \in TakenLines
  PROVE  /\ h = <<h[1], h[2]>> /\ h[1] \in Searched /\ h[1] \in DOMAIN files /\ h[1] \in Nat /\ h[1] <= Len(files)
         /\ h[2] \in Nat /\ h[2] >= 1 /\ h[2] <= Len(files[h[1]].lines) /\ h[2] \in DOMAIN files[h[1]].lines
         /\ Taken(files[h[1]].lines[h[2]])
<1>1. PICK n \in Searched : \E k \in {j \in DOMAIN files[n].lines : Taken(files[n].lines[j])} : h = <<n, k>>
  BY DEF TakenLines
<1>2. PICK k \in {j \in DOMAIN files[n].lines : Taken(files[n].lines[j])} : h = <<n, k>>
  BY <1>1
<1>3. h[1] = n /\ h[2] = k
  BY <1>2
<1>4. n \in DOMAIN files /\ files[n] \in File /\ n \in Nat /\ n <= Len(files)
  BY DEF Searched, Types
<1>5. files[n].lines \in Seq(Content)
  BY <1>4 DEF File
<1> QED
  BY <1>2, <1>3, <1>4, <1>5

LEMMA HitHere ==
  ASSUME Types, NEW n \in Searched, NEW k \in DOMAIN files[n].lines, Taken(files[n].lines[k])
  PROVE  <<n, k>> \in TakenLines
BY DEF TakenLines

(* There is an end to the lines that match. *)
LEMMA HitsFinite ==
  ASSUME Types
  PROVE  IsFiniteSet(TakenLines)
<1> DEFINE In(n) == {j \in DOMAIN files[n].lines : Taken(files[n].lines[j])}
           Of(n) == {<<n, k>> : k \in In(n)}
<1>1. ASSUME NEW n \in Searched PROVE IsFiniteSet(Of(n))
  <2>1. n \in DOMAIN files /\ files[n] \in File
    BY DEF Searched, Types
  <2>2. files[n].lines \in Seq(Content)
    BY <2>1 DEF File
  <2>3. DOMAIN files[n].lines = 1 .. Len(files[n].lines) /\ Len(files[n].lines) \in Int
    BY <2>2
  <2>4. IsFiniteSet(1 .. Len(files[n].lines))
    BY <2>3, FS_Interval
  <2>5. IsFiniteSet(In(n))
    BY <2>3, <2>4, FS_Subset
  <2> DEFINE g == [k \in In(n) |-> <<n, k>>]
  <2>6. g \in Surjection(In(n), Of(n))
    BY DEF Surjection
  <2> QED
    BY <2>5, <2>6, FS_Surjection
<1>2. IsFiniteSet(Searched)
  <2>1. DOMAIN files = 1 .. Len(files) /\ Len(files) \in Int
    BY DEF Types
  <2>2. IsFiniteSet(1 .. Len(files))
    BY <2>1, FS_Interval
  <2> QED
    BY <2>1, <2>2, FS_Subset DEF Searched
<1> DEFINE g == [n \in Searched |-> Of(n)]
           All == {Of(n) : n \in Searched}
<1>3. g \in Surjection(Searched, All)
  BY DEF Surjection
<1>4. IsFiniteSet(All)
  BY <1>2, <1>3, FS_Surjection
<1>5. \A T \in All : IsFiniteSet(T)
  BY <1>1
<1>6. TakenLines = UNION All
  BY DEF TakenLines
<1> HIDE DEF All
<1> QED
  BY <1>4, <1>5, <1>6, FS_UNION

LEMMA CountingKept ==
  ASSUME files' = files, opt' = opt
  PROVE  TakenLines' = TakenLines /\ (PrintsToTheEnd' <=> PrintsToTheEnd)
<1>1. Searched' = Searched /\ TakenLines' = TakenLines
  BY GoalsKept
<1> QED
  BY <1>1 DEF PrintsToTheEnd, SomeSearchFails, Shows

LEMMA SameCount ==
  ASSUME UNCHANGED <<files, opt>>, PrintsToTheEnd, CountInv, Shown' = Shown, SelectedSoFar' = SelectedSoFar, mcount' = mcount,
         ~ Spent => Done' = Done,
         pc' = "grep_close" => Spent \/ line_no' = Len(Lines'),
         pc' = "exited" => file' > Len(files) /\ (opt.mflag => SelectedSoFar + mcount = opt.max)
  PROVE  CountInv'
<1>1. TakenLines' = TakenLines /\ (PrintsToTheEnd' <=> PrintsToTheEnd) /\ (Spent' <=> Spent) /\ opt'.max = opt.max /\ Len(files') = Len(files)
  BY CountingKept DEF Spent
<1> QED
  BY <1>1 DEF CountInv

LEMMA QuietCount ==
  ASSUME IInv, CountInv, PrintsToTheEnd, 
         UNCHANGED vars \/ OneIsEnough \/ EndOfFile \/ ReadLine \/ NotFound \/ NotWhole \/ Match
  PROVE  CountInv'
<1>1. /\ UNCHANGED <<files, opt, file, c, total, mcount, output>>
      /\ (FileOpen' <=> FileOpen) /\ LastDone' = LastDone
  BY QuietSteps
<1>2. TakenLines' = TakenLines /\ Shown' = Shown /\ SelectedSoFar' = SelectedSoFar /\ Lines' = Lines
  BY <1>1, CountingKept DEF Shown, SelectedSoFar, Lines, Current
<1>3. Done' = Done
  BY <1>1, <1>2 DEF Done
<1>4. pc' = "grep_close" => Spent \/ line_no' = Len(Lines)
  <2>1. ~ OneIsEnough
    BY DEF OneIsEnough, PrintsToTheEnd, Shows
  <2>2. CASE UNCHANGED vars
    BY <2>2 DEF vars, CountInv
  <2>3. CASE EndOfFile
    BY <2>3 DEF EndOfFile
  <2>4. CASE ReadLine \/ NotFound \/ NotWhole \/ Match
    BY <2>4 DEF ReadLine, NotFound, NotWhole, Match, Searching
  <2> QED
    BY <2>1, <2>2, <2>3, <2>4
<1>5. pc' = "exited" => file' > Len(files) /\ (opt.mflag => SelectedSoFar + mcount = opt.max)
  <2>1. pc' = "exited" => pc = "exited"
    BY DEF vars, OneIsEnough, EndOfFile, ReadLine, NotFound, NotWhole, Match, Searching
  <2> QED
    BY <1>1, <2>1 DEF CountInv
<1> QED
  BY <1>1, <1>2, <1>3, <1>4, <1>5, SameCount

LEMMA OpenCount ==
  ASSUME IInv, CountInv, PrintsToTheEnd, Open
  PROVE  CountInv'
<1>1. /\ UNCHANGED <<files, opt, file, total, mcount, output>> /\ c' = 0 /\ line_no' = 0 /\ pc' = "fgetln" /\ ~ FileOpen
  BY DEF Open, NextFile, FileOpen, args, limits
<1>2. FileOpen' /\ LastDone' = 0
  BY <1>1 DEF FileOpen, LastDone, InLine
<1>3. Shown' = Shown
  BY <1>1 DEF Shown
<1>4. SelectedSoFar' = SelectedSoFar
  BY <1>1, <1>2 DEF SelectedSoFar
<1>5. TakenLines' = TakenLines
  BY <1>1, CountingKept
<1>6. Done' = Done
  <2>1. \A h \in TakenLines : ~ (h[2] <= 0)
    BY HitPlaces DEF IInv
  <2> QED
    BY <1>1, <1>2, <1>5, <2>1 DEF Done
<1> QED
  BY <1>1, <1>3, <1>4, <1>6, SameCount

LEMMA LeavingCount ==
  ASSUME IInv, TreeInv, OutputInv, CountInv, PrintsToTheEnd,
         Directory \/ PassOver \/ Unreadable \/ SkipBinary \/ Close \/ EmptyFileMatches \/ SearchFails \/ Exit
  PROVE  CountInv'
<1>1. /\ ~ FileOpen' /\ UNCHANGED <<files, opt>> /\ file' \in Nat /\ file' >= file
      /\ \E s \in Nat : Prints(output', output, s, line_no + 1, line_no, "-")
      /\ output \in Seq(Things) /\ output' \in Seq(Things)
  BY LeavingPrints DEF OutputInv
<1>2. line_no \in Nat /\ file \in Nat /\ c \in Nat /\ total \in Nat /\ Len(files) \in Nat
  BY DEF IInv, Types, TypeOK
<1>3. mcount' = mcount
  BY DEF Directory, PassOver, Unreadable, SkipBinary, Close, EmptyFileMatches, SearchFails, Exit
<1>4. ~ EmptyFileMatches /\ ~ SearchFails
  <2>1. SUFFICES ASSUME SearchFails PROVE FALSE
    BY DEF EmptyFileMatches, PrintsToTheEnd
  <2>2. FileOpen /\ InLine /\ This.err
    BY <2>1 DEF SearchFails, FileOpen, InLine
  <2>3. file \in DOMAIN files /\ line_no >= 1 /\ line_no <= Len(Lines)
    BY <2>2 DEF IInv, PlaceInv
  <2>4. file \in Searched
    BY <2>2, <2>3 DEF TreeInv, Nottext, Current, PrintsToTheEnd
  <2>5. line_no \in DOMAIN Lines
    BY <1>2, <2>3, FileTypes DEF IInv
  <2> QED
    BY <2>2, <2>4, <2>5 DEF PrintsToTheEnd, SomeSearchFails, This, Lines, Current
<1>5. ~ SkipBinary
  <2>1. SUFFICES ASSUME SkipBinary PROVE FALSE
    OBVIOUS
  <2>2. file \in DOMAIN files
    BY <2>1 DEF SkipBinary, MoreLines, FileOpen, IInv, PlaceInv
  <2> QED
    BY <2>1, <2>2 DEF SkipBinary, Nottext, Current, PrintsToTheEnd
<1>6. Shown' = Shown
  <2>1. PICK s \in Nat : Prints(output', output, s, line_no + 1, line_no, "-")
    BY <1>1
  <2>2. line_no + 1 \in Nat /\ line_no + 1 <= line_no + 1 /\ ~ (line_no + 1 <= line_no)
    BY <1>2
  <2>3. ShownIn(output') = ShownIn(output)
    BY <1>1, <1>2, <2>1, <2>2, PrintsShown
  <2> QED
    BY <2>3 DEF Shown, ShownIn
<1>7. SelectedSoFar' = SelectedSoFar
  <2>1. CASE Close
    BY <1>1, <2>1 DEF Close, FileOpen, SelectedSoFar
  <2>2. CASE ~ Close
    BY <1>1, <1>4, <1>5, <2>2 DEF Directory, PassOver, Unreadable, Exit, NextFile, SelectedSoFar, FileOpen, limits
  <2> QED
    BY <2>1, <2>2
<1>8. TakenLines' = TakenLines
  BY <1>1, CountingKept
<1>9. ~ Spent => Done' = Done
  <2>1. SUFFICES ASSUME ~ Spent, NEW h \in TakenLines
                 PROVE  h[1] < file' <=> h[1] < file \/ (FileOpen /\ h[1] = file /\ h[2] <= LastDone)
    BY <1>1, <1>8 DEF Done
  <2>2. h[1] \in Nat /\ h[2] \in Nat /\ h[1] \in Searched /\ h[1] \in DOMAIN files /\ h[2] <= Len(files[h[1]].lines)
    BY HitPlaces DEF IInv
  <2>3. CASE Close
    <3>1. FileOpen /\ pc = "grep_close" /\ file' = file + 1
      BY <2>3 DEF Close, FileOpen
    <3>2. line_no = Len(Lines) /\ LastDone = line_no
      BY <2>1, <3>1 DEF CountInv, LastDone, InLine
    <3>3. h[1] = file => h[2] <= LastDone
      BY <2>2, <3>2 DEF Lines, Current
    <3> QED
      BY <1>2, <2>2, <3>1, <3>3
  <2>4. CASE Exit
    BY <2>4 DEF Exit, FileOpen
  <2>5. CASE Directory \/ PassOver \/ Unreadable
    <3>1. ~ FileOpen
      BY <2>5 DEF Directory, PassOver, Unreadable, NextFile, FileOpen
    <3>2. ~ (file <= h[1] /\ h[1] < file')
      BY <2>1, <2>2, <2>5, PassedOver
    <3> QED
      BY <1>1, <1>2, <2>2, <3>1, <3>2
  <2> QED
    BY <1>4, <1>5, <2>3, <2>4, <2>5
<1>10. pc' = "exited" => file' > Len(files) /\ (opt.mflag => SelectedSoFar + mcount = opt.max)
  <2>1. CASE Exit
    BY <2>1 DEF Exit, IInv, LimitInv
  <2>2. CASE ~ Exit
    BY <1>4, <1>5, <2>2 DEF Directory, PassOver, Unreadable, Close, NextFile
  <2> QED
    BY <2>1, <2>2
<1>11. pc' # "grep_close"
  BY <1>1 DEF FileOpen
<1> QED
  BY <1>1, <1>3, <1>6, <1>7, <1>9, <1>10, <1>11, SameCount

(* The end of a line that is not selected, or is and is printed. *)
LEMMA EndLineShown ==
  ASSUME IInv, OutputInv, ShapeInv, PrintsToTheEnd, CountInv,
         SelectLine \/ TrailingLine \/ OtherLine
  PROVE  IsFiniteSet(Shown') /\ Cardinality(Shown') = SelectedSoFar'
<1>1. EndLine
  BY DEF SelectLine, TrailingLine, OtherLine
<1>2. FileOpen /\ FileOpen' /\ total' = total /\ c' = (IF selected THEN c + 1 ELSE c)
  BY <1>1, EndLineCounts DEF EndLine
<1>3. c \in Nat /\ total \in Nat
  BY DEF IInv, Types, TypeOK
<1>4. SelectedSoFar' = IF selected THEN SelectedSoFar + 1 ELSE SelectedSoFar
  BY <1>2, <1>3 DEF SelectedSoFar
<1>5. IsFiniteSet(Shown) /\ Cardinality(Shown) = SelectedSoFar /\ SelectedSoFar \in Nat
  BY <1>2, <1>3 DEF CountInv, SelectedSoFar
<1>6. Shown = ShownIn(output) /\ Shown' = ShownIn(output')
  BY DEF Shown, ShownIn
<1>7. output \in Seq(Things)
  BY DEF OutputInv
<1>8. CASE SelectLine
  <2>1. Shows /\ selected
    BY <1>8 DEF PrintsToTheEnd, SelectLine
  <2>2. PICK f \in Nat, s \in Nat : /\ f = line_no - Len(queue) /\ s = Len(Separators) /\ f <= line_no /\ line_no \in Nat
                                    /\ output' \in Seq(Things) /\ Prints(output', output, s, f, line_no, ":")
    BY <1>8, <2>1, SelectsShown
  <2>3. f <= line_no + 1
    BY <2>2
  <2>4. Len(output') \notin ShownIn(output) /\ ShownIn(output') = ShownIn(output) \cup {Len(output')}
    BY <1>7, <2>2, <2>3, PrintsShown
  <2> DEFINE e == Len(output')
  <2> HIDE DEF e
  <2>5. e \notin Shown /\ Shown' = Shown \cup {e}
    BY <1>6, <2>4 DEF e
  <2>6. IsFiniteSet(Shown \cup {e}) /\ Cardinality(Shown \cup {e}) = Cardinality(Shown) + 1
    BY <1>5, <2>5, FS_AddElement
  <2> QED
    BY <1>4, <1>5, <2>1, <2>5, <2>6
<1>9. CASE TrailingLine
  <2>1. /\ output' \in Seq(Things) /\ Prints(output', output, 0, line_no, line_no, "-") /\ line_no \in Nat
        /\ line_no <= line_no + 1
    BY <1>9, TrailingShown
  <2>2. ShownIn(output') = ShownIn(output)
    BY <1>7, <2>1, PrintsShown
  <2>3. ~ selected
    BY <1>9 DEF TrailingLine
  <2> QED
    BY <1>4, <1>5, <1>6, <2>2, <2>3
<1>10. CASE OtherLine
  <2>1. output' = output /\ ~ selected
    BY <1>10 DEF OtherLine
  <2> QED
    BY <1>4, <1>5, <1>6, <2>1
<1> QED
  BY <1>8, <1>9, <1>10

LEMMA EndLineDoneCount ==
  ASSUME IInv, SearchInv, TreeInv, OutputInv, CountInv, PrintsToTheEnd, EndLine
  PROVE  IsFiniteSet(Done') /\ Cardinality(Done') = SelectedSoFar' /\ Done' \subseteq TakenLines
<1>1. /\ FileOpen /\ FileOpen' /\ UNCHANGED <<files, opt, file>> /\ line_no \in Nat /\ line_no >= 1 /\ line_no <= Len(Lines)
      /\ LastDone = line_no - 1 /\ LastDone' = line_no
  BY EndLineDone DEF OutputInv
<1>2. total' = total /\ c' = (IF selected THEN c + 1 ELSE c) /\ c \in Nat /\ total \in Nat
  BY EndLineCounts DEF EndLine, IInv, Types, TypeOK
<1>3. SelectedSoFar' = IF selected THEN SelectedSoFar + 1 ELSE SelectedSoFar
  BY <1>1, <1>2 DEF SelectedSoFar
<1>4. selected <=> Taken(This)
  BY SelectedIsHit
<1>5. ~ Spent
  <2>1. pc # "grep_close"
    BY DEF EndLine
  <2>2. opt.mflag => mcount > 0
    BY <1>1, <2>1 DEF IInv, LimitInv
  <2> QED
    BY <2>2 DEF Spent
<1>6. IsFiniteSet(Done) /\ Cardinality(Done) = SelectedSoFar /\ SelectedSoFar \in Nat
  BY <1>1, <1>2, <1>5 DEF CountInv, SelectedSoFar
<1>7. TakenLines' = TakenLines
  BY <1>1, CountingKept
<1>8. \A h \in TakenLines : h = <<h[1], h[2]>> /\ h[1] \in Nat /\ h[2] \in Nat /\ Taken(files[h[1]].lines[h[2]])
  BY HitPlaces DEF IInv
<1>9. file \in Nat /\ file \in DOMAIN files
  BY <1>1 DEF IInv, PlaceInv, Types, TypeOK
<1>10. Done' = {h \in TakenLines : h[1] < file \/ (h[1] = file /\ h[2] <= line_no)}
  BY <1>1, <1>7 DEF Done
<1>11. Done = {h \in TakenLines : h[1] < file \/ (h[1] = file /\ h[2] <= line_no - 1)}
  BY <1>1 DEF Done
<1> DEFINE e == <<file, line_no>>
<1>12. \A h \in TakenLines : h[1] = file /\ h[2] = line_no => h = e /\ Taken(This)
  BY <1>8 DEF This, Lines, Current
<1>13. CASE selected
  <2>1. file \in Searched
    BY <1>1, <1>9 DEF TreeInv, Nottext, Current, PrintsToTheEnd
  <2>2. line_no \in DOMAIN Lines
    BY <1>1, <1>9, FileTypes DEF IInv
  <2>3. e \in TakenLines /\ e[1] = file /\ e[2] = line_no
    BY <1>4, <1>13, <2>1, <2>2, HitHere DEF IInv, This, Lines, Current
  <2> HIDE DEF e
  <2>4. \A h \in TakenLines : (h[1] < file \/ (h[1] = file /\ h[2] <= line_no))
                          <=> (h[1] < file \/ (h[1] = file /\ h[2] <= line_no - 1)) \/ h = e
    BY <1>1, <1>8, <1>9, <1>12, <2>3
  <2>5. Done' = Done \cup {e}
    BY <1>10, <1>11, <2>3, <2>4
  <2>6. e \notin Done
    BY <1>1, <1>9, <1>11, <2>3
  <2>7. IsFiniteSet(Done \cup {e}) /\ Cardinality(Done \cup {e}) = Cardinality(Done) + 1
    BY <1>6, <2>6, FS_AddElement
  <2> QED
    BY <1>3, <1>6, <1>10, <1>13, <2>5, <2>7
<1>14. CASE ~ selected
  <2>1. \A h \in TakenLines : ~ (h[1] = file /\ h[2] = line_no)
    BY <1>4, <1>12, <1>14
  <2>2. \A h \in TakenLines : (h[1] < file \/ (h[1] = file /\ h[2] <= line_no))
                          <=> (h[1] < file \/ (h[1] = file /\ h[2] <= line_no - 1))
    BY <1>1, <1>8, <1>9, <2>1
  <2>3. Done' = Done
    BY <1>10, <1>11, <2>2
  <2> QED
    BY <1>3, <1>6, <1>10, <1>14, <2>3
<1> QED
  BY <1>13, <1>14

LEMMA EndLineCount ==
  ASSUME IInv, IInv', SearchInv, TreeInv, OutputInv, ShapeInv, CountInv, PrintsToTheEnd,
         SelectLine \/ TrailingLine \/ OtherLine
  PROVE  CountInv'
<1>1. EndLine
  BY DEF SelectLine, TrailingLine, OtherLine
<1>2. UNCHANGED <<files, opt>> /\ FileOpen'
  BY <1>1, EndLineCounts
<1>3. TakenLines' = TakenLines
  BY <1>2, CountingKept
<1>4. IsFiniteSet(Shown') /\ Cardinality(Shown') = SelectedSoFar'
  BY EndLineShown
<1>5. IsFiniteSet(Done') /\ Cardinality(Done') = SelectedSoFar' /\ Done' \subseteq TakenLines
  BY <1>1, EndLineDoneCount
<1>6. ASSUME Spent' PROVE SelectedSoFar' = opt.max
  <2>1. opt.mflag /\ mcount' = 0
    BY <1>2, <1>6 DEF Spent
  <2>2. SelectedSoFar' + mcount' = opt.max
    BY <1>2, <2>1 DEF IInv, LimitInv
  <2>3. SelectedSoFar' \in Nat
    BY <1>5, FS_CardinalityType
  <2>4. PICK n \in Nat : n = SelectedSoFar'
    BY <2>3
  <2>5. n + 0 = opt.max
    BY <2>1, <2>2, <2>4, Zenon
  <2>6. n = opt.max
    BY <2>4, <2>5
  <2> QED
    BY <2>4, <2>6
<1>7. pc' = "grep_close" => Spent'
  <2>1. pc' = "grep_close" => LimitReached /\ mcount' = StillAllowed
    BY <1>1 DEF EndLine
  <2>2. mcount' \in Nat
    BY <1>1, EndLineCounts
  <2> QED
    BY <1>2, <2>1, <2>2 DEF LimitReached, Spent
<1>8. pc' # "exited"
  BY <1>2 DEF FileOpen
<1>9. Spent' => \E D \in SUBSET TakenLines' : IsFiniteSet(D) /\ Cardinality(D) = opt'.max
  BY <1>2, <1>3, <1>5, <1>6
<1> QED
  BY <1>4, <1>5, <1>7, <1>8, <1>9 DEF CountInv

LEMMA CountInvKept ==
  /\ Init => CountInv
  /\ IInv /\ IInv' /\ SearchInv /\ TreeInv /\ OutputInv /\ ShapeInv /\ CountInv /\ [Next]_vars => CountInv'
<1>1. ASSUME Init PROVE CountInv
  <2>1. IInv
    BY <1>1, InitIInv
  <2>2. ~ FileOpen /\ file = 1 /\ total = 0 /\ mcount = opt.max /\ output = <<>> /\ pc = "procfile"
    BY <1>1 DEF Init, FileOpen
  <2>3. Shown = {} /\ SelectedSoFar = 0
    BY <2>2 DEF Shown, SelectedSoFar
  <2>4. Done = {}
    <3>1. ASSUME NEW h \in Done PROVE FALSE
      <4>1. h \in TakenLines /\ h[1] < 1
        BY <2>2 DEF Done
      <4>2. h[1] \in DOMAIN files /\ DOMAIN files = 1 .. Len(files)
        BY <2>1, <4>1, HitPlaces DEF IInv, Types
      <4> QED
        BY <4>1, <4>2
    <3> QED
      BY <3>1
  <2>5. IsFiniteSet({}) /\ Cardinality({}) = 0
    BY FS_EmptySet
  <2>6. Spent => opt.max = 0
    BY <2>2 DEF Spent
  <2>7. {} \in SUBSET TakenLines
    OBVIOUS
  <2> QED
    BY <2>2, <2>3, <2>4, <2>5, <2>6, <2>7 DEF CountInv
<1> SUFFICES ASSUME IInv, IInv', SearchInv, TreeInv, OutputInv, ShapeInv, CountInv, [Next]_vars, PrintsToTheEnd'
             PROVE  CountInv'
  BY <1>1 DEF CountInv
<1>2. PrintsToTheEnd
  BY ArgsKept, CountingKept
<1>3. CASE UNCHANGED vars \/ OneIsEnough \/ EndOfFile \/ ReadLine \/ NotFound \/ NotWhole \/ Match
  BY <1>2, <1>3, QuietCount
<1>4. CASE Directory \/ PassOver \/ Unreadable \/ SkipBinary \/ Close \/ EmptyFileMatches \/ SearchFails \/ Exit
  BY <1>2, <1>4, LeavingCount
<1>5. CASE Open
  BY <1>2, <1>5, OpenCount
<1>6. CASE BinaryMatches
  <2>1. EndLine /\ Nottext
    BY <1>6 DEF BinaryMatches, OnlyCounts
  <2>2. file \in DOMAIN files
    BY <2>1, EndLineCounts DEF IInv, PlaceInv
  <2> QED
    BY <1>2, <2>1, <2>2 DEF PrintsToTheEnd, Nottext, Current
<1>7. CASE SelectLine \/ TrailingLine \/ OtherLine
  BY <1>2, <1>7, EndLineCount
<1> QED
  BY <1>3, <1>4, <1>5, <1>6, <1>7 DEF Next

LInv == IInv /\ Given /\ SearchInv /\ TreeInv /\ OutputInv /\ ShapeInv /\ CountInv

LEMMA CountInvariance == Spec => []LInv
<1>1. Init => LInv
  BY InitIInv, GivenKept, SearchInvKept, TreeInvKept, OutputInvKept, ShapeInvKept, CountInvKept DEF LInv
<1>2. LInv /\ [Next]_vars => LInv'
  BY NextIInv, GivenKept, SearchInvKept, TreeInvKept, OutputInvKept, ShapeInvKept, CountInvKept DEF LInv
<1> QED
  BY <1>1, <1>2, PTL DEF Spec

(* At the end the lines printed as selected are all that match, or as many as  *)
(* -m allows, and no file that would still have one is left out: where the    *)
(* code selects what the manual says, no search fails, and the one limit that *)
(* it has for all files is that of each.                                   *)
THEOREM LimitIsExact == Spec => []LimitExact
<1>1. LInv => LimitExact
  <2> SUFFICES ASSUME LInv, pc = "exited", AsDocumented, PrintsToTheEnd
               PROVE  Cardinality(Shown) =
                        IF opt.mflag /\ opt.max < Cardinality(TakenLines) THEN opt.max ELSE Cardinality(TakenLines)
    BY DocumentedHits DEF LimitExact
  <2>1. /\ Types /\ opt.max \in Nat /\ mcount \in Nat /\ file \in Nat
        /\ Cardinality(Shown) = SelectedSoFar /\ file > Len(files) /\ SelectedSoFar \in Nat
    BY OptionTypes DEF LInv, IInv, CountInv, Types, TypeOK, SelectedSoFar
  <2>2. IsFiniteSet(TakenLines) /\ Cardinality(TakenLines) \in Nat
    BY <2>1, HitsFinite, FS_CardinalityType
  <2>3. opt.mflag => SelectedSoFar + mcount = opt.max
    BY DEF LInv, CountInv
  <2>4. CASE Spent
    <3>1. PICK D \in SUBSET TakenLines : IsFiniteSet(D) /\ Cardinality(D) = opt.max
      BY <2>4 DEF LInv, CountInv
    <3>2. opt.max <= Cardinality(TakenLines)
      BY <2>2, <3>1, FS_Subset
    <3>3. opt.mflag /\ SelectedSoFar = opt.max
      BY <2>1, <2>3, <2>4 DEF Spent
    <3> QED
      BY <2>1, <2>2, <3>2, <3>3
  <2>5. CASE ~ Spent
    <3>1. Cardinality(Done) = SelectedSoFar
      BY <2>5 DEF LInv, CountInv
    <3>2. \A h \in TakenLines : h[1] < file
      <4>1. SUFFICES ASSUME NEW h \in TakenLines PROVE h[1] < file
        OBVIOUS
      <4>2. h[1] \in Nat /\ h[1] <= Len(files) /\ Len(files) \in Nat
        BY <2>1, HitPlaces DEF Types
      <4> QED
        BY <2>1, <4>2
    <3>3. Done = TakenLines
      BY <3>2 DEF Done
    <3>4. opt.mflag => ~ (opt.max < Cardinality(TakenLines))
      BY <2>1, <2>2, <2>3, <3>1, <3>3
    <3> QED
      BY <2>1, <3>1, <3>3, <3>4
  <2> QED
    BY <2>4, <2>5
<1> QED
  BY <1>1, CountInvariance, PTL
-----------------------------------------------------------------------------
(* What main knows so far: nothing was selected if nothing was to be.        *)
NothingAllowed == opt.mflag /\ opt.max = 0
NoneTaken(n) == \A k \in DOMAIN files[n].lines : ~ Taken(files[n].lines[k])
ReadInv ==
  /\ FileOpen /\ c = 0 => \A k \in 1 .. LastDone : ~ Taken(Lines[k])
  /\ pc = "grep_close" => Spent \/ line_no = Len(Lines) \/ c > 0
  /\ SelectedSoFar > 0 => TakenLines # {}
  /\ total = 0 /\ ~ NothingAllowed => \A n \in Searched : n < file => NoneTaken(n)

(* While a limit is not spent before anything was selected. *)
LEMMA NotSpentYet ==
  ASSUME IInv, pc # "exited", SelectedSoFar = 0, ~ NothingAllowed
  PROVE  ~ Spent
<1>1. opt.mflag => SelectedSoFar + mcount = opt.max /\ mcount \in Nat /\ opt.max \in Nat
  BY OptionTypes DEF IInv, LimitInv, Types, TypeOK
<1>2. opt.mflag => mcount # 0
  BY <1>1 DEF NothingAllowed
<1> QED
  BY <1>2 DEF Spent

LEMMA NoneTakenKept ==
  ASSUME files' = files, opt' = opt
  PROVE  \A n : NoneTaken(n)' <=> NoneTaken(n)
BY DEF NoneTaken, Taken, SkipsFurther

(* What was selected in a file is added to the total when it is left. *)
LEMMA LeavingTotals ==
  ASSUME IInv, Directory \/ PassOver \/ Unreadable \/ SkipBinary \/ Close
  PROVE  /\ total' = SelectedSoFar /\ SelectedSoFar' = SelectedSoFar /\ mcount' = mcount
         /\ ~ FileOpen' /\ pc' = "procfile" /\ pc # "exited" /\ line_no' = line_no
         /\ FileOpen => file' = file + 1
<1>1. total \in Nat /\ c \in Nat /\ line_no \in Nat
  BY DEF IInv, Types, TypeOK
<1>2. ~ FileOpen' /\ mcount' = mcount /\ pc' = "procfile" /\ pc # "exited" /\ line_no' = line_no
  BY DEF Directory, PassOver, Unreadable, SkipBinary, Close, NextFile, MoreLines, FileOpen
<1>3. CASE Directory \/ PassOver \/ Unreadable
  BY <1>1, <1>2, <1>3 DEF Directory, PassOver, Unreadable, NextFile, SelectedSoFar, FileOpen, limits
<1>4. CASE SkipBinary
  <2>1. FileOpen /\ total' = total /\ file' = file + 1
    BY <1>4 DEF SkipBinary, MoreLines, FileOpen, limits
  <2>2. c = 0
    BY <1>1, <1>4, <2>1 DEF SkipBinary, IInv, PlaceInv
  <2> QED
    BY <1>1, <1>2, <2>1, <2>2 DEF SelectedSoFar
<1>5. CASE Close
  BY <1>2, <1>5 DEF Close, FileOpen, SelectedSoFar
<1> QED
  BY <1>2, <1>3, <1>4, <1>5

(* The end of a line. *)
LEMMA EndLineReads ==
  ASSUME IInv, Given, SearchInv, TreeInv, ReadInv, EndLine
  PROVE  ReadInv'
<1>1. /\ FileOpen /\ InLine /\ FileOpen' /\ ~ InLine'
      /\ UNCHANGED <<files, opt, total, status, file_err, file, line_no, st, m, selected>>
  BY EndLineCounts
<1>2. /\ file \in DOMAIN files /\ line_no \in Nat /\ line_no >= 1 /\ line_no <= Len(Lines) /\ c \in Nat /\ total \in Nat
      /\ Lines \in Seq(Content) /\ mcount \in Nat
  BY <1>1, FileTypes DEF IInv, PlaceInv, Types, TypeOK
<1>3. selected <=> Taken(Lines[line_no])
  BY SelectedIsHit DEF This
<1>4. c' = (IF selected THEN c + 1 ELSE c) /\ mcount' = StillAllowed
  BY DEF EndLine
<1>5. LastDone = line_no - 1 /\ LastDone' = line_no
  BY <1>1 DEF LastDone
<1>6. (FileOpen /\ c = 0 => \A k \in 1 .. LastDone : ~ Taken(Lines[k]))'
  <2>1. SUFFICES ASSUME c' = 0, NEW k \in 1 .. line_no PROVE ~ Taken(Lines[k])
    <3>1. \A k : Taken(Lines[k])' <=> Taken(Lines[k])
      BY <1>1, TakenKept
    <3> QED
      BY <1>5, <3>1
  <2>2. ~ selected /\ c = 0
    BY <1>2, <1>4, <2>1
  <2>3. \A j \in 1 .. line_no - 1 : ~ Taken(Lines[j])
    BY <1>1, <1>5, <2>2 DEF ReadInv
  <2>4. k = line_no \/ k \in 1 .. line_no - 1
    BY <1>2
  <2> QED
    BY <1>3, <2>2, <2>3, <2>4
<1>7. (pc = "grep_close" => Spent \/ line_no = Len(Lines) \/ c > 0)'
  <2>1. SUFFICES ASSUME pc' = "grep_close" PROVE Spent'
    OBVIOUS
  <2>2. opt.mflag /\ StillAllowed <= 0
    BY <2>1 DEF EndLine, LimitReached
  <2>3. mcount' \in Nat
    BY EndLineCounts
  <2> QED
    BY <1>1, <1>4, <2>2, <2>3 DEF Spent
<1>8. (SelectedSoFar > 0 => TakenLines # {})'
  <2>1. CASE selected
    <3>1. file \in Searched
      BY <1>1, <1>2 DEF TreeInv, IInv, PlaceInv
    <3>2. <<file, line_no>> \in TakenLines
      <4>1. line_no \in {j \in DOMAIN files[file].lines : Taken(files[file].lines[j])}
        BY <1>2, <1>3, <2>1 DEF Lines, Current
      <4> QED
        BY <3>1, <4>1 DEF TakenLines
    <3> QED
      BY <1>1, <3>2, GoalsKept
  <2>2. CASE ~ selected
    <3>1. SelectedSoFar' = SelectedSoFar
      BY <1>1, <1>4, <2>2 DEF SelectedSoFar
    <3>2. TakenLines' = TakenLines
      BY <1>1, GoalsKept
    <3> QED
      BY <3>1, <3>2 DEF ReadInv
  <2> QED
    BY <2>1, <2>2
<1>9. (total = 0 /\ ~ NothingAllowed => \A n \in Searched : n < file => NoneTaken(n))'
  <2>1. Searched' = Searched /\ (NothingAllowed' <=> NothingAllowed)
    BY <1>1, GoalsKept DEF NothingAllowed
  <2>2. \A n : NoneTaken(n)' <=> NoneTaken(n)
    BY <1>1, NoneTakenKept
  <2> QED
    BY <1>1, <2>1, <2>2 DEF ReadInv
<1> QED
  BY <1>6, <1>7, <1>8, <1>9 DEF ReadInv

(* The steps from one file to the next. *)
LEMMA NextFileReads ==
  ASSUME IInv, Given, TreeInv, ReadInv, files' = files, opt' = opt,
         Directory \/ PassOver \/ Unreadable \/ SkipBinary \/ Close
  PROVE  ReadInv'
<1>1. ~ FileOpen' /\ pc' # "grep_close"
  BY DEF Directory, PassOver, Unreadable, SkipBinary, Close, NextFile, FileOpen
<1>2. Searched' = Searched /\ TakenLines' = TakenLines /\ (NothingAllowed' <=> NothingAllowed)
  BY GoalsKept DEF NothingAllowed
<1>3. total' = SelectedSoFar /\ SelectedSoFar' = SelectedSoFar /\ pc # "exited"
  BY LeavingTotals
<1>4. (total = 0 /\ ~ NothingAllowed => \A n \in Searched : n < file => NoneTaken(n))'
  <2>1. SUFFICES ASSUME total' = 0, ~ NothingAllowed, NEW n \in Searched, n < file'
                 PROVE  NoneTaken(n)
    BY <1>2, NoneTakenKept
  <2>2. SelectedSoFar = 0 /\ ~ Spent
    BY <1>3, <2>1, NotSpentYet
  <2>3. total = 0 /\ (FileOpen => c = 0)
    BY <2>2 DEF SelectedSoFar, IInv, Types, TypeOK
  <2>4. /\ file \in Nat /\ n \in DOMAIN files /\ n \in Nat
    BY DEF IInv, Types, TypeOK, Searched
  <2>5. CASE n < file
    BY <2>1, <2>3, <2>5 DEF ReadInv
  <2>6. CASE n >= file /\ Close
    <3>1. n = file
      BY <2>1, <2>4, <2>6 DEF Close
    <3>2. FileOpen /\ line_no = Len(Lines) /\ LastDone = line_no
      BY <2>2, <2>3, <2>6 DEF Close, FileOpen, ReadInv, LastDone, InLine
    <3>3. \A k \in 1 .. Len(Lines) : ~ Taken(Lines[k])
      BY <2>3, <3>2 DEF ReadInv
    <3>4. DOMAIN Lines = 1 .. Len(Lines)
      BY <2>4, <3>1, FileTypes DEF IInv
    <3> QED
      BY <3>1, <3>3, <3>4 DEF NoneTaken, Lines, Current
  <2>7. CASE n >= file /\ ~ Close
    BY <2>1, <2>2, <2>4, <2>7, PassedOver
  <2> QED
    BY <2>4, <2>5, <2>6, <2>7
<1>5. (SelectedSoFar > 0 => TakenLines # {})'
  BY <1>2, <1>3 DEF ReadInv
<1> QED
  BY <1>1, <1>4, <1>5 DEF ReadInv

(* The other steps, which change nothing that was counted. *)
LEMMA OtherReads ==
  ASSUME IInv, Given, TreeInv, ReadInv, files' = files, opt' = opt,
         UNCHANGED <<file, total, mcount>>,
         \/ UNCHANGED vars \/ Open \/ OneIsEnough \/ EmptyFileMatches \/ EndOfFile \/ ReadLine
         \/ SearchFails \/ NotFound \/ NotWhole \/ Match \/ Exit
  PROVE  ReadInv'
<1>1. Searched' = Searched /\ TakenLines' = TakenLines /\ (NothingAllowed' <=> NothingAllowed) /\ (Spent' <=> Spent)
  BY GoalsKept DEF NothingAllowed, Spent
<1>2. Lines' = Lines /\ \A k : Taken(Lines[k])' <=> Taken(Lines[k])
  BY TakenKept
<1>3. (total = 0 /\ ~ NothingAllowed => \A n \in Searched : n < file => NoneTaken(n))'
  <2>1. \A n : NoneTaken(n)' <=> NoneTaken(n)
    BY NoneTakenKept
  <2> QED
    BY <1>1, <2>1 DEF ReadInv
<1>4. line_no \in Nat /\ c \in Nat /\ total \in Nat
  BY DEF IInv, Types, TypeOK
<1>5. CASE Open
  <2>1. FileOpen' /\ ~ InLine' /\ ~ FileOpen /\ c' = 0 /\ line_no' = 0 /\ pc' = "fgetln"
    BY <1>5 DEF Open, NextFile, FileOpen, InLine
  <2>2. LastDone' = 0 /\ SelectedSoFar' = SelectedSoFar
    BY <1>4, <2>1 DEF LastDone, SelectedSoFar
  <2> QED
    BY <1>1, <1>3, <2>1, <2>2 DEF ReadInv
<1>6. CASE EmptyFileMatches \/ SearchFails \/ Exit
  <2>1. ~ FileOpen' /\ pc' = "exited"
    BY <1>6 DEF EmptyFileMatches, SearchFails, Exit, FileOpen
  <2>2. SelectedSoFar' > 0 => SelectedSoFar > 0
    BY <1>4, <2>1 DEF SelectedSoFar
  <2> QED
    BY <1>1, <1>3, <2>1, <2>2 DEF ReadInv
<1>7. CASE UNCHANGED vars \/ OneIsEnough \/ EndOfFile \/ ReadLine \/ NotFound \/ NotWhole \/ Match
  <2>1. (FileOpen' <=> FileOpen) /\ c' = c
    BY <1>7 DEF vars, OneIsEnough, EndOfFile, ReadLine, NotFound, NotWhole, Match, MoreLines, Searching, FileOpen
  <2>2. LastDone' = LastDone
    <3>1. CASE ReadLine
      BY <1>4, <3>1 DEF ReadLine, MoreLines, LastDone, InLine
    <3>2. CASE ~ ReadLine
      BY <1>7, <3>2 DEF vars, OneIsEnough, EndOfFile, NotFound, NotWhole, Match, MoreLines, Searching, LastDone, InLine
    <3> QED
      BY <3>1, <3>2
  <2>3. pc' = "grep_close" => (Spent \/ line_no = Len(Lines) \/ c > 0)'
    BY <1>1, <1>2, <1>7 DEF vars, OneIsEnough, EndOfFile, ReadLine, NotFound, NotWhole, Match, ReadInv, Searching
  <2>4. SelectedSoFar' = SelectedSoFar
    BY <2>1 DEF SelectedSoFar
  <2> QED
    BY <1>1, <1>2, <1>3, <2>1, <2>2, <2>3, <2>4 DEF ReadInv
<1> QED
  BY <1>5, <1>6, <1>7

LEMMA ReadInvKept ==
  /\ Init => ReadInv
  /\ IInv /\ Given /\ SearchInv /\ TreeInv /\ ReadInv /\ [Next]_vars => ReadInv'
<1>1. Init => ReadInv
  <2>1. ASSUME Init PROVE ~ FileOpen /\ ~ (SelectedSoFar > 0) /\ file = 1 /\ pc # "grep_close"
    BY <2>1 DEF Init, FileOpen, SelectedSoFar
  <2>2. ASSUME Init, NEW n \in Searched PROVE ~ (n < file)
    BY <2>1, <2>2, InitIInv DEF Searched, IInv, Types
  <2> QED
    BY <2>1, <2>2 DEF ReadInv
<1> SUFFICES ASSUME IInv, Given, SearchInv, TreeInv, ReadInv, [Next]_vars PROVE ReadInv'
  BY <1>1
<1>2. files' = files /\ opt' = opt
  BY ArgsKept
<1>3. CASE UNCHANGED vars
  BY <1>2, <1>3, OtherReads DEF vars, limits
<1>4. CASE \/ Open \/ OneIsEnough \/ EmptyFileMatches \/ EndOfFile \/ ReadLine \/ SearchFails \/ NotFound \/ NotWhole
           \/ Match \/ Exit
  <2>1. UNCHANGED <<file, total, mcount>>
    BY <1>4 DEF Open, OneIsEnough, EmptyFileMatches, EndOfFile, ReadLine, SearchFails, NotFound, NotWhole, Match, Exit,
       limits
  <2> QED
    BY <1>2, <1>4, <2>1, OtherReads
<1>5. CASE Directory \/ PassOver \/ Unreadable \/ SkipBinary \/ Close
  BY <1>2, <1>5, NextFileReads
<1>6. CASE EndLine
  BY <1>6, EndLineReads
<1> QED
  BY <1>3, <1>4, <1>5, <1>6 DEF Next, BinaryMatches, SelectLine, TrailingLine, OtherLine

(* That the limit is spent before a file means that so many lines before it    *)
(* were selected; this is how far selection has got.                        *)
SoMany(T, n) == \E D \in SUBSET T : IsFiniteSet(D) /\ Cardinality(D) = n
TakenInv == pc # "exited" => SoMany(Done, SelectedSoFar)

LEMMA MoreAreSoMany ==
  ASSUME NEW S, NEW T, S \subseteq T, NEW n, SoMany(S, n)
  PROVE  SoMany(T, n)
BY DEF SoMany

LEMMA EndLineTaken ==
  ASSUME IInv, SearchInv, TreeInv, OutputInv, TakenInv, EndLine
  PROVE  TakenInv'
<1>1. /\ FileOpen /\ FileOpen' /\ UNCHANGED <<files, opt, file>> /\ line_no \in Nat /\ line_no >= 1 /\ line_no <= Len(Lines)
      /\ LastDone = line_no - 1 /\ LastDone' = line_no /\ file \in Nat /\ file \in DOMAIN files
  BY EndLineDone DEF OutputInv, IInv, PlaceInv
<1>2. total' = total /\ c' = (IF selected THEN c + 1 ELSE c) /\ c \in Nat /\ total \in Nat /\ pc # "exited"
  BY EndLineCounts DEF EndLine, IInv, Types, TypeOK
<1>3. SelectedSoFar' = (IF selected THEN SelectedSoFar + 1 ELSE SelectedSoFar) /\ SelectedSoFar \in Nat
  BY <1>1, <1>2 DEF SelectedSoFar
<1>4. TakenLines' = TakenLines
  BY <1>1, GoalsKept
<1>5. \A h \in TakenLines : h[1] \in Nat /\ h[2] \in Nat
  BY HitPlaces DEF IInv
<1>6. Done' = {h \in TakenLines : h[1] < file \/ (h[1] = file /\ h[2] <= line_no)}
  BY <1>1, <1>4 DEF Done
<1>7. Done = {h \in TakenLines : h[1] < file \/ (h[1] = file /\ h[2] <= line_no - 1)}
  BY <1>1 DEF Done
<1>8. Done \subseteq Done'
  BY <1>1, <1>5, <1>6, <1>7
<1>9. PICK D \in SUBSET Done : IsFiniteSet(D) /\ Cardinality(D) = SelectedSoFar
  BY <1>2 DEF TakenInv, SoMany
<1>10. CASE selected
  <2> DEFINE e == <<file, line_no>>
  <2>1. file \in Searched
    BY <1>1 DEF TreeInv, IInv, PlaceInv
  <2>2. line_no \in DOMAIN Lines
    BY <1>1, FileTypes DEF IInv
  <2>3. Taken(This)
    BY <1>10, SelectedIsHit
  <2>4. e \in TakenLines /\ e[1] = file /\ e[2] = line_no
    BY <2>1, <2>2, <2>3, HitHere DEF IInv, This, Lines, Current
  <2> HIDE DEF e
  <2>5. e \in Done' /\ e \notin Done
    BY <1>1, <1>6, <1>7, <2>4
  <2>6. e \notin D
    BY <1>9, <2>5
  <2>7. IsFiniteSet(D \cup {e}) /\ Cardinality(D \cup {e}) = Cardinality(D) + 1
    BY <1>9, <2>6, FS_AddElement
  <2>8. D \cup {e} \in SUBSET Done'
    BY <1>8, <1>9, <2>5
  <2>9. Cardinality(D \cup {e}) = SelectedSoFar'
    BY <1>3, <1>9, <1>10, <2>7
  <2> QED
    BY <2>7, <2>8, <2>9 DEF TakenInv, SoMany
<1>11. CASE ~ selected
  BY <1>3, <1>8, <1>9, <1>11 DEF TakenInv, SoMany
<1> QED
  BY <1>10, <1>11

LEMMA TakenInvKept ==
  /\ Init => TakenInv
  /\ IInv /\ SearchInv /\ TreeInv /\ OutputInv /\ TakenInv /\ [Next]_vars => TakenInv'
<1>1. Init => TakenInv
  <2>1. SUFFICES ASSUME Init PROVE SelectedSoFar = 0
    BY FS_EmptySet DEF TakenInv, SoMany
  <2> QED
    BY <2>1 DEF Init, SelectedSoFar, FileOpen
<1> SUFFICES ASSUME IInv, SearchInv, TreeInv, OutputInv, TakenInv, [Next]_vars, pc' # "exited" PROVE TakenInv'
  BY <1>1 DEF TakenInv
<1>2. files' = files /\ opt' = opt /\ TakenLines' = TakenLines
  BY ArgsKept, GoalsKept
<1>3. file \in Nat /\ c \in Nat /\ total \in Nat /\ Len(files) \in Nat
  BY DEF IInv, Types, TypeOK
<1>4. \A h \in TakenLines : h[1] \in Nat /\ h[2] \in Nat
  BY HitPlaces DEF IInv
<1>5. ASSUME pc # "exited", Done \subseteq Done', SelectedSoFar' = SelectedSoFar PROVE TakenInv'
  BY <1>5 DEF TakenInv, SoMany
<1>6. CASE UNCHANGED vars \/ OneIsEnough \/ EndOfFile \/ ReadLine \/ NotFound \/ NotWhole \/ Match
  <2>1. UNCHANGED <<file, c, total>> /\ (FileOpen' <=> FileOpen) /\ LastDone' = LastDone
    BY <1>6, QuietSteps
  <2>2. Done' = Done
    BY <1>2, <2>1 DEF Done
  <2>3. SelectedSoFar' = SelectedSoFar
    BY <2>1 DEF SelectedSoFar
  <2>4. pc # "exited"
    BY <1>6, GoesOn DEF vars, Next
  <2> QED
    BY <1>5, <2>2, <2>3, <2>4
<1>7. CASE Directory \/ PassOver \/ Unreadable \/ SkipBinary \/ Close
  <2>1. SelectedSoFar' = SelectedSoFar /\ pc # "exited" /\ (FileOpen => file' = file + 1)
    BY <1>7, LeavingTotals
  <2>2. file' \in Nat /\ file' >= file
    BY <1>7, LeavingPrints DEF OutputInv
  <2>3. \A h \in Done : h[1] < file'
    BY <1>3, <1>4, <2>1, <2>2 DEF Done
  <2>4. Done \subseteq Done'
    BY <1>2, <2>3 DEF Done
  <2> QED
    BY <1>5, <2>1, <2>4
<1>8. CASE Open
  <2>1. ~ FileOpen /\ FileOpen' /\ c' = 0 /\ total' = total /\ file' = file /\ pc # "exited"
    BY <1>8 DEF Open, NextFile, FileOpen, limits
  <2>2. Done \subseteq Done'
    BY <1>2, <2>1 DEF Done
  <2>3. SelectedSoFar' = SelectedSoFar
    BY <1>3, <2>1 DEF SelectedSoFar
  <2> QED
    BY <1>5, <2>1, <2>2, <2>3
<1>9. CASE EndLine
  BY <1>9, EndLineTaken
<1>10. CASE EmptyFileMatches \/ SearchFails \/ Exit
  BY <1>10 DEF EmptyFileMatches, SearchFails, Exit
<1> QED
  BY <1>6, <1>7, <1>8, <1>9, <1>10 DEF Next, BinaryMatches, SelectLine, TrailingLine, OtherLine

(* file_err tells that what was passed cannot be read, but where the limit was *)
(* spent before it.                                                        *)
SpentBefore(n) == opt.mflag /\ SoMany({h \in TakenLines : h[1] < n}, opt.max)
ErrorInv ==
  /\ file_err => Failing # {}
  /\ ~ file_err => \A n \in Failing : n < file => SpentBefore(n)

LEMMA UnreadableFails ==
  ASSUME IInv, Given, TreeInv, Unreadable
  PROVE  file \in Failing
<1>1. file \in DOMAIN files
  BY DEF Unreadable, NextFile, IInv, Types, TypeOK
<1>2. Wanted(file)
  BY DEF Unreadable, file_matching, Wanted, Current, TreeInv
<1>3. CASE Current.kind = "missing"
  BY <1>1, <1>2, <1>3 DEF Failing, Current
<1>4. CASE Current.kind \in DirKind
  <2>1. ~ opt.stdin
    <3>1. SUFFICES ASSUME opt.stdin PROVE FALSE
      OBVIOUS
    <3>2. Len(files) = 1 /\ files[1].kind \in {"text", "binary", "missing"}
      BY <3>1 DEF Given, Fits
    <3>3. file = 1
      BY <3>2 DEF Unreadable, NextFile, IInv, Types, TypeOK
    <3> QED
      BY <1>4, <3>2, <3>3 DEF Current, DirKind
  <2>2. opt.dirbehave # "RECURSE" /\ opt.dirbehave # "SKIP"
    BY <1>4, <2>1 DEF Unreadable, IsDirectory, Recurses, NotToBeRead
  <2>3. opt.dirbehave = "READ"
    BY <2>2 DEF IInv, Types, Option
  <2> QED
    BY <1>1, <1>2, <1>4, <2>3 DEF Failing, Current
<1> QED
  BY <1>3, <1>4 DEF Unreadable, CannotBeRead

LEMMA UnlistedFails ==
  ASSUME IInv, TreeInv, Directory, CannotBeListed
  PROVE  file \in Failing
<1>1. file \in DOMAIN files
  BY DEF Directory, NextFile, IInv, Types, TypeOK
<1>2. Recurses /\ Current.kind = "locked" /\ dir_matching(Current) /\ Reached(file)
  BY DEF Directory, IsDirectory, CannotBeListed, TreeInv
<1> QED
  BY <1>1, <1>2 DEF Failing, Current

LEMMA SpentIsBefore ==
  ASSUME IInv, TakenInv, PassOver, Spent
  PROVE  SpentBefore(file)
<1>1. pc # "exited" /\ ~ FileOpen /\ opt.mflag /\ mcount = 0
  BY DEF PassOver, NextFile, FileOpen, Spent
<1>2. SelectedSoFar = opt.max
  <2>1. SelectedSoFar + 0 = opt.max
    BY <1>1 DEF IInv, LimitInv
  <2>2. SelectedSoFar \in Nat
    BY <1>1 DEF SelectedSoFar, IInv, Types, TypeOK
  <2> QED
    BY <2>1, <2>2
<1>3. Done = {h \in TakenLines : h[1] < file}
  BY <1>1 DEF Done
<1> QED
  BY <1>1, <1>2, <1>3 DEF TakenInv, SpentBefore

LEMMA ErrorInvKept ==
  /\ Init => ErrorInv
  /\ IInv /\ Given /\ TreeInv /\ TakenInv /\ ErrorInv /\ [Next]_vars => ErrorInv'
<1>1. Init => ErrorInv
  <2>1. ASSUME Init, NEW n \in Failing PROVE ~ (n < file)
    BY <2>1, InitIInv DEF Init, Failing, IInv, Types
  <2> QED
    BY <2>1 DEF Init, ErrorInv
<1> SUFFICES ASSUME IInv, Given, TreeInv, TakenInv, ErrorInv, [Next]_vars PROVE ErrorInv'
  BY <1>1
<1>2. files' = files /\ opt' = opt /\ Failing' = Failing /\ TakenLines' = TakenLines
  BY ArgsKept, GoalsKept
<1>3. \A n : SpentBefore(n)' <=> SpentBefore(n)
  BY <1>2 DEF SpentBefore
<1>4. CASE Unreadable
  BY <1>2, <1>4, UnreadableFails DEF Unreadable, ErrorInv
<1>5. CASE file' = file /\ file_err' = file_err
  BY <1>2, <1>3, <1>5 DEF ErrorInv
<1>6. CASE Directory \/ PassOver \/ SkipBinary \/ Close
  <2>1. file_err' => Failing # {}
    <3>1. CASE Directory
      BY <3>1, UnlistedFails DEF Directory, ErrorInv
    <3>2. CASE PassOver \/ SkipBinary \/ Close
      BY <3>2 DEF PassOver, SkipBinary, Close, limits, ErrorInv
    <3> QED
      BY <1>6, <3>1, <3>2
  <2>2. SUFFICES ASSUME ~ file_err', NEW n \in Failing, n < file' PROVE SpentBefore(n)
    BY <1>2, <1>3, <2>1 DEF ErrorInv
  <2>3. ~ file_err
    BY <1>6, <2>2 DEF Directory, PassOver, SkipBinary, Close, limits
  <2>4. file \in Nat /\ n \in Nat /\ n \in DOMAIN files
    BY DEF Failing, IInv, Types, TypeOK
  <2>5. CASE n < file
    BY <2>3, <2>5 DEF ErrorInv
  <2>6. CASE file <= n /\ Close
    <3>1. file' = file + 1 /\ file \notin Failing
      BY <2>6 DEF Close, FileOpen, TreeInv
    <3> QED
      BY <2>2, <2>4, <2>6, <3>1
  <2>7. CASE file <= n /\ ~ Close
    <3>1. PassOver /\ Spent
      BY <1>6, <2>2, <2>4, <2>7, PassedOver
    <3>2. n = file
      BY <2>2, <2>4, <2>7, <3>1 DEF PassOver
    <3> QED
      BY <3>1, <3>2, SpentIsBefore
  <2> QED
    BY <2>4, <2>5, <2>6, <2>7
<1>7. CASE UNCHANGED vars
  BY <1>5, <1>7 DEF vars, limits
<1>8. CASE EndLine
  BY <1>5, <1>8 DEF EndLine, limits
<1>9. CASE \/ Open \/ OneIsEnough \/ EmptyFileMatches \/ EndOfFile \/ ReadLine \/ SearchFails \/ NotFound \/ NotWhole
           \/ Match \/ Exit
  BY <1>5, <1>9 DEF Open, OneIsEnough, EmptyFileMatches, EndOfFile, ReadLine, SearchFails, NotFound, NotWhole, Match,
     Exit, limits
<1> QED
  BY <1>4, <1>6, <1>7, <1>8, <1>9 DEF Next, BinaryMatches, SelectLine, TrailingLine, OtherLine

(* No search that fails was left behind, unless a file is left early. *)
NoneFails(n) == \A k \in DOMAIN files[n].lines : ~ files[n].lines[k].err
LeavesEarly == opt.mflag \/ opt.mode \in {"lflag", "qflag"}
FailureInv == ~ LeavesEarly =>
  /\ pc = "grep_close" => line_no = Len(Lines)
  /\ FileOpen => \A k \in 1 .. LastDone : ~ Lines[k].err
  /\ \A n \in Searched : n < file => NoneFails(n)

LEMMA FailureInvKept ==
  /\ Init => FailureInv
  /\ IInv /\ SearchInv /\ TreeInv /\ OutputInv /\ FailureInv /\ [Next]_vars => FailureInv'
<1>1. Init => FailureInv
  <2>1. ASSUME Init PROVE ~ FileOpen /\ file = 1 /\ pc # "grep_close"
    BY <2>1 DEF Init, FileOpen
  <2>2. ASSUME Init, NEW n \in Searched PROVE ~ (n < file)
    BY <2>1, <2>2, InitIInv DEF Searched, IInv, Types
  <2> QED
    BY <2>1, <2>2 DEF FailureInv
<1> SUFFICES ASSUME IInv, SearchInv, TreeInv, OutputInv, FailureInv, [Next]_vars, ~ LeavesEarly' PROVE FailureInv'
  BY <1>1 DEF FailureInv
<1>2. files' = files /\ opt' = opt /\ Searched' = Searched
  BY ArgsKept, GoalsKept
<1>3. ~ LeavesEarly /\ \A n : NoneFails(n)' <=> NoneFails(n)
  BY <1>2 DEF LeavesEarly, NoneFails
<1>4. file \in Nat /\ line_no \in Nat
  BY DEF IInv, Types, TypeOK
<1>5. CASE UNCHANGED vars \/ OneIsEnough \/ EndOfFile \/ ReadLine \/ NotFound \/ NotWhole \/ Match
  <2>1. file' = file /\ (FileOpen' <=> FileOpen) /\ LastDone' = LastDone
    BY <1>5, QuietSteps
  <2>2. Lines' = Lines
    BY <1>2, <2>1 DEF Lines, Current
  <2>3. pc' = "grep_close" => line_no' = Len(Lines)
    BY <1>3, <1>5 DEF vars, OneIsEnough, EndOfFile, ReadLine, NotFound, NotWhole, Match, Searching, FailureInv, LeavesEarly
  <2> QED
    BY <1>2, <1>3, <2>1, <2>2, <2>3 DEF FailureInv
<1>6. CASE Directory \/ PassOver \/ Unreadable \/ SkipBinary \/ Close
  <2>1. ~ FileOpen' /\ pc' = "procfile"
    BY <1>6, LeavingTotals
  <2>2. SUFFICES ASSUME NEW n \in Searched, n < file' PROVE NoneFails(n)
    BY <1>2, <1>3, <2>1 DEF FailureInv
  <2>3. n \in DOMAIN files /\ n \in Nat
    BY DEF Searched, IInv, Types
  <2>4. CASE n < file
    BY <1>3, <2>4 DEF FailureInv
  <2>5. CASE file <= n /\ Close
    <3>1. n = file
      BY <1>4, <2>2, <2>3, <2>5 DEF Close
    <3>2. FileOpen /\ line_no = Len(Lines) /\ LastDone = line_no
      BY <1>3, <2>5 DEF Close, FileOpen, FailureInv, LastDone, InLine
    <3>3. \A k \in 1 .. Len(Lines) : ~ Lines[k].err
      BY <1>3, <3>2 DEF FailureInv
    <3>4. DOMAIN Lines = 1 .. Len(Lines)
      BY <2>3, <3>1, FileTypes DEF IInv
    <3> QED
      BY <3>1, <3>3, <3>4 DEF NoneFails, Lines, Current
  <2>6. CASE file <= n /\ ~ Close
    <3>1. ~ Spent
      BY <1>3 DEF Spent, LeavesEarly
    <3> QED
      BY <1>6, <2>2, <2>3, <2>6, <3>1, PassedOver
  <2> QED
    BY <1>4, <2>3, <2>4, <2>5, <2>6
<1>7. CASE Open
  <2>1. FileOpen' /\ LastDone' = 0 /\ file' = file /\ pc' = "fgetln"
    BY <1>7 DEF Open, FileOpen, LastDone, InLine
  <2> QED
    BY <1>2, <1>3, <2>1 DEF FailureInv
<1>8. CASE EndLine
  <2>1. /\ FileOpen /\ FileOpen' /\ file' = file /\ file \in DOMAIN files /\ line_no >= 1 /\ line_no <= Len(Lines)
        /\ LastDone = line_no - 1 /\ LastDone' = line_no /\ Lines' = Lines
    BY <1>8, EndLineDone DEF OutputInv, IInv, PlaceInv
  <2>2. ~ This.err
    <3>1. This \in Content
      BY <1>4, <2>1, LineTypes DEF IInv
    <3>2. InLine /\ (pc = "context" \/ st >= This.len)
      BY <1>8 DEF EndLine, InLine
    <3> QED
      BY <3>1, <3>2 DEF SearchInv, Content
  <2>3. \A k \in 1 .. line_no : ~ Lines[k].err
    <3>1. \A k \in 1 .. line_no - 1 : ~ Lines[k].err
      BY <1>3, <2>1 DEF FailureInv
    <3>2. \A k \in 1 .. line_no : k = line_no \/ k \in 1 .. line_no - 1
      BY <1>4
    <3> QED
      BY <2>2, <3>1, <3>2 DEF This
  <2>4. pc' # "grep_close"
    BY <1>3, <1>8 DEF EndLine, LimitReached, LeavesEarly
  <2> QED
    BY <1>2, <1>3, <2>1, <2>3, <2>4 DEF FailureInv
<1>9. CASE EmptyFileMatches \/ SearchFails \/ Exit
  <2>1. ~ FileOpen' /\ file' = file /\ pc' = "exited"
    BY <1>9 DEF EmptyFileMatches, SearchFails, Exit, FileOpen
  <2> QED
    BY <1>2, <1>3, <2>1 DEF FailureInv
<1> QED
  BY <1>5, <1>6, <1>7, <1>8, <1>9 DEF Next, BinaryMatches, SelectLine, TrailingLine, OtherLine

LEMMA EndGoalsKept ==
  ASSUME files' = files, opt' = opt
  PROVE  /\ (AsDocumented' <=> AsDocumented) /\ (ErrorsShow' <=> ErrorsShow) /\ (SomeSearchFails' <=> SomeSearchFails)
         /\ (AnySelected' <=> AnySelected) /\ Failing' = Failing
<1>1. Searched' = Searched /\ Failing' = Failing /\ Hits' = Hits /\ (AsDocumented' <=> AsDocumented)
  BY GoalsKept
<1>2. ErrorsShow' <=> ErrorsShow
  BY <1>1 DEF ErrorsShow
<1> QED
  BY <1>1, <1>2 DEF SomeSearchFails, AnySelected

(* What main has counted is what there was to select, and file_err tells of   *)
(* each file that could not be read.                                       *)
LEMMA TotalIsTruthful ==
  ASSUME IInv, ReadInv, AsDocumented, pc = "procfile", file > Len(files)
  PROVE  total > 0 <=> AnySelected
<1>1. /\ DOMAIN files = 1 .. Len(files) /\ Len(files) \in Nat /\ file \in Nat /\ total \in Nat /\ opt.max \in Nat
      /\ total = SelectedSoFar
  BY OptionTypes DEF IInv, Types, TypeOK, SelectedSoFar, FileOpen
<1>2. Hits = TakenLines
  BY DocumentedHits
<1>3. total > 0 => Hits # {} /\ ~ NothingAllowed
  <2>1. opt.mflag => total <= opt.max
    BY <1>1 DEF IInv, LimitInv
  <2> QED
    BY <1>1, <1>2, <2>1 DEF ReadInv, NothingAllowed
<1>4. total = 0 /\ ~ NothingAllowed => Hits = {}
  <2>1. SUFFICES ASSUME total = 0, ~ NothingAllowed, NEW h \in TakenLines PROVE FALSE
    BY <1>2
  <2>2. PICK n \in Searched : h \in {<<n, k>> : k \in {j \in DOMAIN files[n].lines : Taken(files[n].lines[j])}}
    BY <2>1 DEF TakenLines
  <2>3. n < file
    BY <1>1 DEF Searched
  <2>4. NoneTaken(n)
    BY <2>1, <2>3 DEF ReadInv
  <2> QED
    BY <2>2, <2>4 DEF NoneTaken
<1> QED
  BY <1>1, <1>3, <1>4 DEF AnySelected, NothingAllowed

LEMMA FileErrIsTruthful ==
  ASSUME IInv, ErrorInv, AsDocumented, ErrorsShow, file > Len(files)
  PROVE  file_err <=> Failing # {}
<1> SUFFICES ASSUME ~ file_err, NEW n \in Failing PROVE FALSE
  BY DEF ErrorInv
<1>1. n \in DOMAIN files /\ n < file
  BY DEF Failing, IInv, Types, TypeOK
<1> DEFINE Earlier == {h \in Hits : h[1] < n}
<1>2. opt.mflag /\ SoMany(Earlier, opt.max)
  BY <1>1, DocumentedHits DEF ErrorInv, SpentBefore
<1>3. Cardinality(Earlier) < opt.max
  BY <1>2 DEF ErrorsShow
<1>4. IsFiniteSet(Earlier)
  <2>1. IsFiniteSet(Hits)
    BY HitsFinite, DocumentedHits DEF IInv
  <2> QED
    BY <2>1, FS_Subset
<1> HIDE DEF Earlier
<1>5. PICK D \in SUBSET Earlier : IsFiniteSet(D) /\ Cardinality(D) = opt.max
  BY <1>2 DEF SoMany
<1>6. Cardinality(D) <= Cardinality(Earlier) /\ Cardinality(D) \in Nat /\ Cardinality(Earlier) \in Nat
  BY <1>4, <1>5, FS_Subset, FS_CardinalityType
<1> QED
  BY <1>3, <1>5, <1>6

(* The three steps that end grep. *)
LEMMA EndIsTruthful ==
  ASSUME IInv, TreeInv, ReadInv, ErrorInv, FailureInv, EmptyFileMatches \/ SearchFails \/ Exit
  PROVE  ExitTruthful'
<1>1. files' = files /\ opt' = opt
  BY DEF EmptyFileMatches, SearchFails, Exit, args
<1> SUFFICES ASSUME AsDocumented, ErrorsShow
             PROVE  IF SomeSearchFails
                    THEN LeavesEarly \/ status' = 2
                    ELSE status' = IF Failing # {} /\ ~ (opt.mode = "qflag" /\ AnySelected) THEN 2
                                   ELSE IF AnySelected THEN 0 ELSE 1
  BY <1>1, EndGoalsKept DEF ExitTruthful, LeavesEarly
<1>2. CASE EmptyFileMatches
  <2>1. opt.matchall /\ FileOpen /\ Lines = <<>>
    BY <1>2 DEF EmptyFileMatches, MoreLines, FileOpen
  <2>2. file \in Searched
    <3>1. ~ Nottext
      BY <2>1, FileTypes DEF IInv, PlaceInv, Nottext
    <3> QED
      BY <2>1, <3>1 DEF TreeInv
  <2> QED
    BY <2>1, <2>2 DEF ErrorsShow, Lines, Current
<1>3. CASE SearchFails
  <2>1. status' = 2 /\ FileOpen /\ InLine /\ This.err
    BY <1>3 DEF SearchFails, FileOpen, InLine
  <2>2. file \in DOMAIN files /\ line_no \in Nat /\ line_no >= 1 /\ line_no <= Len(Lines)
    BY <2>1 DEF IInv, PlaceInv, Types, TypeOK
  <2>3. file \in Searched
    BY <2>1, <2>2 DEF TreeInv, IInv, PlaceInv
  <2>4. line_no \in DOMAIN Lines
    BY <2>2, FileTypes DEF IInv
  <2>5. SomeSearchFails
    BY <2>1, <2>3, <2>4 DEF SomeSearchFails, This, Lines, Current
  <2> QED
    BY <2>1, <2>5
<1>4. CASE Exit
  <2>1. status' = ExitStatus /\ file > Len(files) /\ pc = "procfile"
    BY <1>4 DEF Exit
  <2>2. total > 0 <=> AnySelected
    BY <2>1, TotalIsTruthful
  <2>3. file_err <=> Failing # {}
    BY <2>1, FileErrIsTruthful
  <2>4. ~ LeavesEarly => ~ SomeSearchFails
    <3>1. \A n \in Searched : n < file
      BY <2>1 DEF Searched, IInv, Types, TypeOK
    <3> QED
      BY <3>1 DEF FailureInv, NoneFails, SomeSearchFails
  <2>5. ~ (opt.stdin /\ Failing # {})
    BY DEF ErrorsShow
  <2> QED
    BY <2>1, <2>2, <2>3, <2>4, <2>5 DEF ExitStatus
<1> QED
  BY <1>2, <1>3, <1>4

EInv ==
  /\ IInv /\ Given /\ SearchInv /\ TreeInv /\ OutputInv /\ ShapeInv
  /\ ReadInv /\ TakenInv /\ ErrorInv /\ FailureInv /\ ExitTruthful

LEMMA ExitKept ==
  /\ Init => ExitTruthful
  /\ IInv /\ TreeInv /\ ReadInv /\ ErrorInv /\ FailureInv /\ ExitTruthful /\ [Next]_vars => ExitTruthful'
<1>1. Init => ExitTruthful
  BY DEF Init, ExitTruthful
<1> SUFFICES ASSUME IInv, TreeInv, ReadInv, ErrorInv, FailureInv, ExitTruthful, [Next]_vars
             PROVE  ExitTruthful'
  BY <1>1
<1>2. files' = files /\ opt' = opt
  BY ArgsKept
<1>3. CASE EmptyFileMatches \/ SearchFails \/ Exit
  BY <1>3, EndIsTruthful
<1>4. CASE UNCHANGED vars
  BY <1>2, <1>4, EndGoalsKept DEF vars, limits, ExitTruthful
<1>5. ASSUME pc' # "exited" PROVE ExitTruthful'
  BY <1>5 DEF ExitTruthful
<1>6. CASE EndLine
  BY <1>5, <1>6 DEF EndLine
<1>7. CASE Directory \/ PassOver \/ Unreadable \/ Open \/ SkipBinary \/ Close
  BY <1>5, <1>7 DEF Directory, PassOver, Unreadable, Open, SkipBinary, Close, NextFile
<1>8. CASE OneIsEnough \/ EndOfFile \/ ReadLine \/ NotFound \/ NotWhole \/ Match
  BY <1>5, <1>8 DEF OneIsEnough, EndOfFile, ReadLine, NotFound, NotWhole, Match, MoreLines, Searching
<1> QED
  BY <1>3, <1>4, <1>6, <1>7, <1>8 DEF Next, BinaryMatches, SelectLine, TrailingLine, OtherLine

LEMMA ExitInvariance == Spec => []EInv
<1>1. Init => EInv
  BY InitIInv, GivenKept, SearchInvKept, TreeInvKept, OutputInvKept, ShapeInvKept, ReadInvKept, TakenInvKept,
     ErrorInvKept, FailureInvKept, ExitKept DEF EInv
<1>2. EInv /\ [Next]_vars => EInv'
  BY NextIInv, GivenKept, SearchInvKept, TreeInvKept, OutputInvKept, ShapeInvKept, ReadInvKept, TakenInvKept,
     ErrorInvKept, FailureInvKept, ExitKept DEF EInv
<1> QED
  BY <1>1, <1>2, PTL DEF Spec

(* The exit status tells whether a line was to be selected, and whether a file *)
(* or a directory could not be read, for all files, trees and options where   *)
(* the code selects what the manual says and none of the three cases occurs   *)
(* in which it keeps an error back.  If a search fails it is 2, unless -m, -l  *)
(* or -q may end grep before.                                              *)
THEOREM ExitStatusCorrect == Spec => []ExitTruthful
<1>1. EInv => ExitTruthful
  BY DEF EInv
<1> QED
  BY <1>1, ExitInvariance, PTL
=============================================================================
