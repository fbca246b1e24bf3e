----------------------------- MODULE LineReader -----------------------------
(***************************************************************************)
(* file.c: a file is read in blocks of at most MAXBUFSIZ bytes, or mapped    *)
(* as a whole, and handed out line by line.  A line that lies in one block   *)
(* is returned in place; one that crosses a border is put together in lnbuf. *)
(* read may return less than it was asked for, and may fail.  procfile's     *)
(* struct str, which says where in the file a line begins, is kept here too. *)
(*                                                                         *)
(* Offsets count from 0 as in C; sequences are numbered from 1, so that       *)
(* buffer[bufpos + 1] is the byte that bufpos points to.                    *)
(***************************************************************************)
EXTENDS Integers, Sequences

CONSTANTS Inputs, NL, NUL,
          Behaviours,   \* --mmap or not: a subset of {"STDIO", "MMAP"}
          MAXBUFSIZ, LNBUFBUMP

File == [kind : {"regular", "other", "missing"},
         bytes : Seq({"x", NL, NUL}),
         fails : BOOLEAN]     \* whether reading it may fail

(* The last byte of a file that may be mapped is a newline: grep_fgetln does  *)
(* not come to an end on a mapped file that ends otherwise.                 *)
EndsInNewline(f) == f.bytes = <<>> \/ f.bytes[Len(f.bytes)] = NL

ASSUME SizesAssumption == MAXBUFSIZ \in Nat \ {0} /\ LNBUFBUMP \in Nat
ASSUME InputsAssumption ==
  /\ NL # NUL /\ "x" \notin {NL, NUL}
  /\ Inputs \subseteq Seq(File)
  /\ \A fs \in Inputs : \A n \in DOMAIN fs : fs[n].kind = "missing" => fs[n].fails

ASSUME BehavioursAssumption ==
  /\ Behaviours \subseteq {"STDIO", "MMAP"}
  /\ "MMAP" \in Behaviours =>
       \A fs \in Inputs : \A n \in DOMAIN fs : fs[n].kind = "regular" => EndsInNewline(fs[n])

VARIABLES files, file,
          filebehave,
          fdpos,                    \* the file offset of the descriptor
          buffer, bufpos, bufrem,
          lnbuf, lnbuflen,          \* lnbuf has its bytes that were written
          pc,
          len, off,                 \* of grep_fgetln
          ret,                      \* the bytes that it returned
          ln,                       \* procfile: off and len of the line
          binary

args    == <<files, file, filebehave>>
blocks  == <<fdpos, buffer, bufpos, bufrem>>
lines   == <<lnbuf, lnbuflen, len, off>>
results == <<ret, ln>>
vars == <<args, blocks, lines, results, pc, binary>>

Bytes == files[file].bytes
Slice(bs, from, n) == [k \in 1 .. n |-> bs[from + k]]
Least(a, b) == IF a < b THEN a ELSE b
LeftInFile == Len(Bytes) - fdpos

Init ==
  /\ files \in Inputs /\ file = 0
  /\ filebehave \in Behaviours
  /\ fdpos = 0 /\ buffer = <<>> /\ bufpos = 0 /\ bufrem = 0
  /\ lnbuf = <<>> /\ lnbuflen = 0 /\ len = 0 /\ off = 0
  /\ ret = <<>> /\ ln = [off |-> -1, len |-> 0]
  /\ pc = "closed" /\ binary = FALSE
-----------------------------------------------------------------------------
(* grep_refill.  0 bytes are the end of the file, and only that.             *)
Refill ==
  IF filebehave = "MMAP"
  THEN UNCHANGED blocks
  ELSE \E nr \in (IF LeftInFile = 0 THEN 0 ELSE 1) .. Least(MAXBUFSIZ, LeftInFile) :
         /\ buffer' = Slice(Bytes, fdpos, nr)
         /\ fdpos' = fdpos + nr
         /\ bufpos' = 0 /\ bufrem' = nr

RefillFails ==
  /\ filebehave # "MMAP" /\ files[file].fails
  /\ bufpos' = 0 /\ bufrem' = 0
  /\ UNCHANGED <<fdpos, buffer>>
-----------------------------------------------------------------------------
(* grep_open *)
FileToOpen == files[file + 1]

(* The arguments of the next call of procfile. *)
Fresh == ln' = [off |-> -1, len |-> 0] /\ ret' = <<>>

HasNul == \E k \in 1 .. bufrem' : buffer'[bufpos' + k] = NUL

CannotOpen ==
  /\ pc = "closed" /\ file < Len(files)
  /\ FileToOpen.kind = "missing"
  /\ file' = file + 1
  /\ UNCHANGED <<files, filebehave, blocks, lines, results, pc, binary>>

OpenMapped ==
  /\ pc = "closed" /\ file < Len(files)
  /\ filebehave = "MMAP"
  /\ FileToOpen.kind = "regular" /\ FileToOpen.bytes # <<>>
  /\ file' = file + 1
  /\ buffer' = FileToOpen.bytes /\ fdpos' = Len(FileToOpen.bytes)
  /\ bufpos' = 0 /\ bufrem' = Len(FileToOpen.bytes)
  /\ binary' = HasNul
  /\ pc' = "idle" /\ Fresh
  /\ UNCHANGED <<files, filebehave, lines>>

(* A file that is not regular or cannot be mapped ends the use of mmap for   *)
(* good.  mmap takes no file without bytes, and may fail on any.            *)
OpenToRead ==
  /\ pc = "closed" /\ file < Len(files)
  /\ FileToOpen.kind # "missing"
  /\ file' = file + 1
  /\ filebehave' = "STDIO"
  /\ fdpos' = 0
  /\ pc' = "grep_open"
  /\ UNCHANGED <<files, buffer, bufpos, bufrem, lines, results, binary>>

FirstBlock ==
  /\ pc = "grep_open"
  /\ IF bufrem = 0 THEN Refill ELSE UNCHANGED blocks
  /\ binary' = HasNul
  /\ pc' = "idle" /\ Fresh
  /\ UNCHANGED <<args, lines>>

NoFirstBlock ==
  /\ pc = "grep_open" /\ bufrem = 0
  /\ RefillFails
  /\ pc' = "closed"
  /\ UNCHANGED <<args, lines, results, binary>>
-----------------------------------------------------------------------------
(* grep_fgetln *)
NewlineAt(n) ==
  /\ n \in 1 .. bufrem
  /\ buffer[bufpos + n] = NL
  /\ \A k \in 1 .. n - 1 : buffer[bufpos + k] # NL
NoNewline == \A k \in 1 .. bufrem : buffer[bufpos + k] # NL

Call ==
  /\ pc = "idle"
  /\ IF bufrem = 0 THEN Refill ELSE UNCHANGED blocks
  /\ ln' = [ln EXCEPT !.off = @ + ln.len + 1]
  /\ pc' = "grep_fgetln"
  /\ UNCHANGED <<args, lines, ret, binary>>

(* Faulty: the newline stays on the line. *)
StrippedNot(bs) == Len(bs)
(* procfile takes the newline off the line. *)
Stripped(bs) == IF bs[Len(bs)] = NL THEN Len(bs) - 1 ELSE Len(bs)

Return(bs) ==
  /\ ret' = bs
  /\ ln' = [ln EXCEPT !.len = Stripped(bs)]
  /\ pc' = "idle"

Consume(n) ==
  /\ bufrem' = bufrem - n /\ bufpos' = bufpos + n
  /\ UNCHANGED <<fdpos, buffer>>

EndOfFile ==
  /\ pc = "grep_fgetln" /\ bufrem = 0
  /\ ret' = <<>> /\ ln' = [ln EXCEPT !.len = 0]
  /\ pc' = "end"
  /\ UNCHANGED <<args, blocks, lines, binary>>

LineInBlock ==
  /\ pc = "grep_fgetln"
  /\ \E n \in 1 .. bufrem :
       /\ NewlineAt(n)
       /\ Consume(n)
       /\ Return(Slice(buffer, bufpos, n))
  /\ UNCHANGED <<args, lines, binary>>

LineGoesOn ==
  /\ pc = "grep_fgetln" /\ bufrem > 0 /\ NoNewline
  /\ len' = bufrem /\ off' = 0
  /\ pc' = "copy"
  /\ UNCHANGED <<args, blocks, lnbuf, lnbuflen, results, binary>>

(* grep_lnbufgrow *)
Grown(newlen) == IF lnbuflen < newlen THEN newlen ELSE lnbuflen

(* memcpy of n bytes from bufpos to lnbuf + off; bytes behind are not used.   *)
Copied(n) == [k \in 1 .. off + n |-> IF k <= off THEN lnbuf[k] ELSE buffer[bufpos + k - off]]

Copy ==
  /\ pc = "copy"
  /\ lnbuflen' = Grown(len + LNBUFBUMP)
  /\ lnbuf' = Copied(len - off)
  /\ off' = len
  /\ pc' = "refill"
  /\ UNCHANGED <<args, blocks, len, results, binary>>

NextBlock ==
  /\ pc = "refill"
  /\ Refill
  /\ pc' = "scan"
  /\ UNCHANGED <<args, lines, results, binary>>

(* Faulty: the end of the file is not noticed. *)
PartialLineGoesOn ==
  /\ pc = "scan" /\ bufrem = 0
  /\ len' = len + bufrem
  /\ pc' = "copy"
  /\ UNCHANGED <<args, blocks, lnbuf, lnbuflen, off, results, binary>>

PartialLine ==
  /\ pc = "scan" /\ bufrem = 0
  /\ Return(Slice(lnbuf, 0, len))
  /\ UNCHANGED <<args, blocks, lines, binary>>

LineGoesOnFurther ==
  /\ pc = "scan" /\ bufrem > 0 /\ NoNewline
  /\ len' = len + bufrem
  /\ pc' = "copy"
  /\ UNCHANGED <<args, blocks, lnbuf, lnbuflen, off, results, binary>>

FinishLine ==
  /\ pc = "scan"
  /\ \E diff \in 1 .. bufrem :
       /\ NewlineAt(diff)
       /\ len' = len + diff
       /\ lnbuflen' = Grown(len + diff)
       /\ lnbuf' = Copied(diff)
       /\ Consume(diff)
       /\ Return(Slice(lnbuf', 0, len'))
  /\ UNCHANGED <<args, off, binary>>

Error ==
  /\ RefillFails
  /\ ret' = <<>> /\ ln' = [ln EXCEPT !.len = 0]
  /\ pc' = "error"
  /\ UNCHANGED <<args, lines, binary>>

CallFails == pc = "idle" /\ bufrem = 0 /\ Error
ReadError == pc = "refill" /\ Error
-----------------------------------------------------------------------------
(* grep_close; procfile may leave a file before its end.                    *)
(* Faulty: what is left of the block is not dropped. *)
DroppedNot(rem) == rem
Dropped(rem) == 0

Close ==
  /\ pc \in {"idle", "end", "error"}
  /\ bufpos' = 0 /\ bufrem' = Dropped(bufrem)
  /\ buffer' = IF filebehave = "MMAP" THEN <<>> ELSE buffer
  /\ lnbuf' = <<>> /\ lnbuflen' = 0
  /\ pc' = "closed" /\ Fresh /\ binary' = FALSE
  /\ UNCHANGED <<args, fdpos, len, off>>

Step ==
  \/ FirstBlock \/ NoFirstBlock
  \/ EndOfFile \/ LineInBlock \/ LineGoesOn
  \/ Copy \/ NextBlock \/ PartialLine \/ LineGoesOnFurther \/ FinishLine \/ ReadError

Next == CannotOpen \/ OpenMapped \/ OpenToRead \/ Call \/ CallFails \/ Step \/ Close

Spec == Init /\ [][Next]_vars /\ WF_vars(Step)
-----------------------------------------------------------------------------
TypeOK ==
  /\ filebehave \in {"STDIO", "MMAP"}
  /\ file \in 0 .. Len(files)
  /\ pc \in {"closed", "grep_open", "idle", "grep_fgetln", "copy", "refill", "scan", "end", "error"}
  /\ {fdpos, bufpos, bufrem, lnbuflen, len, off, ln.len} \subseteq Nat
  /\ ln.off \in Int
  /\ binary \in BOOLEAN

Building == pc \in {"copy", "refill", "scan"}

(* Bytes of the block that are in neither lnbuf nor a line yet. *)
Unread == IF pc = "refill" THEN 0 ELSE bufrem

(* Bytes of the line under construction that are in lnbuf. *)
Held == IF Building THEN off ELSE 0

(* Where in the file the next line to be returned begins. *)
LineStart == IF pc \in {"closed", "grep_open", "end", "error"} THEN 0 ELSE fdpos - Unread - Held

(* Wherever the block borders are: what is left of the block and what is in   *)
(* lnbuf are together the bytes of the file from the first one not returned   *)
(* to the one that the descriptor is at; and no copy runs over the end of     *)
(* lnbuf.  A closed reader holds nothing of the file it was reading.         *)
BuffersHoldFile ==
  /\ pc = "closed" => bufrem = 0 /\ lnbuflen = 0
  /\ pc \notin {"closed", "end", "error"} =>
       \A k \in 1 .. Unread : buffer[bufpos + k] = Bytes[fdpos - Unread + k]
  /\ Building => \A k \in 1 .. off : lnbuf[k] = Bytes[LineStart + k] /\ lnbuf[k] # NL
  /\ Len(lnbuf) <= lnbuflen

SourceState ==
  IF pc \in {"closed", "grep_open"} THEN "closed"
  ELSE IF pc \in {"end", "error"} THEN pc ELSE "open"

SourceFile == IF pc = "grep_open" THEN file - 1 ELSE file

SourceLine ==
  IF ret = <<>> THEN [off |-> 0, bytes |-> <<>>]
  ELSE [off |-> IF pc = "idle" THEN ln.off ELSE LineStart - Len(ret), bytes |-> ret]

Source == INSTANCE LineSource WITH
            state <- SourceState, file <- SourceFile, at <- LineStart, line <- SourceLine

(* The lines that procfile is given are the lines of the file, in order,      *)
(* whole, with their offset in the file, however read cuts it into blocks.   *)
ImplementsLineSource == Source!Spec

(* Each call of grep_fgetln returns. *)
CallReturns == pc \in {"grep_open", "grep_fgetln"} ~> pc \in {"closed", "idle", "end", "error"}
=============================================================================
