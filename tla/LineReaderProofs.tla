-------------------------- MODULE LineReaderProofs --------------------------
(***************************************************************************)
(* For all files, all block sizes and all ways in which read divides a file: *)
(* the line reader hands out the lines of the files.                        *)
(***************************************************************************)
EXTENDS LineReader, TLAPS

Byte == {"x", NL, NUL}
Active == {"idle", "grep_fgetln", "copy", "refill", "scan"}

Types ==
  /\ files \in Inputs /\ file \in 0 .. Len(files)
  /\ filebehave \in {"STDIO", "MMAP"} /\ (filebehave = "MMAP" => "MMAP" \in Behaviours)
  /\ buffer \in Seq(Byte)
  /\ fdpos \in Nat /\ bufpos \in Nat /\ bufrem \in Nat
  /\ lnbuf \in Seq(Byte) /\ lnbuflen \in Nat /\ len \in Nat /\ off \in Nat
  /\ ret \in Seq(Byte)
  /\ ln \in [off : Int, len : Nat]
  /\ pc \in {"closed", "grep_open", "idle", "grep_fgetln", "copy", "refill", "scan", "end", "error"}
  /\ binary \in BOOLEAN

(* The descriptor, and where bytes are between it and the caller. *)
PlaceInv ==
  /\ pc # "closed" => file > 0 /\ files[file].kind # "missing"
  /\ pc \in {"closed", "grep_open"} => bufrem = 0 /\ lnbuflen = 0
  /\ bufpos + bufrem <= Len(buffer)
  /\ pc = "grep_open" => fdpos = 0 /\ filebehave = "STDIO"
  /\ pc \in Active => fdpos <= Len(Bytes) /\ LineStart \in Nat
  /\ pc \in {"grep_fgetln", "scan"} /\ bufrem = 0 => fdpos = Len(Bytes)
  /\ pc \in Active /\ filebehave = "MMAP" =>
       files[file].kind = "regular" /\ fdpos = Len(Bytes) /\ ~ Building

(* The line under construction. *)
BuildInv ==
  /\ pc = "copy" => len = off + bufrem /\ bufrem > 0 /\ NoNewline
  /\ pc \in {"refill", "scan"} => off = len /\ len > 0
  /\ pc \in Active => \A k \in 1 .. Unread : buffer[bufpos + k] = Bytes[fdpos - Unread + k]
  /\ Building => \A k \in 1 .. off : lnbuf[k] = Bytes[LineStart + k] /\ lnbuf[k] # NL
  /\ pc \in {"refill", "scan"} => Len(lnbuf) = off
  /\ pc = "copy" /\ off > 0 => Len(lnbuf) = off
  /\ Len(lnbuf) <= lnbuflen

(* The line that was returned last, and the offset of the next one. *)
ResultInv ==
  /\ pc \in {"closed", "grep_open", "end", "error"} => ret = <<>>
  /\ pc \in {"closed", "grep_open"} => binary = FALSE
  /\ pc \in Active /\ ret = <<>> => LineStart = 0
  /\ pc = "idle" /\ ret = <<>> => ln.off = -1 /\ ln.len = 0
  /\ pc = "idle" /\ ret # <<>> =>
       /\ ln.off = LineStart - Len(ret) /\ ln.len = Stripped(ret)
       /\ ret[Len(ret)] = NL \/ LineStart = Len(Bytes)
  /\ pc \in Active \ {"idle"} => ln.off = LineStart \/ LineStart = Len(Bytes)

IInv == Types /\ PlaceInv /\ BuildInv /\ ResultInv
-----------------------------------------------------------------------------
LEMMA InputTypes ==
  ASSUME files \in Inputs, NEW n \in 1 .. Len(files)
  PROVE  files[n] \in File /\ files[n].bytes \in Seq(Byte) /\ Len(files[n].bytes) \in Nat
<1>1. files \in Seq(File)
  BY InputsAssumption
<1>2. files[n] \in File
  BY <1>1
<1>3. files[n].bytes \in Seq(Byte)
  BY <1>2 DEF File, Byte
<1> QED
  BY <1>2, <1>3

LEMMA SliceType ==
  ASSUME NEW bs \in Seq(Byte), NEW from \in Nat, NEW n \in Nat, from + n <= Len(bs)
  PROVE  /\ Slice(bs, from, n) \in Seq(Byte) /\ Len(Slice(bs, from, n)) = n
         /\ \A k \in 1 .. n : Slice(bs, from, n)[k] = bs[from + k]
<1>1. \A k \in 1 .. n : from + k \in 1 .. Len(bs) /\ bs[from + k] \in Byte
  OBVIOUS
<1>2. Slice(bs, from, n) \in [1 .. n -> Byte]
  BY <1>1 DEF Slice
<1>3. Slice(bs, from, n) \in Seq(Byte)
  BY <1>2
<1> QED
  BY <1>2, <1>3 DEF Slice

LEMMA CopiedType ==
  ASSUME Types, PlaceInv, BuildInv, pc \in {"copy", "scan"}, NEW n \in Nat, n <= bufrem
  PROVE  /\ Copied(n) \in Seq(Byte) /\ Len(Copied(n)) = off + n
         /\ \A k \in 1 .. off : Copied(n)[k] = lnbuf[k]
         /\ \A k \in 1 .. n : Copied(n)[off + k] = buffer[bufpos + k]
<1>0. off \in Nat
  BY DEF Types
<1>1. off > 0 => Len(lnbuf) = off
  BY DEF BuildInv, Types
<1>2. \A k \in 1 .. off : lnbuf[k] \in Byte
  BY <1>1 DEF Types
<1>3. \A k \in 1 .. n : bufpos + k \in 1 .. Len(buffer) /\ buffer[bufpos + k] \in Byte
  BY DEF PlaceInv, Types
<1>4. \A k \in 1 .. off + n : ~ (k <= off) => buffer[bufpos + k - off] \in Byte
  <2> TAKE k \in 1 .. off + n
  <2> HAVE ~ (k <= off)
  <2>1. k - off \in 1 .. n /\ bufpos + (k - off) = bufpos + k - off
    BY DEF Types
  <2> QED
    BY <2>1, <1>3
<1>5. Copied(n) \in [1 .. off + n -> Byte]
  BY <1>0, <1>2, <1>4 DEF Copied
<1>6. Copied(n) \in Seq(Byte) /\ Len(Copied(n)) = off + n
  BY <1>0, <1>5
<1>7. \A k \in 1 .. n : off + k \in 1 .. off + n /\ ~ (off + k <= off) /\ bufpos + (off + k) - off = bufpos + k
  BY DEF Types
<1> QED
  BY <1>6, <1>7 DEF Copied, Types

(* A refill that is asked for brings the next bytes of the file, and none     *)
(* only at its end.                                                         *)
LEMMA RefillFacts ==
  ASSUME Types, PlaceInv, Refill, UNCHANGED args,
         pc \in {"grep_open", "refill"} \/ (pc = "idle" /\ bufrem = 0)
  PROVE  /\ buffer' \in Seq(Byte) /\ fdpos' \in Nat /\ bufpos' \in Nat /\ bufrem' \in Nat
         /\ bufpos' + bufrem' <= Len(buffer')
         /\ fdpos' = fdpos + bufrem' /\ fdpos' - bufrem' = fdpos /\ fdpos' <= Len(Bytes)
         /\ bufrem' = 0 => fdpos' = Len(Bytes)
         /\ filebehave = "MMAP" => fdpos' = fdpos
         /\ \A k \in 1 .. bufrem' : buffer'[bufpos' + k] = Bytes[fdpos' - bufrem' + k]
<1>1. file \in 1 .. Len(files) /\ Bytes \in Seq(Byte)
  BY InputTypes DEF Types, PlaceInv, Bytes
<1>2. fdpos <= Len(Bytes)
  BY <1>1 DEF PlaceInv, Active, Types
<1>3. CASE filebehave = "MMAP"
  <2>1. pc = "idle" /\ bufrem = 0 /\ fdpos = Len(Bytes)
    BY <1>3 DEF PlaceInv, Active, Building
  <2>2. UNCHANGED <<buffer, fdpos, bufpos, bufrem>>
    BY <1>3 DEF Refill, blocks
  <2> QED
    BY <1>3, <2>1, <2>2 DEF Types, PlaceInv
<1>4. CASE filebehave # "MMAP"
  <2>1. PICK nr \in (IF LeftInFile = 0 THEN 0 ELSE 1) .. Least(MAXBUFSIZ, LeftInFile) :
          /\ buffer' = Slice(Bytes, fdpos, nr)
          /\ fdpos' = fdpos + nr /\ bufpos' = 0 /\ bufrem' = nr
    BY <1>4 DEF Refill
  <2>2. LeftInFile \in Nat /\ nr \in Nat /\ nr <= LeftInFile /\ (nr = 0 => LeftInFile = 0)
    BY <1>1, <1>2, SizesAssumption DEF LeftInFile, Least, Types
  <2>3. fdpos + nr <= Len(Bytes) /\ (nr = 0 => fdpos = Len(Bytes))
    BY <1>1, <2>2 DEF LeftInFile, Types
  <2>4. /\ buffer' \in Seq(Byte) /\ Len(buffer') = nr
        /\ \A k \in 1 .. nr : buffer'[k] = Bytes[fdpos + k]
    <3>1. fdpos \in Nat
      BY DEF Types
    <3> QED
      BY <3>1, <1>1, <2>1, <2>2, <2>3, SliceType
  <2>5. fdpos \in Nat /\ fdpos' = fdpos + bufrem' /\ fdpos' - bufrem' = fdpos
    BY <2>1, <2>2 DEF Types
  <2>6. \A k \in 1 .. bufrem' : buffer'[bufpos' + k] = Bytes[fdpos' - bufrem' + k]
    BY <2>1, <2>2, <2>4, <2>5
  <2> QED
    BY <1>4, <2>1, <2>2, <2>3, <2>4, <2>5, <2>6
<1> QED
  BY <1>3, <1>4
-----------------------------------------------------------------------------
LEMMA InitInv == Init => IInv
<1> SUFFICES ASSUME Init PROVE IInv
  OBVIOUS
<1> USE DEF Init
<1>1. Types
  <2>1. files \in Seq(File) /\ 0 \in 0 .. Len(files)
    BY InputsAssumption
  <2>2. filebehave \in {"STDIO", "MMAP"}
    BY BehavioursAssumption
  <2>3. ln \in [off : Int, len : Nat]
    OBVIOUS
  <2>4. buffer \in Seq(Byte) /\ lnbuf \in Seq(Byte) /\ ret \in Seq(Byte)
    OBVIOUS
  <2> QED
    BY <2>1, <2>2, <2>3, <2>4 DEF Types
<1>2. PlaceInv /\ BuildInv /\ ResultInv
  BY DEF PlaceInv, BuildInv, ResultInv, Active, Building
<1> QED
  BY <1>1, <1>2 DEF IInv

LEMMA CannotOpenInv == IInv /\ CannotOpen => IInv'
<1> SUFFICES ASSUME IInv, CannotOpen PROVE IInv'
  OBVIOUS
<1> USE DEF CannotOpen, blocks, lines, results
<1>1. Types'
  BY DEF IInv, Types
<1>2. PlaceInv'
  BY DEF IInv, Types, PlaceInv, Active
<1>3. BuildInv'
  BY DEF IInv, BuildInv, Active, Building
<1>4. ResultInv'
  BY DEF IInv, ResultInv, Active
<1> QED
  BY <1>1, <1>2, <1>3, <1>4 DEF IInv

LEMMA OpenMappedInv == IInv /\ OpenMapped => IInv'
<1> SUFFICES ASSUME IInv, OpenMapped PROVE IInv'
  OBVIOUS
<1> USE DEF OpenMapped, lines, Fresh
<1>0. file' \in 1 .. Len(files) /\ Bytes' = FileToOpen.bytes /\ Bytes' \in Seq(Byte)
  BY InputTypes DEF IInv, Types, FileToOpen, Bytes
<1>1. Types'
  BY <1>0 DEF IInv, Types, HasNul
<1>2. PlaceInv'
  <2>1. LineStart' = 0
    BY <1>0 DEF LineStart, Unread, Held, Building
  <2> QED
    BY <1>0, <2>1 DEF PlaceInv, Active, Building, FileToOpen, Bytes
<1>3. BuildInv'
  BY <1>0 DEF IInv, BuildInv, Active, Building, Unread
<1>4. ResultInv'
  BY <1>0 DEF ResultInv, Active, LineStart, Unread, Held, Building
<1> QED
  BY <1>1, <1>2, <1>3, <1>4 DEF IInv

LEMMA OpenToReadInv == IInv /\ OpenToRead => IInv'
<1> SUFFICES ASSUME IInv, OpenToRead PROVE IInv'
  OBVIOUS
<1> USE DEF OpenToRead, lines, results
<1>1. Types'
  BY DEF IInv, Types
<1>2. PlaceInv'
  BY DEF IInv, Types, PlaceInv, Active, FileToOpen
<1>3. BuildInv'
  BY DEF IInv, BuildInv, Active, Building
<1>4. ResultInv'
  BY DEF IInv, ResultInv, Active
<1> QED
  BY <1>1, <1>2, <1>3, <1>4 DEF IInv

LEMMA FirstBlockInv == IInv /\ FirstBlock => IInv'
<1> SUFFICES ASSUME IInv, FirstBlock PROVE IInv'
  OBVIOUS
<1>0. Refill /\ fdpos = 0 /\ bufrem = 0 /\ filebehave = "STDIO" /\ UNCHANGED args
  BY DEF IInv, FirstBlock, PlaceInv
<1>1. /\ buffer' \in Seq(Byte) /\ fdpos' \in Nat /\ bufpos' \in Nat /\ bufrem' \in Nat
      /\ bufpos' + bufrem' <= Len(buffer')
      /\ fdpos' - bufrem' = 0 /\ fdpos' <= Len(Bytes)
      /\ \A k \in 1 .. bufrem' : buffer'[bufpos' + k] = Bytes[fdpos' - bufrem' + k]
  BY <1>0, RefillFacts DEF IInv, FirstBlock
<1>2. pc' = "idle" /\ Bytes' = Bytes /\ LineStart' = 0 /\ Unread' = bufrem'
  BY <1>1 DEF FirstBlock, args, Bytes, LineStart, Unread, Held, Building
<1> USE DEF FirstBlock, args, lines, Fresh
<1>3. Types'
  BY <1>1 DEF IInv, Types, HasNul
<1>4. PlaceInv'
  BY <1>0, <1>1, <1>2 DEF IInv, PlaceInv, Active, Building
<1>5. BuildInv'
  BY <1>1, <1>2 DEF IInv, BuildInv, Active, Building
<1>6. ResultInv'
  BY <1>2 DEF ResultInv, Active
<1> QED
  BY <1>3, <1>4, <1>5, <1>6 DEF IInv

LEMMA NoFirstBlockInv == IInv /\ NoFirstBlock => IInv'
<1> SUFFICES ASSUME IInv, NoFirstBlock PROVE IInv'
  OBVIOUS
<1> USE DEF NoFirstBlock, RefillFails, args, lines, results
<1>1. Types'
  BY DEF IInv, Types
<1>2. PlaceInv'
  BY DEF IInv, Types, PlaceInv, BuildInv, Active
<1>3. BuildInv'
  BY DEF IInv, BuildInv, Active, Building
<1>4. ResultInv'
  BY DEF IInv, ResultInv, Active
<1> QED
  BY <1>1, <1>2, <1>3, <1>4 DEF IInv

LEMMA CallInv == IInv /\ Call => IInv'
<1> SUFFICES ASSUME IInv, Call PROVE IInv'
  OBVIOUS
<1>0. /\ buffer' \in Seq(Byte) /\ fdpos' \in Nat /\ bufpos' \in Nat /\ bufrem' \in Nat
      /\ bufpos' + bufrem' <= Len(buffer')
      /\ fdpos' - bufrem' = fdpos - bufrem /\ fdpos' <= Len(Bytes)
      /\ bufrem' = 0 => fdpos' = Len(Bytes)
      /\ filebehave = "MMAP" => fdpos' = fdpos
      /\ \A k \in 1 .. bufrem' : buffer'[bufpos' + k] = Bytes[fdpos' - bufrem' + k]
  <2>1. CASE bufrem = 0
    BY <2>1, RefillFacts DEF IInv, Call, Types
  <2>2. CASE bufrem # 0
    BY <2>2 DEF IInv, Call, blocks, Types, PlaceInv, BuildInv, Active, Unread
  <2> QED
    BY <2>1, <2>2
<1>1. /\ pc = "idle" /\ pc' = "grep_fgetln" /\ Bytes' = Bytes /\ Unread' = bufrem'
      /\ LineStart = fdpos - bufrem /\ LineStart' = LineStart
  BY <1>0, SMTT(30) DEF Call, args, Bytes, LineStart, Unread, Held, Building, IInv, Types
<1> USE DEF Call, args, lines
<1>2. ln'.off = ln.off + ln.len + 1 /\ ln' \in [off : Int, len : Nat]
  <2>1. ln \in [off : Int, len : Nat] /\ ln' = [ln EXCEPT !.off = ln.off + ln.len + 1]
    BY DEF IInv, Types
  <2> QED
    BY <2>1
<1>3. Types'
  BY <1>0, <1>2 DEF IInv, Types
<1>4. PlaceInv'
  BY <1>0, <1>1 DEF IInv, PlaceInv, Active, Building
<1>5. BuildInv'
  BY <1>0, <1>1 DEF IInv, BuildInv, Active, Building
<1>6. ResultInv'
  <2>1. CASE ret = <<>>
    BY <1>1, <1>2, <2>1 DEF IInv, ResultInv, Active
  <2>2. CASE ret # <<>>
    <3>1. /\ ln.off = LineStart - Len(ret) /\ ln.len = Stripped(ret)
          /\ ret[Len(ret)] = NL \/ LineStart = Len(Bytes)
      BY <1>1, <2>2 DEF IInv, ResultInv
    <3>2. LineStart \in Nat /\ Len(ret) \in Nat
      BY <1>1 DEF IInv, PlaceInv, Types, Active
    <3>3. ret[Len(ret)] = NL => ln'.off = LineStart
      BY <1>2, <3>1, <3>2 DEF Stripped
    <3> QED
      BY <1>1, <2>2, <3>1, <3>3 DEF IInv, ResultInv, Active
  <2> QED
    BY <2>1, <2>2
<1> QED
  BY <1>3, <1>4, <1>5, <1>6 DEF IInv
-----------------------------------------------------------------------------
(* A step of grep_fgetln returns the line that begins at LineStart.          *)
Handed ==
  /\ pc' = "idle" /\ Bytes' = Bytes
  /\ ret' \in Seq(Byte) /\ Len(ret') > 0
  /\ LineStart' = LineStart + Len(ret') /\ LineStart' <= Len(Bytes)
  /\ \A k \in 1 .. Len(ret') : ret'[k] = Bytes[LineStart + k]
  /\ \A k \in 1 .. Len(ret') - 1 : ret'[k] # NL
  /\ ret'[Len(ret')] = NL \/ LineStart' = Len(Bytes)
  /\ ln' = [ln EXCEPT !.len = Stripped(ret')]

LEMMA BytesType ==
  ASSUME IInv, pc # "closed"
  PROVE  file \in 1 .. Len(files) /\ files[file] \in File /\ Bytes \in Seq(Byte) /\ Len(Bytes) \in Nat
BY InputTypes DEF IInv, Types, PlaceInv, Bytes

LEMMA HandedResult ==
  ASSUME IInv, Handed, pc \in {"grep_fgetln", "scan"}
  PROVE  ResultInv' /\ ln' \in [off : Int, len : Nat] /\ ln'.off = LineStart
<1>1. LineStart \in Nat /\ Len(Bytes) \in Nat /\ Len(ret') \in Nat
  BY BytesType DEF Handed, IInv, PlaceInv, Active
<1>2. ln.off = LineStart
  BY <1>1 DEF IInv, ResultInv, Active, Handed
<1>3. ln \in [off : Int, len : Nat] /\ Stripped(ret') \in Nat
  BY <1>1 DEF IInv, Types, Stripped, Handed
<1>4. ln' \in [off : Int, len : Nat] /\ ln'.off = ln.off /\ ln'.len = Stripped(ret')
  BY <1>3 DEF Handed
<1>5. ln'.off = LineStart' - Len(ret') /\ ret' # <<>>
  BY <1>1, <1>2, <1>4 DEF Handed
<1>6. ResultInv'
  BY <1>4, <1>5 DEF Handed, ResultInv, Active, Stripped
<1> QED
  BY <1>2, <1>4, <1>6

LEMMA LineInBlockHands == IInv /\ LineInBlock => Handed
<1> SUFFICES ASSUME IInv, LineInBlock PROVE Handed
  OBVIOUS
<1>1. PICK n \in 1 .. bufrem : NewlineAt(n) /\ Consume(n) /\ Return(Slice(buffer, bufpos, n))
  BY DEF LineInBlock
<1>2. n \in Nat \ {0} /\ n <= bufrem /\ bufpos + n <= Len(buffer)
  BY DEF IInv, Types, PlaceInv
<1>3. ret' \in Seq(Byte) /\ Len(ret') = n /\ \A k \in 1 .. n : ret'[k] = buffer[bufpos + k]
  BY <1>1, <1>2, SliceType, SMTT(30) DEF Return, IInv, Types
<1>4. LineStart = fdpos - bufrem /\ LineStart' = fdpos - (bufrem - n) /\ Bytes' = Bytes
  <2>1. pc = "grep_fgetln" /\ pc' = "idle" /\ UNCHANGED <<files, file, fdpos>> /\ bufrem' = bufrem - n
    BY <1>1 DEF LineInBlock, Consume, Return, args
  <2>2. fdpos \in Nat /\ bufrem \in Nat
    BY DEF IInv, Types
  <2> QED
    BY <2>1, <2>2, <1>2 DEF LineStart, Unread, Held, Building, Bytes
<1>5. \A k \in 1 .. bufrem : buffer[bufpos + k] = Bytes[fdpos - bufrem + k]
  BY DEF IInv, BuildInv, Active, Unread, LineInBlock
<1>6. fdpos \in Nat /\ bufrem \in Nat /\ fdpos <= Len(Bytes) /\ Len(Bytes) \in Nat
  BY BytesType DEF IInv, Types, PlaceInv, Active, LineInBlock
<1>7. LineStart' = LineStart + n /\ LineStart' <= Len(Bytes)
  BY <1>2, <1>4, <1>6
<1>8. \A k \in 1 .. n : ret'[k] = Bytes[LineStart + k]
  <2>1. \A k \in 1 .. n : k \in 1 .. bufrem /\ LineStart + k = fdpos - bufrem + k
    BY <1>2, <1>4, <1>6
  <2> QED
    BY <2>1, <1>3, <1>5
<1>9. (\A k \in 1 .. n - 1 : ret'[k] # NL) /\ ret'[n] = NL
  BY <1>1, <1>2, <1>3 DEF NewlineAt
<1> QED
  BY <1>1, <1>2, <1>3, <1>4, <1>7, <1>8, <1>9 DEF Handed, Return

LEMMA PartialLineHands == IInv /\ PartialLine => Handed
<1> SUFFICES ASSUME IInv, PartialLine PROVE Handed
  OBVIOUS
<1>1. pc = "scan" /\ bufrem = 0 /\ fdpos = Len(Bytes) /\ off = len /\ len > 0 /\ Len(lnbuf) = len
  BY DEF IInv, PartialLine, PlaceInv, BuildInv
<1>2. len \in Nat /\ fdpos \in Nat /\ lnbuf \in Seq(Byte) /\ 0 + len <= Len(lnbuf)
  BY <1>1 DEF IInv, Types
<1>3. ret' \in Seq(Byte) /\ Len(ret') = len /\ \A k \in 1 .. len : ret'[k] = lnbuf[k]
  BY <1>1, <1>2, SliceType, SMTT(30) DEF PartialLine, Return
<1>4. LineStart = fdpos - len /\ LineStart' = fdpos /\ Bytes' = Bytes
  BY <1>1, <1>2 DEF PartialLine, Return, LineStart, Unread, Held, Building, args, blocks, Bytes
<1>5. \A k \in 1 .. len : lnbuf[k] = Bytes[LineStart + k] /\ lnbuf[k] # NL
  BY <1>1 DEF IInv, BuildInv, Building
<1>6. LineStart' = LineStart + len /\ LineStart' = Len(Bytes)
  BY <1>1, <1>2, <1>4
<1>7. \A k \in 1 .. len : ret'[k] = Bytes[LineStart + k] /\ ret'[k] # NL
  BY <1>3, <1>5
<1>8. \A k \in 1 .. len - 1 : k \in 1 .. len
  BY <1>2
<1>9. pc' = "idle" /\ ln' = [ln EXCEPT !.len = Stripped(ret')]
  BY DEF PartialLine, Return
<1> QED
  BY <1>1, <1>2, <1>3, <1>4, <1>6, <1>7, <1>8, <1>9 DEF Handed

LEMMA FinishLineHands == IInv /\ FinishLine => Handed /\ lnbuf' \in Seq(Byte) /\ Len(lnbuf') <= lnbuflen'
<1> SUFFICES ASSUME IInv, FinishLine PROVE Handed /\ lnbuf' \in Seq(Byte) /\ Len(lnbuf') <= lnbuflen'
  OBVIOUS
<1>1. PICK n \in 1 .. bufrem :
        /\ NewlineAt(n) /\ len' = len + n /\ lnbuflen' = Grown(len + n)
        /\ lnbuf' = Copied(n) /\ Consume(n) /\ Return(Slice(lnbuf', 0, len'))
  BY DEF FinishLine
<1>2. pc = "scan" /\ off = len /\ len > 0 /\ Len(lnbuf) = off
  BY DEF IInv, FinishLine, BuildInv
<1>3. n \in Nat \ {0} /\ n <= bufrem /\ len \in Nat /\ bufrem \in Nat /\ fdpos \in Nat /\ lnbuflen \in Nat
  BY DEF IInv, Types
<1>4. /\ lnbuf' \in Seq(Byte) /\ Len(lnbuf') = len + n
      /\ \A k \in 1 .. len : lnbuf'[k] = lnbuf[k]
      /\ \A k \in 1 .. n : lnbuf'[len + k] = buffer[bufpos + k]
  BY <1>1, <1>2, <1>3, CopiedType DEF IInv
<1>5. /\ ret' \in Seq(Byte) /\ Len(ret') = len + n
      /\ \A k \in 1 .. len + n : ret'[k] = lnbuf'[k]
  <2>1. ret' = Slice(lnbuf', 0, len + n) /\ 0 + (len + n) <= Len(lnbuf') /\ len + n \in Nat
    BY <1>1, <1>3, <1>4 DEF Return
  <2>2. \A k \in 1 .. len + n : ret'[k] = lnbuf'[0 + k]
    BY <2>1 DEF Slice
  <2>3. Slice(lnbuf', 0, len + n) \in Seq(Byte) /\ Len(Slice(lnbuf', 0, len + n)) = len + n
    BY <2>1, <1>4, SliceType
  <2>4. \A k \in 1 .. len + n : 0 + k = k
    BY <1>3
  <2> QED
    BY <2>1, <2>2, <2>3, <2>4
<1>6. LineStart = fdpos - bufrem - len /\ LineStart' = fdpos - (bufrem - n) /\ Bytes' = Bytes
  BY <1>1, <1>2, <1>3 DEF FinishLine, Return, Consume, LineStart, Unread, Held, Building, args, Bytes
<1>7. fdpos <= Len(Bytes) /\ Len(Bytes) \in Nat
  BY <1>2, BytesType DEF IInv, PlaceInv, Active
<1>8. LineStart' = LineStart + (len + n) /\ LineStart' <= Len(Bytes)
  BY <1>3, <1>6, <1>7
<1>9. \A k \in 1 .. len : ret'[k] = Bytes[LineStart + k] /\ ret'[k] # NL
  <2>1. \A k \in 1 .. len : lnbuf[k] = Bytes[LineStart + k] /\ lnbuf[k] # NL
    BY <1>2 DEF IInv, BuildInv, Building
  <2> QED
    BY <2>1, <1>3, <1>4, <1>5
<1>10. \A k \in 1 .. n : ret'[len + k] = Bytes[LineStart + (len + k)] /\ (k < n => ret'[len + k] # NL)
  <2>1. \A k \in 1 .. bufrem : buffer[bufpos + k] = Bytes[fdpos - bufrem + k]
    BY <1>2 DEF IInv, BuildInv, Active, Unread
  <2>2. \A k \in 1 .. n : fdpos - bufrem + k = LineStart + (len + k) /\ len + k \in 1 .. len + n
    BY <1>3, <1>6
  <2>3. \A k \in 1 .. n : ret'[len + k] = buffer[bufpos + k]
    BY <2>2, <1>4, <1>5
  <2>4. \A k \in 1 .. n : k < n => buffer[bufpos + k] # NL
    BY <1>1, <1>3 DEF NewlineAt
  <2> QED
    BY <2>1, <2>2, <2>3, <2>4, <1>3
<1>11. ret'[len + n] = NL
  BY <1>1, <1>3, <1>4, <1>5 DEF NewlineAt
<1>12. \A k \in 1 .. len + n : k \in 1 .. len \/ (k - len \in 1 .. n /\ len + (k - len) = k)
  BY <1>3
<1>13. \A k \in 1 .. len + n : ret'[k] = Bytes[LineStart + k]
  BY <1>9, <1>10, <1>12
<1>14. \A k \in 1 .. (len + n) - 1 : ret'[k] # NL
  <2> TAKE k \in 1 .. (len + n) - 1
  <2>1. k \in 1 .. len + n /\ k - len < n
    BY <1>3
  <2> QED
    BY <2>1, <1>9, <1>10, <1>12
<1>15. Len(lnbuf') <= lnbuflen'
  BY <1>1, <1>3, <1>4 DEF Grown
<1>16. pc' = "idle" /\ ln' = [ln EXCEPT !.len = Stripped(ret')]
  BY <1>1 DEF Return
<1>17. Len(ret') > 0
  BY <1>3, <1>5
<1>18. Handed
  BY <1>5, <1>6, <1>8, <1>11, <1>13, <1>14, <1>16, <1>17 DEF Handed
<1> QED
  BY <1>4, <1>15, <1>18
-----------------------------------------------------------------------------
LEMMA EndOfFileInv == IInv /\ EndOfFile => IInv'
<1> SUFFICES ASSUME IInv, EndOfFile PROVE IInv'
  OBVIOUS
<1> USE DEF EndOfFile, args, blocks, lines
<1>1. Types'
  BY SMTT(30) DEF IInv, Types
<1>2. PlaceInv'
  BY DEF IInv, PlaceInv, Active
<1>3. BuildInv'
  BY DEF IInv, BuildInv, Active, Building
<1>4. ResultInv'
  BY DEF ResultInv, Active
<1> QED
  BY <1>1, <1>2, <1>3, <1>4 DEF IInv

LEMMA LineInBlockInv == IInv /\ LineInBlock => IInv'
<1> SUFFICES ASSUME IInv, LineInBlock PROVE IInv'
  OBVIOUS
<1>1. Handed /\ ResultInv' /\ ln' \in [off : Int, len : Nat] /\ ret' \in Seq(Byte)
  BY LineInBlockHands, HandedResult DEF LineInBlock, Handed
<1>2. PICK n \in 1 .. bufrem : Consume(n)
  BY DEF LineInBlock
<1>3. /\ n \in Nat /\ bufrem' = bufrem - n /\ bufpos' = bufpos + n /\ bufrem' \in Nat /\ bufpos' \in Nat
      /\ fdpos' = fdpos /\ buffer' = buffer /\ bufpos' + bufrem' = bufpos + bufrem
  BY <1>2 DEF Consume, IInv, Types
<1>4. pc = "grep_fgetln" /\ pc' = "idle" /\ UNCHANGED <<args, lines, binary>>
  BY <1>1 DEF LineInBlock, Handed
<1>5. Types'
  BY <1>1, <1>3, <1>4 DEF IInv, Types, args, lines
<1>6. PlaceInv'
  <2>1. Bytes' = Bytes /\ LineStart \in Nat /\ LineStart' = LineStart + Len(ret') /\ Len(ret') \in Nat
    BY <1>1, <1>4 DEF Handed, IInv, PlaceInv, Active
  <2>2. LineStart' \in Nat
    BY <2>1
  <2> QED
    BY <2>1, <2>2, <1>3, <1>4 DEF IInv, PlaceInv, Active, Building, args, lines
<1>7. BuildInv'
  <2>1. \A k \in 1 .. bufrem : buffer[bufpos + k] = Bytes[fdpos - bufrem + k]
    BY <1>4 DEF IInv, BuildInv, Active, Unread
  <2>2. \A k \in 1 .. bufrem' :
          n + k \in 1 .. bufrem /\ bufpos' + k = bufpos + (n + k) /\ fdpos' - bufrem' + k = fdpos - bufrem + (n + k)
    BY <1>2, <1>3 DEF IInv, Types
  <2>3. \A k \in 1 .. bufrem' : buffer'[bufpos' + k] = Bytes[fdpos' - bufrem' + k]
    BY <2>1, <2>2, <1>3
  <2> QED
    BY <2>3, <1>1, <1>4 DEF IInv, BuildInv, Active, Building, Unread, Handed, lines
<1> QED
  BY <1>1, <1>5, <1>6, <1>7 DEF IInv

(* A file that is mapped ends in a newline, so that its last line is found    *)
(* in the mapping.                                                          *)
LEMMA LineGoesOnInv == IInv /\ LineGoesOn => IInv'
<1> SUFFICES ASSUME IInv, LineGoesOn PROVE IInv'
  OBVIOUS
<1> USE DEF LineGoesOn, args, blocks, results
<1>1. bufrem \in Nat /\ bufrem > 0 /\ fdpos \in Nat /\ fdpos <= Len(Bytes) /\ Len(Bytes) \in Nat
  BY BytesType DEF IInv, Types, PlaceInv, Active
<1>2. \A k \in 1 .. bufrem : buffer[bufpos + k] = Bytes[fdpos - bufrem + k] /\ buffer[bufpos + k] # NL
  BY DEF IInv, BuildInv, Active, Unread, NoNewline
<1>3. filebehave # "MMAP"
  <2> SUFFICES ASSUME filebehave = "MMAP" PROVE FALSE
    OBVIOUS
  <2>1. files[file].kind = "regular" /\ fdpos = Len(Bytes) /\ "MMAP" \in Behaviours
    BY DEF IInv, Types, PlaceInv, Active
  <2>2. file \in 1 .. Len(files) /\ files \in Inputs /\ files \in Seq(File)
    BY BytesType, InputsAssumption DEF IInv, Types
  <2>3. EndsInNewline(files[file])
    BY <2>1, <2>2, BehavioursAssumption
  <2>4. Bytes = <<>> \/ Bytes[Len(Bytes)] = NL
    BY <2>3 DEF EndsInNewline, Bytes
  <2>5. Bytes # <<>> /\ fdpos - bufrem + bufrem = Len(Bytes) /\ bufrem \in 1 .. bufrem
    BY <1>1, <2>1 DEF IInv, PlaceInv, Active, LineStart, Unread, Held, Building
  <2> QED
    BY <1>2, <2>4, <2>5
<1>4. LineStart = fdpos - bufrem /\ LineStart' = LineStart /\ Bytes' = Bytes /\ Unread' = bufrem
  BY <1>1 DEF LineStart, Unread, Held, Building, Bytes
<1>5. Types'
  BY DEF IInv, Types
<1>6. PlaceInv'
  BY <1>1, <1>3, <1>4 DEF IInv, PlaceInv, Active
<1>7. BuildInv'
  BY <1>1, <1>2, <1>4 DEF IInv, BuildInv, Active, NoNewline, Building
<1>8. ResultInv'
  BY <1>4 DEF IInv, ResultInv, Active
<1> QED
  BY <1>5, <1>6, <1>7, <1>8 DEF IInv

LEMMA CopyInv == IInv /\ Copy => IInv'
<1> SUFFICES ASSUME IInv, Copy PROVE IInv'
  OBVIOUS
<1> USE DEF Copy, args, blocks, results
<1>1. len = off + bufrem /\ bufrem > 0 /\ NoNewline /\ len - off = bufrem
  BY DEF IInv, BuildInv, Types
<1>2. off \in Nat /\ len \in Nat /\ bufrem \in Nat /\ fdpos \in Nat /\ lnbuflen \in Nat
  BY DEF IInv, Types
<1>3. /\ lnbuf' \in Seq(Byte) /\ Len(lnbuf') = len
      /\ \A k \in 1 .. off : lnbuf'[k] = lnbuf[k]
      /\ \A k \in 1 .. bufrem : lnbuf'[off + k] = buffer[bufpos + k]
  BY <1>1, <1>2, CopiedType DEF IInv
<1>4. LineStart = fdpos - bufrem - off /\ LineStart' = fdpos - len /\ Unread' = 0 /\ Bytes' = Bytes
  BY <1>1, <1>2 DEF LineStart, Unread, Held, Building, Bytes
<1>5. LineStart' = LineStart
  BY <1>1, <1>2, <1>4
<1>6. len <= lnbuflen' /\ lnbuflen' \in Nat
  BY <1>1, <1>2, SizesAssumption DEF Grown
<1>7. \A k \in 1 .. len : lnbuf'[k] = Bytes[LineStart + k] /\ lnbuf'[k] # NL
  <2>1. \A k \in 1 .. off : lnbuf[k] = Bytes[LineStart + k] /\ lnbuf[k] # NL
    BY DEF IInv, BuildInv, Building
  <2>2. \A k \in 1 .. bufrem : buffer[bufpos + k] = Bytes[fdpos - bufrem + k] /\ buffer[bufpos + k] # NL
    BY <1>1 DEF IInv, BuildInv, Active, Unread, NoNewline
  <2>3. \A k \in 1 .. bufrem : fdpos - bufrem + k = LineStart + (off + k)
    BY <1>2, <1>4
  <2>4. \A k \in 1 .. len : k \in 1 .. off \/ (k - off \in 1 .. bufrem /\ off + (k - off) = k)
    BY <1>1, <1>2
  <2> QED
    BY <1>3, <2>1, <2>2, <2>3, <2>4
<1>8. Types'
  BY <1>2, <1>3, <1>6 DEF IInv, Types
<1>9. PlaceInv'
  BY <1>4, <1>5 DEF IInv, PlaceInv, Active, Building
<1>10. BuildInv'
  <2>1. pc' = "refill" /\ off' = len /\ len' = len /\ len > 0
    BY <1>1, <1>2
  <2>2. \A k \in 1 .. off' : lnbuf'[k] = (Bytes')[LineStart' + k] /\ lnbuf'[k] # NL
    BY <2>1, <1>4, <1>5, <1>7
  <2>3. \A k \in 1 .. Unread' : FALSE
    BY <1>4
  <2>4. Len(lnbuf') = off' /\ Len(lnbuf') <= lnbuflen'
    BY <2>1, <1>3, <1>6
  <2> QED
    BY <2>1, <2>2, <2>3, <2>4 DEF BuildInv
<1>11. ResultInv'
  BY <1>4, <1>5 DEF IInv, ResultInv, Active
<1> QED
  BY <1>8, <1>9, <1>10, <1>11 DEF IInv

LEMMA NextBlockInv == IInv /\ NextBlock => IInv'
<1> SUFFICES ASSUME IInv, NextBlock PROVE IInv'
  OBVIOUS
<1>1. pc = "refill" /\ pc' = "scan" /\ UNCHANGED <<args, lines, results, binary>>
  BY DEF NextBlock
<1>2. /\ buffer' \in Seq(Byte) /\ fdpos' \in Nat /\ bufpos' \in Nat /\ bufrem' \in Nat
      /\ bufpos' + bufrem' <= Len(buffer')
      /\ fdpos' = fdpos + bufrem' /\ fdpos' - bufrem' = fdpos /\ fdpos' <= Len(Bytes)
      /\ bufrem' = 0 => fdpos' = Len(Bytes)
      /\ \A k \in 1 .. bufrem' : buffer'[bufpos' + k] = Bytes[fdpos' - bufrem' + k]
  BY <1>1, RefillFacts DEF IInv, NextBlock
<1>3. LineStart = fdpos - off /\ LineStart' = LineStart /\ Bytes' = Bytes /\ Unread' = bufrem'
  <2>1. off \in Nat /\ off' = off /\ fdpos \in Nat /\ files' = files /\ file' = file
    BY <1>1 DEF args, lines, IInv, Types
  <2>2. LineStart = fdpos - 0 - off /\ LineStart' = fdpos' - bufrem' - off /\ Bytes' = Bytes /\ Unread' = bufrem'
    BY <1>1, <2>1 DEF LineStart, Unread, Held, Building, Bytes
  <2>3. fdpos' = fdpos + bufrem' /\ fdpos' \in Int /\ bufrem' \in Int /\ off \in Int /\ fdpos \in Int
    BY <1>2, <2>1
  <2>4. LineStart = fdpos - off
    BY <2>1, <2>2
  <2>5. LineStart' = fdpos - off
    <3>1. \A x, y, z \in Int : (x + y) - y - z = x - z
      OBVIOUS
    <3> QED
      BY <2>2, <2>3, <3>1
  <2> QED
    BY <2>2, <2>4, <2>5
<1> USE DEF args, lines, results
<1>4. Types'
  BY <1>1, <1>2 DEF IInv, Types
<1>5. PlaceInv'
  BY <1>1, <1>2, <1>3 DEF IInv, PlaceInv, Active, Building
<1>6. BuildInv'
  <2>1. \A k \in 1 .. off : lnbuf[k] = Bytes[LineStart + k] /\ lnbuf[k] # NL
    BY <1>1 DEF IInv, BuildInv, Building
  <2>2. off = len /\ len > 0 /\ Len(lnbuf) = off /\ Len(lnbuf) <= lnbuflen
    BY <1>1 DEF IInv, BuildInv
  <2> QED
    BY <1>1, <1>2, <1>3, <2>1, <2>2 DEF BuildInv, Building
<1>7. ResultInv'
  BY <1>1, <1>3 DEF IInv, ResultInv, Active
<1> QED
  BY <1>4, <1>5, <1>6, <1>7 DEF IInv

LEMMA PartialLineInv == IInv /\ PartialLine => IInv'
<1> SUFFICES ASSUME IInv, PartialLine PROVE IInv'
  OBVIOUS
<1>1. Handed /\ ResultInv' /\ ln' \in [off : Int, len : Nat] /\ ret' \in Seq(Byte)
  BY PartialLineHands, HandedResult DEF PartialLine, Handed
<1>2. pc = "scan" /\ pc' = "idle" /\ bufrem = 0 /\ UNCHANGED <<args, blocks, lines, binary>>
  BY <1>1 DEF PartialLine, Handed
<1> USE DEF args, blocks, lines
<1>3. Types'
  BY <1>1, <1>2 DEF IInv, Types
<1>4. PlaceInv'
  <2>1. Bytes' = Bytes /\ LineStart \in Nat /\ LineStart' = LineStart + Len(ret') /\ Len(ret') \in Nat
    BY <1>1, <1>2 DEF Handed, IInv, PlaceInv, Active
  <2>2. LineStart' \in Nat
    BY <2>1
  <2> QED
    BY <2>1, <2>2, <1>2 DEF IInv, PlaceInv, Active, Building
<1>5. BuildInv'
  BY <1>2 DEF IInv, BuildInv, Active, Building, Unread
<1> QED
  BY <1>1, <1>3, <1>4, <1>5 DEF IInv

LEMMA LineGoesOnFurtherInv == IInv /\ LineGoesOnFurther => IInv'
<1> SUFFICES ASSUME IInv, LineGoesOnFurther PROVE IInv'
  OBVIOUS
<1> USE DEF LineGoesOnFurther, args, blocks, results
<1>1. len' = off + bufrem /\ off = len /\ len > 0 /\ Len(lnbuf) = off
  BY DEF IInv, BuildInv
<1>2. LineStart' = LineStart /\ Bytes' = Bytes /\ Unread' = Unread
  BY DEF LineStart, Unread, Held, Building, Bytes
<1>3. Types'
  BY DEF IInv, Types
<1>4. PlaceInv'
  BY <1>2 DEF IInv, PlaceInv, Active, Building
<1>5. BuildInv'
  BY <1>1, <1>2 DEF IInv, BuildInv, Active, Building, NoNewline
<1>6. ResultInv'
  BY <1>2 DEF IInv, ResultInv, Active
<1> QED
  BY <1>3, <1>4, <1>5, <1>6 DEF IInv

LEMMA FinishLineInv == IInv /\ FinishLine => IInv'
<1> SUFFICES ASSUME IInv, FinishLine PROVE IInv'
  OBVIOUS
<1>1. /\ Handed /\ ResultInv' /\ ln' \in [off : Int, len : Nat] /\ ret' \in Seq(Byte)
      /\ lnbuf' \in Seq(Byte) /\ Len(lnbuf') <= lnbuflen'
  BY FinishLineHands, HandedResult DEF FinishLine, Handed
<1>2. PICK n \in 1 .. bufrem : Consume(n) /\ len' = len + n /\ lnbuflen' = Grown(len + n)
  BY DEF FinishLine
<1>3. /\ n \in Nat /\ bufrem' = bufrem - n /\ bufpos' = bufpos + n /\ bufrem' \in Nat /\ bufpos' \in Nat
      /\ fdpos' = fdpos /\ buffer' = buffer /\ bufpos' + bufrem' = bufpos + bufrem
  BY <1>2 DEF Consume, IInv, Types
<1>4. pc = "scan" /\ pc' = "idle" /\ UNCHANGED <<files, file, filebehave, off, binary>>
  BY <1>1 DEF FinishLine, Handed, args
<1>5. len' \in Nat /\ lnbuflen' \in Nat
  BY <1>2, <1>3 DEF IInv, Types, Grown
<1>6. Types'
  BY <1>1, <1>3, <1>4, <1>5 DEF IInv, Types
<1>7. PlaceInv'
  <2>1. Bytes' = Bytes /\ LineStart \in Nat /\ LineStart' = LineStart + Len(ret') /\ Len(ret') \in Nat
    BY <1>1, <1>4 DEF Handed, IInv, PlaceInv, Active
  <2>2. LineStart' \in Nat
    BY <2>1
  <2> QED
    BY <2>1, <2>2, <1>3, <1>4 DEF IInv, PlaceInv, Active, Building
<1>8. BuildInv'
  <2>1. \A k \in 1 .. bufrem : buffer[bufpos + k] = Bytes[fdpos - bufrem + k]
    BY <1>4 DEF IInv, BuildInv, Active, Unread
  <2>2. \A k \in 1 .. bufrem' :
          n + k \in 1 .. bufrem /\ bufpos' + k = bufpos + (n + k) /\ fdpos' - bufrem' + k = fdpos - bufrem + (n + k)
    BY <1>2, <1>3 DEF IInv, Types
  <2>3. \A k \in 1 .. bufrem' : buffer'[bufpos' + k] = Bytes[fdpos' - bufrem' + k]
    BY <2>1, <2>2, <1>3
  <2> QED
    BY <2>3, <1>1, <1>4 DEF BuildInv, Active, Building, Unread, Handed
<1> QED
  BY <1>1, <1>6, <1>7, <1>8 DEF IInv

LEMMA ErrorInv == IInv /\ (CallFails \/ ReadError) => IInv'
<1> SUFFICES ASSUME IInv, CallFails \/ ReadError PROVE IInv'
  OBVIOUS
<1>1. Error /\ pc \in {"idle", "refill"}
  BY DEF CallFails, ReadError
<1> USE DEF Error, RefillFails, args, lines
<1>2. Types'
  BY <1>1, SMTT(30) DEF IInv, Types
<1>3. PlaceInv'
  BY <1>1, SMTT(30) DEF IInv, Types, PlaceInv, Active
<1>4. BuildInv'
  BY <1>1 DEF IInv, BuildInv, Active, Building
<1>5. ResultInv'
  BY <1>1 DEF ResultInv, Active
<1> QED
  BY <1>2, <1>3, <1>4, <1>5 DEF IInv

LEMMA CloseInv == IInv /\ Close => IInv'
<1> SUFFICES ASSUME IInv, Close PROVE IInv'
  OBVIOUS
<1> USE DEF Close, Fresh, Dropped, args
<1>1. Types'
  <2>1. buffer' \in Seq(Byte) /\ lnbuf' \in Seq(Byte) /\ ret' \in Seq(Byte)
    BY DEF IInv, Types
  <2>2. ln' \in [off : Int, len : Nat]
    OBVIOUS
  <2> QED
    BY <2>1, <2>2 DEF IInv, Types
<1>2. PlaceInv'
  <2>1. Len(buffer') \in Nat
    BY DEF IInv, Types
  <2> QED
    BY <2>1 DEF PlaceInv, Active
<1>3. BuildInv'
  BY DEF BuildInv, Active, Building
<1>4. ResultInv'
  BY DEF ResultInv, Active
<1> QED
  BY <1>1, <1>2, <1>3, <1>4 DEF IInv
-----------------------------------------------------------------------------
LEMMA StepInv == IInv /\ [Next]_vars => IInv'
<1>1. IInv /\ UNCHANGED vars => IInv'
  BY DEF vars, args, blocks, lines, results, IInv, Types, PlaceInv, BuildInv, ResultInv, Active, Building,
         Bytes, LineStart, Unread, Held, NoNewline
<1> QED
  BY <1>1, CannotOpenInv, OpenMappedInv, OpenToReadInv, FirstBlockInv, NoFirstBlockInv, CallInv,
     EndOfFileInv, LineInBlockInv, LineGoesOnInv, CopyInv, NextBlockInv, PartialLineInv,
     LineGoesOnFurtherInv, FinishLineInv, ErrorInv, CloseInv
     DEF Next, Step

LEMMA Invariance == Spec => []IInv
BY InitInv, StepInv, PTL DEF Spec

(* Types, in all states of grep_open, grep_fgetln and grep_close.            *)
THEOREM TypeCorrect == Spec => []TypeOK
<1>1. IInv => TypeOK
  BY DEF IInv, Types, TypeOK
<1> QED
  BY <1>1, Invariance, PTL

(* Between the file and the caller no byte is lost or doubled, for every      *)
(* size of the blocks, and lnbuf is never written over its end.              *)
THEOREM NoByteLost == Spec => []BuffersHoldFile
<1>1. IInv => BuffersHoldFile
  <2> SUFFICES ASSUME IInv PROVE BuffersHoldFile
    OBVIOUS
  <2>1. pc = "closed" => bufrem = 0 /\ lnbuflen = 0
    BY DEF IInv, PlaceInv
  <2>2. pc \notin {"closed", "end", "error"} =>
          \A k \in 1 .. Unread : buffer[bufpos + k] = Bytes[fdpos - Unread + k]
    <3>1. CASE pc = "grep_open"
      BY <3>1 DEF IInv, PlaceInv, Unread
    <3>2. CASE pc \in Active
      BY <3>2 DEF IInv, BuildInv
    <3> QED
      BY <3>1, <3>2 DEF IInv, Types, Active
  <2>3. /\ Building => \A k \in 1 .. off : lnbuf[k] = Bytes[LineStart + k] /\ lnbuf[k] # NL
        /\ Len(lnbuf) <= lnbuflen
    BY DEF IInv, BuildInv
  <2> QED
    BY <2>1, <2>2, <2>3 DEF BuffersHoldFile
<1> QED
  BY <1>1, Invariance, PTL
-----------------------------------------------------------------------------
LEMMA SourceInit == Init => Source!Init
BY DEF Init, Source!Init, Source!NoLine, SourceState, SourceFile, SourceLine, LineStart

(* A step that returns a line hands over the next line of the source.        *)
LEMMA HandedIsGetLine ==
  ASSUME IInv, Handed, pc \in {"grep_fgetln", "scan"}, UNCHANGED <<files, file, binary>>
  PROVE  Source!GetLine
<1>1. ln'.off = LineStart
  BY HandedResult
<1>2. LineStart \in Nat /\ Len(ret') \in Nat /\ Len(Bytes) \in Nat /\ Bytes \in Seq(Byte)
  BY BytesType DEF IInv, PlaceInv, Active, Handed
<1> DEFINE e == LineStart + Len(ret')
<1>3. e \in LineStart + 1 .. Len(Bytes) /\ LineStart' = e /\ e - LineStart = Len(ret')
  BY <1>2 DEF Handed
<1>4. SourceState = "open" /\ SourceState' = "open" /\ SourceFile = file /\ SourceFile' = file
  BY DEF SourceState, SourceFile, Handed
<1>5. Source!Bytes = Bytes
  BY <1>4 DEF Source!Bytes, Bytes
<1>6. Source!IsEndOfLine(Bytes, LineStart, e)
  <2>1. e = Len(Bytes) \/ Bytes[e] = NL
    BY <1>2, <1>3 DEF Handed
  <2>2. ASSUME NEW k \in LineStart + 1 .. e - 1 PROVE Bytes[k] # NL
    <3>1. k - LineStart \in 1 .. Len(ret') - 1 /\ k - LineStart \in 1 .. Len(ret') /\ LineStart + (k - LineStart) = k
      BY <1>2
    <3> QED
      BY <3>1 DEF Handed
  <2> QED
    BY <1>3, <2>1, <2>2 DEF Source!IsEndOfLine
<1>7. ret' = Source!Slice(Bytes, LineStart, Len(ret'))
  <2>1. ret' = [k \in 1 .. Len(ret') |-> ret'[k]]
    BY DEF Handed
  <2>2. \A k \in 1 .. Len(ret') : ret'[k] = Bytes[LineStart + k]
    BY DEF Handed
  <2> QED
    BY <2>1, <2>2 DEF Source!Slice
<1>8. SourceLine' = [off |-> LineStart, bytes |-> ret']
  <2>1. ret' # <<>> /\ pc' = "idle"
    BY DEF Handed
  <2> QED
    BY <1>1, <2>1 DEF SourceLine
<1> HIDE DEF e
<1> QED
  BY <1>3, <1>4, <1>5, <1>6, <1>7, <1>8 DEF Source!GetLine

(* Any other step of a call leaves the source as it is.                      *)
LEMMA InsideIsStutter ==
  ASSUME IInv, IInv', pc \in Active, pc' \in Active \ {"idle"}, UNCHANGED <<files, file, binary, ret>>,
         LineStart' = LineStart
  PROVE  UNCHANGED Source!vars
<1>1. SourceState' = SourceState /\ SourceFile' = SourceFile
  BY DEF SourceState, SourceFile, Active
<1>2. ret # <<>> /\ pc = "idle" => ln.off = LineStart - Len(ret)
  BY DEF IInv, ResultInv
<1>3. SourceLine' = SourceLine
  BY <1>2 DEF SourceLine, Active
<1> QED
  BY <1>1, <1>3 DEF Source!vars

(* The first block starts where the file does.                               *)
LEMMA FirstBytes ==
  ASSUME NEW d \in Nat, NEW r \in Nat, NEW l \in Nat, d - r = 0, d <= l
  PROVE  \A k \in 1 .. r : d - r + k = k /\ k \in 1 .. l
<1>1. d = r /\ r <= l
  OBVIOUS
<1> QED
  BY <1>1

(* Opening a file, however it ends, opens it in the source.                  *)
LEMMA OpenIsSource == IInv /\ (CannotOpen \/ OpenMapped \/ FirstBlock \/ NoFirstBlock) => Source!Open
<1> SUFFICES ASSUME IInv, CannotOpen \/ OpenMapped \/ FirstBlock \/ NoFirstBlock PROVE Source!Open
  OBVIOUS
<1>0. SourceState = "closed" /\ ret = <<>> /\ binary = FALSE
  BY DEF CannotOpen, OpenMapped, FirstBlock, NoFirstBlock, IInv, ResultInv, SourceState
<1>1. CASE CannotOpen
  <2> USE DEF CannotOpen, results, blocks, lines
  <2>1. SourceFile = file /\ SourceFile' = file + 1 /\ file < Len(files)
    BY <1>1 DEF SourceFile
  <2>2. SourceState' = "closed" /\ LineStart' = 0 /\ SourceLine' = Source!NoLine /\ binary' = FALSE /\ files' = files
    BY <1>0, <1>1 DEF SourceState, LineStart, SourceLine, Source!NoLine
  <2>3. files[file + 1].fails
    <3>1. file + 1 \in 1 .. Len(files) /\ file + 1 \in DOMAIN files /\ files \in Inputs
      BY <2>1, InputsAssumption, SMTT(30) DEF IInv, Types
    <3> QED
      BY <1>1, <3>1, InputsAssumption DEF FileToOpen
  <2> QED
    BY <1>0, <2>1, <2>2, <2>3 DEF Source!Open
<1>2. CASE OpenMapped
  <2> USE DEF OpenMapped, Fresh
  <2>1. SourceFile = file /\ SourceFile' = file + 1 /\ file < Len(files)
    BY <1>2 DEF SourceFile
  <2>2. SourceState' = "open" /\ LineStart' = 0 /\ SourceLine' = Source!NoLine /\ files' = files
    BY <1>2 DEF SourceState, LineStart, Unread, Held, Building, SourceLine, Source!NoLine
  <2>3. Source!Bytes' = FileToOpen.bytes
    BY <2>1, <2>2 DEF Source!Bytes, FileToOpen
  <2>4. binary' \in BOOLEAN /\ (binary' => \E k \in DOMAIN Source!Bytes' : (Source!Bytes')[k] = NUL)
    <3>1. file + 1 \in 1 .. Len(files)
      BY <2>1 DEF IInv, Types
    <3>2. FileToOpen.bytes \in Seq(Byte)
      BY <3>1, InputTypes DEF FileToOpen, IInv, Types
    <3>3. binary' = \E k \in 1 .. Len(FileToOpen.bytes) : FileToOpen.bytes[0 + k] = NUL
      BY <1>2 DEF HasNul
    <3>4. \A k \in 1 .. Len(FileToOpen.bytes) : 0 + k = k
      OBVIOUS
    <3> QED
      BY <2>3, <3>2, <3>3, <3>4
  <2> QED
    BY <1>0, <2>1, <2>2, <2>4 DEF Source!Open
<1>3. CASE FirstBlock \/ NoFirstBlock
  <2>0. pc = "grep_open" /\ pc' \in {"idle", "closed"} /\ files' = files /\ file' = file /\ file \in 1 .. Len(files)
    BY <1>3, BytesType DEF FirstBlock, NoFirstBlock, args
  <2>1. SourceFile = file - 1 /\ SourceFile' = file /\ file = (file - 1) + 1 /\ file - 1 < Len(files)
    BY <2>0 DEF SourceFile, IInv, Types
  <2>2. CASE FirstBlock
    <3>1. /\ bufrem' \in Nat /\ fdpos' \in Nat /\ fdpos' - bufrem' = 0 /\ fdpos' <= Len(Bytes)
          /\ \A k \in 1 .. bufrem' : buffer'[bufpos' + k] = Bytes[fdpos' - bufrem' + k]
      BY <2>0, <2>2, RefillFacts DEF IInv, FirstBlock, PlaceInv
    <3>0. LineStart' = 0
      <4>1. LineStart' = fdpos' - bufrem' - 0
        BY <2>2 DEF FirstBlock, LineStart, Unread, Held, Building
      <4>2. fdpos' - bufrem' = 0
        BY <3>1
      <4> QED
        BY <4>1, <4>2
    <3>2. SourceState' = "open" /\ LineStart' = 0 /\ SourceLine' = Source!NoLine
      BY <2>2, <3>0 DEF FirstBlock, Fresh, SourceState, SourceLine, Source!NoLine
    <3>3. Source!Bytes' = Bytes /\ Bytes \in Seq(Byte)
      BY <2>0, <2>1, BytesType DEF Source!Bytes, Bytes
    <3>4. \A k \in 1 .. bufrem' : fdpos' - bufrem' + k = k /\ k \in 1 .. Len(Bytes)
      <4>1. fdpos' \in Nat /\ bufrem' \in Nat /\ fdpos' - bufrem' = 0 /\ fdpos' <= Len(Bytes)
        BY <3>1
      <4>2. Len(Bytes) \in Nat
        BY <3>3
      <4> QED
        BY ONLY <4>1, <4>2, FirstBytes
    <3>5. binary' = \E k \in 1 .. bufrem' : buffer'[bufpos' + k] = NUL
      BY <2>2 DEF FirstBlock, HasNul
    <3>6. binary' \in BOOLEAN /\ (binary' => \E k \in DOMAIN Source!Bytes' : (Source!Bytes')[k] = NUL)
      <4>1. ASSUME NEW k \in 1 .. bufrem', buffer'[bufpos' + k] = NUL PROVE k \in DOMAIN Bytes /\ Bytes[k] = NUL
        <5>1. k \in 1 .. Len(Bytes) /\ fdpos' - bufrem' + k = k
          BY <3>4
        <5>2. buffer'[bufpos' + k] = Bytes[k]
          BY <3>1, <5>1
        <5> QED
          BY <3>3, <4>1, <5>1, <5>2
      <4>2. binary' \in BOOLEAN /\ (binary' => \E k \in DOMAIN Bytes : Bytes[k] = NUL)
        BY <3>5, <4>1
      <4> QED
        BY <3>3, <4>2
    <3> QED
      BY <1>0, <2>0, <2>1, <3>2, <3>6 DEF Source!Open
  <2>3. CASE NoFirstBlock
    <3>1. /\ SourceState' = "closed" /\ LineStart' = 0 /\ SourceLine' = Source!NoLine
          /\ binary' = FALSE /\ files[file].fails
      BY <1>0, <2>3 DEF NoFirstBlock, RefillFails, results, SourceState, LineStart, SourceLine, Source!NoLine
    <3> QED
      BY <1>0, <2>0, <2>1, <3>1 DEF Source!Open
  <2> QED
    BY <1>3, <2>2, <2>3
<1> QED
  BY <1>1, <1>2, <1>3

LEMMA OpenToReadIsStutter == IInv /\ OpenToRead => UNCHANGED Source!vars
<1> SUFFICES ASSUME IInv, OpenToRead PROVE UNCHANGED Source!vars
  OBVIOUS
<1>1. SourceFile' = SourceFile
  BY DEF OpenToRead, SourceFile, IInv, Types
<1>2. UNCHANGED <<files, SourceState, LineStart, SourceLine, binary>>
  BY DEF OpenToRead, SourceState, LineStart, SourceLine, results
<1> QED
  BY <1>1, <1>2 DEF Source!vars

LEMMA CallIsStutter == IInv /\ Call => UNCHANGED Source!vars
<1> SUFFICES ASSUME IInv, Call PROVE UNCHANGED Source!vars
  OBVIOUS
<1>1. pc = "idle" /\ pc' = "grep_fgetln" /\ UNCHANGED <<args, ret, binary>> /\ IInv'
  BY CallInv DEF Call
<1>2. fdpos' - bufrem' = fdpos - bufrem
  <2>1. CASE bufrem = 0
    BY <1>1, <2>1, RefillFacts DEF IInv, Call, Types
  <2>2. CASE bufrem # 0
    BY <2>2 DEF Call, blocks
  <2> QED
    BY <2>1, <2>2
<1>3. LineStart' = LineStart
  <2>1. /\ fdpos \in Int /\ bufrem \in Int /\ fdpos' \in Int /\ bufrem' \in Int
        /\ LineStart = fdpos - bufrem - 0 /\ LineStart' = fdpos' - bufrem' - 0
    BY <1>1 DEF IInv, Types, LineStart, Unread, Held, Building
  <2> QED
    BY <1>2, <2>1
<1> QED
  BY <1>1, <1>3, InsideIsStutter DEF args, Active

LEMMA EndIsSource == IInv /\ EndOfFile => Source!End
<1> SUFFICES ASSUME IInv, EndOfFile PROVE Source!End
  OBVIOUS
<1>1. /\ SourceState = "open" /\ SourceState' = "end" /\ SourceFile = file /\ SourceFile' = file
      /\ SourceLine' = Source!NoLine /\ LineStart' = 0 /\ UNCHANGED <<files, binary>>
  BY DEF EndOfFile, SourceState, SourceFile, SourceLine, Source!NoLine, LineStart, args
<1>2. LineStart = Len(Bytes)
  <2>1. LineStart = fdpos - 0 - 0 /\ fdpos = Len(Bytes) /\ fdpos \in Int
    BY DEF EndOfFile, IInv, Types, PlaceInv, LineStart, Unread, Held, Building
  <2> QED
    BY <2>1
<1>3. Source!Bytes = Bytes
  BY <1>1 DEF Source!Bytes, Bytes
<1> QED
  BY <1>1, <1>2, <1>3 DEF Source!End

LEMMA ErrorIsSource == IInv /\ (CallFails \/ ReadError) => Source!Fail
<1> SUFFICES ASSUME IInv, CallFails \/ ReadError PROVE Source!Fail
  OBVIOUS
<1>1. Error /\ pc \in {"idle", "refill"}
  BY DEF CallFails, ReadError
<1>2. /\ SourceState = "open" /\ SourceState' = "error" /\ SourceFile = file /\ SourceFile' = file
      /\ SourceLine' = Source!NoLine /\ LineStart' = 0 /\ UNCHANGED <<files, binary>>
  BY <1>1 DEF Error, SourceState, SourceFile, SourceLine, Source!NoLine, LineStart, args
<1>3. files[file].fails
  BY <1>1 DEF Error, RefillFails
<1> QED
  BY <1>2, <1>3 DEF Source!Fail

LEMMA CloseIsSource == IInv /\ Close => Source!Close
<1> SUFFICES ASSUME IInv, Close PROVE Source!Close
  OBVIOUS
<1>1. /\ SourceState \in {"open", "end", "error"} /\ SourceState' = "closed"
      /\ SourceFile = file /\ SourceFile' = file
      /\ SourceLine' = Source!NoLine /\ LineStart' = 0 /\ binary' = FALSE /\ UNCHANGED files
  BY DEF Close, Fresh, SourceState, SourceFile, SourceLine, Source!NoLine, LineStart, args
<1> QED
  BY <1>1 DEF Source!Close

LEMMA SourceStep == IInv /\ [Next]_vars => [Source!Next]_(Source!vars)
<1> SUFFICES ASSUME IInv, [Next]_vars PROVE Source!Next \/ UNCHANGED Source!vars
  OBVIOUS
<1>0. IInv'
  BY StepInv
<1>1. CASE CannotOpen \/ OpenMapped \/ FirstBlock \/ NoFirstBlock
  BY <1>1, OpenIsSource DEF Source!Next
<1>2. CASE OpenToRead \/ Call
  BY <1>2, OpenToReadIsStutter, CallIsStutter
<1>3. CASE EndOfFile \/ CallFails \/ ReadError \/ Close
  BY <1>3, EndIsSource, ErrorIsSource, CloseIsSource DEF Source!Next
<1>4. CASE LineInBlock \/ PartialLine \/ FinishLine
  <2>1. Handed /\ pc \in {"grep_fgetln", "scan"} /\ UNCHANGED <<files, file, binary>>
    BY <1>4, LineInBlockHands, PartialLineHands, FinishLineHands DEF LineInBlock, PartialLine, FinishLine, args
  <2> QED
    BY <2>1, HandedIsGetLine DEF Source!Next
<1>5. CASE LineGoesOn \/ Copy \/ LineGoesOnFurther \/ NextBlock
  <2>1. /\ pc \in Active /\ pc' \in Active \ {"idle"} /\ UNCHANGED <<files, file, binary, ret>>
    BY <1>5 DEF LineGoesOn, Copy, LineGoesOnFurther, NextBlock, Active, args, results
  <2>2. LineStart' = LineStart
    <3>1. CASE LineGoesOn \/ LineGoesOnFurther
      BY <3>1 DEF LineGoesOn, LineGoesOnFurther, blocks, LineStart, Unread, Held, Building, IInv, Types
    <3>2. CASE Copy
      <4>1. /\ fdpos \in Int /\ bufrem \in Int /\ off \in Int
            /\ LineStart = fdpos - bufrem - off /\ LineStart' = fdpos - 0 - (off + bufrem)
        BY <3>2 DEF Copy, blocks, LineStart, Unread, Held, Building, IInv, Types, BuildInv
      <4> QED
        BY <4>1
    <3>3. CASE NextBlock
      <4>1. fdpos' = fdpos + bufrem'
        BY <3>3, RefillFacts DEF NextBlock, IInv
      <4>2. /\ fdpos \in Int /\ bufrem' \in Int /\ off \in Int
            /\ LineStart = fdpos - 0 - off /\ LineStart' = fdpos' - bufrem' - off
        BY <1>0, <3>3 DEF NextBlock, lines, LineStart, Unread, Held, Building, IInv, Types
      <4>3. \A x, y, z \in Int : (x + y) - y - z = x - 0 - z
        OBVIOUS
      <4> QED
        BY <4>1, <4>2, <4>3
    <3> QED
      BY <1>5, <3>1, <3>2, <3>3
  <2> QED
    BY <1>0, <2>1, <2>2, InsideIsStutter
<1>6. CASE UNCHANGED vars
  BY <1>6 DEF vars, args, blocks, lines, results, Source!vars, SourceState, SourceFile, SourceLine, LineStart,
              Unread, Held, Building
<1> QED
  BY <1>1, <1>2, <1>3, <1>4, <1>5, <1>6 DEF Next, Step

(* The reader implements the source of lines: procfile sees each line of each *)
(* file whole, once, in order and with its offset, until the file ends, fails  *)
(* or is closed.                                                            *)
THEOREM LinesOfTheFile == Spec => ImplementsLineSource
<1>1. Spec => Source!Init /\ [][Source!Next]_(Source!vars)
  BY SourceInit, SourceStep, Invariance, PTL DEF Spec
<1> QED
  BY <1>1 DEF ImplementsLineSource, Source!Spec
=============================================================================
