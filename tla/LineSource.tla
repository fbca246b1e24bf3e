----------------------------- MODULE LineSource -----------------------------
(***************************************************************************)
(* What procfile expects of grep_open, grep_fgetln and grep_close: each file *)
(* is a source of lines, which come in order, each with the newline that     *)
(* ends it if there is one, and none is left out, split, joined with another *)
(* or mixed with another file.  A file that cannot be read any more ends     *)
(* early, and it may be closed at any time between two lines.               *)
(***************************************************************************)
EXTENDS Integers, Sequences

CONSTANTS Inputs,   \* the lists of files that are read
          NL, NUL   \* newline and '\0'

VARIABLES files,
          file,     \* the file that is, or was last, opened
          state,    \* "closed", "open", "end" behind the last line, or "error"
          at,       \* bytes that were handed over
          line,     \* the last line that was handed over, and where it begins
          binary

vars == <<files, file, state, at, line, binary>>

Bytes == files[file].bytes

(* The last byte of the line that starts behind the first n bytes of bs.     *)
IsEndOfLine(bs, n, e) ==
  /\ e \in n + 1 .. Len(bs)
  /\ e = Len(bs) \/ bs[e] = NL
  /\ \A k \in n + 1 .. e - 1 : bs[k] # NL

Slice(bs, from, n) == [k \in 1 .. n |-> bs[from + k]]

NoLine == [off |-> 0, bytes |-> <<>>]

Init ==
  /\ files \in Inputs
  /\ file = 0 /\ state = "closed" /\ at = 0 /\ line = NoLine /\ binary = FALSE

Open ==
  /\ state = "closed" /\ file < Len(files)
  /\ file' = file + 1
  /\ binary' \in BOOLEAN
  /\ binary' => \E k \in DOMAIN Bytes' : Bytes'[k] = NUL
  /\ state' = "open" \/ (state' = "closed" /\ files[file'].fails)
  /\ at' = 0 /\ line' = NoLine
  /\ UNCHANGED files

GetLine ==
  /\ state = "open"
  /\ \E e \in at + 1 .. Len(Bytes) :
       /\ IsEndOfLine(Bytes, at, e)
       /\ line' = [off |-> at, bytes |-> Slice(Bytes, at, e - at)]
       /\ at' = e
  /\ UNCHANGED <<files, file, state, binary>>

End ==
  /\ state = "open" /\ at = Len(Bytes)
  /\ state' = "end" /\ at' = 0 /\ line' = NoLine
  /\ UNCHANGED <<files, file, binary>>

Fail ==
  /\ state = "open" /\ files[file].fails
  /\ state' = "error" /\ at' = 0 /\ line' = NoLine
  /\ UNCHANGED <<files, file, binary>>

Close ==
  /\ state \in {"open", "end", "error"}
  /\ state' = "closed" /\ at' = 0 /\ line' = NoLine /\ binary' = FALSE
  /\ UNCHANGED <<files, file>>

Next == Open \/ GetLine \/ End \/ Fail \/ Close

Spec == Init /\ [][Next]_vars
=============================================================================
