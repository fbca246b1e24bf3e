---------------------------- MODULE MCLineReader ----------------------------
(* One file of up to six bytes, or two short ones, of any kind; blocks of     *)
(* up to three bytes.                                                      *)
EXTENDS LineReader

MCMAXBUFSIZ == 3
MCLNBUFBUMP == 1

Contents(bytes, max) == UNION {[1 .. n -> bytes] : n \in 0 .. max}
Reads(kind, contents, fails) == {[kind |-> kind, bytes |-> bs, fails |-> fails] : bs \in contents}
Missing == [kind |-> "missing", bytes |-> <<>>, fails |-> TRUE]

Maps(contents) == {f \in Reads("regular", contents, FALSE) : EndsInNewline(f)}
Alone == Reads("other", Contents({"x", NL}, 6), FALSE) \cup Maps(Contents({"x", NL}, 5))
          \cup Reads("other", Contents({"x", NL, NUL}, 4), TRUE)
Second == Reads("other", Contents({"x", NL, NUL}, 2), FALSE) \cup Maps(Contents({"x", NL, NUL}, 2))
First == {Missing} \cup Reads("other", Contents({"x", NL}, 3), TRUE) \cup Maps(Contents({"x", NL}, 3))

MCInputs == {<<f>> : f \in Alone} \cup {<<f, g>> : f \in First, g \in Second}
=============================================================================
