---------------------------- MODULE RegexParser -----------------------------
(***************************************************************************)
(* The one-character-at-a-time reader of regex-parser.c, which every part   *)
(* of the compiler runs over the pattern: it carries one bit of state, that *)
(* the previous character was an escaping backslash, and answers for each   *)
(* character whether it is plain text, to be skipped, special or wrong.     *)
(* Characters are one-character strings; a newline is "NL".                *)
(***************************************************************************)
EXTENDS Naturals, Sequences

Backslash == "\\"
Newline == "NL"

(* Special unless escaped, in basic and in extended syntax. *)
AlwaysSpecial ==
  [c \in {".", "[", "^", "$", "*"} |->
     CASE c = "." -> "SPEC_DOT"   [] c = "[" -> "SPEC_BRACKET" [] c = "^" -> "SPEC_CARET"
       [] c = "$" -> "SPEC_DOLLAR" [] c = "*" -> "SPEC_ASTERISK"]

(* Special if escaped in basic syntax, if not escaped in extended syntax. *)
SyntaxSpecial ==
  [c \in {"+", "?", "(", "|", "{"} |->
     CASE c = "+" -> "SPEC_PLUS"  [] c = "?" -> "SPEC_QMARK" [] c = "(" -> "SPEC_PAREN"
       [] c = "|" -> "SPEC_PIPE"  [] c = "{" -> "SPEC_CURLYBRACE"]

(* What the reader answers to c when escaped holds before it. *)
Reads(c, escaped, extended) ==
  CASE c = Backslash               -> IF escaped THEN "NORMAL_CHAR" ELSE "SHOULD_SKIP"
    [] c = Newline                 -> IF escaped THEN "BAD_PATTERN" ELSE "NORMAL_NEWLINE"
    [] c \in DOMAIN AlwaysSpecial  -> IF escaped THEN "NORMAL_CHAR" ELSE AlwaysSpecial[c]
    [] c \in DOMAIN SyntaxSpecial  -> IF escaped # extended THEN SyntaxSpecial[c]
                                      ELSE "NORMAL_CHAR"
    [] OTHER                       -> IF ~ escaped THEN "NORMAL_CHAR"
                                      ELSE IF c = "n" THEN "NORMAL_NEWLINE"
                                      ELSE "BAD_PATTERN"

(* Whether a character leaves the reader in the escaped state. *)
Escapes(c, escaped) == c = Backslash /\ ~ escaped

(* Character n of the pattern s is read in the escaped state. *)
EscapedAt(s) ==
  LET esc[n \in 1 .. Len(s) + 1] == n > 1 /\ Escapes(s[n - 1], esc[n - 1])
  IN esc

(* The answers to all characters of s, read from the initial state. *)
Answers(s, extended) == [n \in DOMAIN s |-> Reads(s[n], EscapedAt(s)[n], extended)]

Plain == {"NORMAL_CHAR", "NORMAL_NEWLINE", "SHOULD_SKIP"}

(* is_pattern_literal of compile.c: nothing in s is special or wrong. *)
IsPatternLiteral(s, extended) == \A n \in DOMAIN s : Answers(s, extended)[n] \in Plain

(* The text a pattern of plain characters stands for, as strip_specials     *)
(* assembles it: escaping backslashes left out, "\n" read as a newline.     *)
StandsFor(s, extended) ==
  LET a == Answers(s, extended)
      out[n \in 0 .. Len(s)] ==
        IF n = 0 THEN <<>>
        ELSE CASE a[n] = "NORMAL_CHAR"    -> Append(out[n - 1], s[n])
               [] a[n] = "NORMAL_NEWLINE" -> Append(out[n - 1], Newline)
               [] OTHER                   -> out[n - 1]
  IN out[Len(s)]

(* strip_specials takes the length of the pattern before it steps over a    *)
(* leading '^', so that it then reads as many characters: the terminator    *)
(* becomes part of the stripped pattern.                                   *)
StepsOverCaret(s) == s # <<>> /\ Head(s) = "^"
Stripped(s) == IF StepsOverCaret(s) THEN Append(Tail(s), "NUL") ELSE s

EndsWithDollar(s) ==
  LET n == Len(Stripped(s))
  IN n >= 1 /\ Stripped(s)[n] = "$" /\ (n = 1 \/ Stripped(s)[n - 1] # Backslash)
=============================================================================
