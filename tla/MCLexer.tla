------------------------------ MODULE MCLexer ------------------------------
(* All texts of two characters, and longer ones of the characters that lead *)
(* into the same part of the scanner: numbers, texts with escapes and       *)
(* newlines, comments, names and labels.  Tokens may be two characters too  *)
(* long for the buffer.                                                     *)
EXTENDS Lexer

Upto(set, n) == UNION { [1 .. k -> set] : k \in 0 .. n }

MCInputs ==
  Upto({ "l", "e", "L", "0", "x", ".", "-", ":", "@", "#", "?", " ", Newline,
         Quote, Backslash }, 2)
    \cup Upto({ "l", "e", " " }, 5)
    \cup Upto({ "0", "x", ".", "-" }, 4)
    \cup Upto({ Quote, Backslash, Newline }, 5)
    \cup Upto({ Quote, " ", "l" }, 4)
    \cup Upto({ "#", Newline, "e" }, 4)
    \cup Upto({ "l", "@", ":", "." }, 3)

(* Texts of names only, some longer than the buffer.                        *)
NameTexts == Upto({ "l", " " }, 5)

MCOpcodeNames == { << "l", "e" >>, << "e", "q" >> }
MCKeywordNames == { << ".", "l" >> }
=============================================================================
