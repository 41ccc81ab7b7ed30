----------------------------- MODULE Characters -----------------------------
(* The classes of characters <ctype.h> tells apart, as far as the           *)
(* assembler's input needs them.                                            *)
LOCAL INSTANCE Naturals
LOCAL INSTANCE Sequences

Digit == { "0", "1", "2", "3", "4", "5", "6", "7", "8", "9" }
Lower == { "a", "b", "c", "d", "e", "f", "g", "h", "i", "j", "k", "l", "m",
           "n", "o", "p", "q", "r", "s", "t", "u", "v", "w", "x", "y", "z" }
Upper == { "A", "B", "C", "D", "E", "F", "G", "H", "I", "J", "K", "L", "M",
           "N", "O", "P", "Q", "R", "S", "T", "U", "V", "W", "X", "Y", "Z" }
Alpha == Lower \cup Upper
HexDigit == Digit \cup { "a", "b", "c", "d", "e", "f" }
                  \cup { "A", "B", "C", "D", "E", "F" }
Newline == "\n"
Space == { " ", "\t", Newline }
Quote == "\""
Backslash == "\\"

(* All characters of a sequence from position n on are in set. *)
AllFrom(seq, n, set) == \A i \in n .. Len(seq) : seq[i] \in set
=============================================================================
