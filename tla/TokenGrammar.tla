---------------------------- MODULE TokenGrammar ----------------------------
(***************************************************************************)
(* The tokens of a text as docs/lexer-description.md describes them, and a *)
(* client that looks at the next token or takes it, without a scanner.     *)
(* DocumentedType is what the description says.  TokenAt is what the      *)
(* client gets, which departs from it in four places (Departs):            *)
(*   - a register (C:0) is UNKNOWN;                                        *)
(*   - a minus sign is a number before it has digits (- and -.5);          *)
(*   - a token of Capacity + 1 characters at the very end is not TOO_BIG;  *)
(*   - a text of Capacity characters is, where a newline breaks it.        *)
(* The description does not say where the token after an overlong one      *)
(* begins; it is after Capacity + 1 characters.                            *)
(*                                                                         *)
(* The regular expressions in the last section of the description, and     *)
(* above ni_get_next_token, say other things than its prose does, in which *)
(* the scanner follows the prose: integers may start with zeros,           *)
(* hexadecimal digits may be in lower case, a keyword has lower-case       *)
(* letters, digits and minus signs (.L is UNKNOWN, not UNRECOGNIZED_KW),   *)
(* and strings have any length.  Those in the code leave out labels.       *)
(***************************************************************************)
EXTENDS Integers, Sequences, FiniteSetsExt, Characters

CONSTANTS
  OpcodeNames,    (* the names in OPCODE_TABLE                             *)
  KeywordNames,   (* the names in KEYWORD_TABLE                            *)
  Capacity        (* LEXEME_BUFFER_SIZE                                    *)

VARIABLES
  text,   (* what is read                                                  *)
  at,     (* how many characters of it the tokens taken stand for          *)
  out     (* the last token the client was given                           *)

gvars == << text, at, out >>

-----------------------------------------------------------------------------
(* Lexemes. *)
Name(s) ==
  /\ s # << >>
  /\ s[1] \in Alpha
  /\ AllFrom(s, 2, Alpha \cup Digit \cup { "-" })

Register(s) ==
  /\ Len(s) > 2
  /\ s[1] \in { "C", "G", "L" } /\ s[2] = ":"
  /\ AllFrom(s, 3, Digit)

Decimal(s) ==
  /\ s # << >> /\ s # << "-" >>
  /\ s[1] \in Digit \cup { "-" }
  /\ AllFrom(s, 2, Digit)

Hexadecimal(s) ==
  /\ Len(s) > 2
  /\ s[1] = "0" /\ s[2] = "x"
  /\ AllFrom(s, 3, HexDigit)

Real(s) ==
  \E dot \in 2 .. Len(s) - 1 :
    /\ s[dot] = "."
    /\ Decimal(SubSeq(s, 1, dot - 1))
    /\ AllFrom(s, dot + 1, Digit)

(* Between positions from and i of s an odd number of backslashes leads up  *)
(* to position i.                                                           *)
Escaped(s, from, i) ==
  \E n \in 1 .. i - from :
    /\ n % 2 = 1
    /\ \A k \in i - n .. i - 1 : s[k] = Backslash
    /\ i - n = from \/ s[i - n - 1] # Backslash

Closes(s, i) == s[i] = Quote /\ ~Escaped(s, 2, i)

Text(s) ==
  /\ Len(s) > 1
  /\ s[1] = Quote
  /\ Closes(s, Len(s))
  /\ \A i \in 2 .. Len(s) - 1 :
       ~Closes(s, i) /\ (s[i] = Newline => Escaped(s, 2, i))

(* The type that is documented: s has the form, what is stored of it is     *)
(* looked up.                                                               *)
DocumentedClass(s, stored) ==
  CASE Register(s) -> "REGISTER"
    [] Name(s) -> IF stored \in OpcodeNames THEN "OPCODE"
                   ELSE "UNRECOGNIZED_OPCODE"
    [] Len(s) > 1 /\ s[Len(s)] = ":" /\ Name(SubSeq(s, 1, Len(s) - 1)) ->
         "LABEL_DEF"
    [] s[1] = "@" /\ Name(Tail(s)) -> "LABEL"
    [] s[1] = "." /\ AllFrom(s, 2, Lower \cup Digit \cup { "-" }) ->
         IF stored \in KeywordNames THEN "KEYWORD" ELSE "UNRECOGNIZED_KW"
    [] Decimal(s) -> "DEC_INTEGER"
    [] Hexadecimal(s) -> "HEX_INTEGER"
    [] Real(s) -> "REAL"
    [] Text(s) -> "STRING"
    [] OTHER -> "UNKNOWN"

(* A real number without digits before its point. *)
MinusPoint(s) ==
  /\ Len(s) > 2
  /\ s[1] = "-" /\ s[2] = "."
  /\ AllFrom(s, 3, Digit)

(* The type that is given. *)
Class(s, stored) ==
  CASE Register(s) -> "UNKNOWN"
    [] s = << "-" >> -> "DEC_INTEGER"
    [] MinusPoint(s) -> "REAL"
    [] OTHER -> DocumentedClass(s, stored)

-----------------------------------------------------------------------------
(* Positions count the characters before them. *)
Ends == Len(text)

(* Character b + 1 is a space, or in a comment begun since position a. *)
Blank(a, b) ==
  \/ text[b + 1] \in Space
  \/ \E c \in a .. b :
       text[c + 1] = "#" /\ \A k \in c .. b : text[k + 1] # Newline

Begin(a) == Min({ b \in a .. Ends : b = Ends \/ ~Blank(a, b) })

(* Where the first space from b on is. *)
WordEnd(b) == Min({ e \in b .. Ends : e = Ends \/ text[e + 1] \in Space })

(* Where the text that is opened by the quote at b stops. *)
TextStop(b) ==
  Min({ e \in b + 1 .. Ends :
          \/ e = Ends
          \/ text[e + 1] \in { Quote, Newline } /\ ~Escaped(text, b + 2, e + 1) })

Broken(b) ==
  text[b + 1] = Quote /\ TextStop(b) < Ends /\ text[TextStop(b) + 1] = Newline

End(b) ==
  IF text[b + 1] # Quote THEN WordEnd(b)
  ELSE IF Broken(b) THEN TextStop(b)
  ELSE WordEnd(TextStop(b))

(* The characters the scanner looks at: with the newline that breaks a text. *)
Looked(b) == End(b) - b + IF Broken(b) THEN 1 ELSE 0

(* Where the token that begins at b is cut off. *)
Cut(b) == IF Looked(b) <= Capacity THEN End(b) ELSE Min({ End(b), b + Capacity + 1 })

(* The token is too big for the buffer, and it is reported to be.           *)
TooBig(b) == End(b) - b > Capacity
Reported(b) == Looked(b) > Capacity /\ Cut(b) < Ends

Lexeme(b) == SubSeq(text, b + 1, Min({ End(b), b + Capacity }))

TokenAt(a) ==
  LET b == Begin(a)
  IN  IF b = Ends THEN [type |-> "EOF", lexeme |-> << >>]
      ELSE [type   |-> IF Reported(b) THEN "TOO_BIG"
                       ELSE Class(SubSeq(text, b + 1, End(b)), Lexeme(b)),
            lexeme |-> Lexeme(b)]

DocumentedType(a) ==
  LET b == Begin(a)
  IN  IF b = Ends THEN "EOF"
      ELSE IF TooBig(b) THEN "TOO_BIG"
      ELSE DocumentedClass(SubSeq(text, b + 1, End(b)), Lexeme(b))

(* Where the two types are not the same. *)
Departs(a) ==
  LET b == Begin(a)
      s == SubSeq(text, b + 1, End(b))
  IN  /\ b # Ends
      /\ \/ TooBig(b) # Reported(b)
         \/ ~Reported(b) /\ (Register(s) \/ s = << "-" >> \/ MinusPoint(s))

After(a) == IF Begin(a) = Ends THEN Ends ELSE Cut(Begin(a))

(* Peeking tells no more than the type. *)
TypeAt(a) == [type |-> TokenAt(a).type, lexeme |-> << >>]

-----------------------------------------------------------------------------
Look == out' \in { TokenAt(at), TypeAt(at) } /\ UNCHANGED << text, at >>
Take == out' = TokenAt(at) /\ at' = After(at) /\ UNCHANGED text
Drop == at' = After(at) /\ UNCHANGED << text, out >>

TokenInit == at = 0 /\ out = [type |-> "UNKNOWN", lexeme |-> << >>]
TokenSpec == TokenInit /\ [][Look \/ Take \/ Drop]_gvars
=============================================================================
