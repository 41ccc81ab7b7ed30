---------------------------- MODULE LexerProofs ----------------------------
(***************************************************************************)
(* Theorems about Lexer, for all texts, tables of names and sizes of the   *)
(* lexeme buffer.                                                          *)
(***************************************************************************)
EXTENDS Lexer, SequenceTheorems, WellFoundedInduction, TLAPS

NameChar == Alpha \cup Digit \cup { "-" }
KeyChar == Lower \cup Digit \cup { "-" }
Special == { ".", "-", ":", "@", "#", "?", Quote, Backslash }

-----------------------------------------------------------------------------
(* Characters.                                                             *)

LEMMA Classes ==
  /\ \A c \in Alpha : c \notin Digit /\ c \notin Space /\ c \notin Special
  /\ \A c \in Digit : c \notin Space /\ c \notin Special
  /\ \A c \in Special : c \notin Space
  /\ "0" \in Digit /\ "x" \in Alpha
  /\ Lower \subseteq Alpha
  /\ HexDigit \subseteq Alpha \cup Digit
  /\ Digit \subseteq HexDigit
  /\ Newline \in Space
  /\ "NUL" \notin Alpha \cup Digit \cup Space \cup Special
BY DEF Alpha, Lower, Upper, Digit, HexDigit, Space, Newline, Quote, Backslash, Special

LEMMA Marks ==
  /\ Quote \notin { ".", "-", ":", "@", "#", "?", "0", "x" }
  /\ Backslash \notin { ".", "-", ":", "@", "#", "?", "0", "x" }
  /\ Newline \notin { ".", "-", ":", "@", "#", "?", "0", "x" }
  /\ Quote # Backslash /\ Quote # Newline /\ Backslash # Newline
BY DEF Newline, Quote, Backslash

(* What the later lemmas use of them, without the characters themselves. *)
Distinct ==
  /\ \A c \in Alpha : c \notin Digit /\ c \notin Space
       /\ c # "." /\ c # "-" /\ c # ":" /\ c # "@" /\ c # "#" /\ c # Quote /\ c # "0"
  /\ \A c \in Digit : c \notin Space
       /\ c # "." /\ c # "-" /\ c # ":" /\ c # "@" /\ c # "#" /\ c # Quote /\ c # "x"
  /\ "0" \in Digit /\ "x" \in Alpha
  /\ Quote # "." /\ Quote # "-" /\ Quote # ":" /\ Quote # "@" /\ Quote # "#"
  /\ Quote # Newline /\ Quote # Backslash /\ Newline # Backslash

LEMMA CharsDistinct == Distinct
BY Classes, Marks DEF Distinct, Special

(* The one move that takes a character decides where it leads. *)
LEMMA OneMove ==
  ASSUME NEW state, state # "S_STRING_ESCAPE", state # "S_STRING_OPENED",
         NEW chr, NEW is_label, ~(chr = ":" /\ is_label), NEW set, NEW next,
         << set, next >> \in Moves[state], chr \in set,
         \A move \in Moves[state] : chr \in move[1] => move[2] = next
  PROVE  Following(state, chr, is_label) = next
<1> DEFINE moves == { move \in Moves[state] : chr \in move[1] }
           barred == chr = ":" /\ is_label
<1>1. Following(state, chr, is_label) =
        IF moves = { } \/ barred THEN "S_UNKNOWN"
        ELSE (CHOOSE move \in moves : TRUE)[2]
  BY DEF Following
<1>2. << set, next >> \in moves
  OBVIOUS
<1>3. \A move \in moves : move[2] = next
  OBVIOUS
<1>4. ~barred
  OBVIOUS
<1> HIDE DEF moves, barred
<1>5. (CHOOSE move \in moves : TRUE) \in moves
  BY <1>2
<1> QED BY <1>1, <1>2, <1>3, <1>4, <1>5

LEMMA NoMove ==
  ASSUME NEW state, state # "S_STRING_ESCAPE", state # "S_STRING_OPENED",
         NEW chr, NEW is_label,
         (chr = ":" /\ is_label) \/ \A move \in Moves[state] : chr \notin move[1]
  PROVE  Following(state, chr, is_label) = "S_UNKNOWN"
<1>1. (chr = ":" /\ is_label) \/ { move \in Moves[state] : chr \in move[1] } = { }
  OBVIOUS
<1> QED BY <1>1 DEF Following

LEMMA FromInit ==
  ASSUME NEW c, NEW l, l = FALSE
  PROVE  Following("S_INIT", c, l) =
           IF c \in Alpha THEN "S_IDENTIFIER"
           ELSE IF c = "." THEN "S_KEYWORD"
           ELSE IF c = "0" THEN "S_LEADING_ZERO"
           ELSE IF c \in Digit \/ c = "-" THEN "S_DECIMAL_NUMBER"
           ELSE IF c = Quote THEN "S_STRING_OPENED"
           ELSE IF c = "@" THEN "S_LABEL_LEAD"
           ELSE "S_UNKNOWN"
<1> DEFINE D == (Digit \ { "0" }) \cup { "-" }
           M == { << Alpha, "S_IDENTIFIER" >>,
                  << { "." }, "S_KEYWORD" >>,
                  << { "0" }, "S_LEADING_ZERO" >>,
                  << D, "S_DECIMAL_NUMBER" >>,
                  << { Quote }, "S_STRING_OPENED" >>,
                  << { "@" }, "S_LABEL_LEAD" >> }
<1>1. Moves["S_INIT"] = M
  BY DEF Moves
<1>2. \A move \in M :
        /\ c \in move[1]
        => \/ c \in Alpha /\ move[2] = "S_IDENTIFIER"
           \/ c = "." /\ move[2] = "S_KEYWORD"
           \/ c = "0" /\ move[2] = "S_LEADING_ZERO"
           \/ c \in D /\ move[2] = "S_DECIMAL_NUMBER"
           \/ c = Quote /\ move[2] = "S_STRING_OPENED"
           \/ c = "@" /\ move[2] = "S_LABEL_LEAD"
  OBVIOUS
<1>3. /\ << Alpha, "S_IDENTIFIER" >> \in M
      /\ << { "." }, "S_KEYWORD" >> \in M
      /\ << { "0" }, "S_LEADING_ZERO" >> \in M
      /\ << D, "S_DECIMAL_NUMBER" >> \in M
      /\ << { Quote }, "S_STRING_OPENED" >> \in M
      /\ << { "@" }, "S_LABEL_LEAD" >> \in M
  OBVIOUS
<1>4. c \in D <=> (c \in Digit \/ c = "-") /\ c # "0"
  BY CharsDistinct DEF Distinct
<1> HIDE DEF M, D
<1>5. ~(c = ":" /\ l)
  OBVIOUS
<1>6. CASE c \in Alpha
  BY <1>1, <1>2, <1>3, <1>4, <1>5, <1>6, OneMove, CharsDistinct DEF Distinct
<1>7. CASE c = "."
  BY <1>1, <1>2, <1>3, <1>4, <1>5, <1>7, OneMove, CharsDistinct DEF Distinct
<1>8. CASE c = "0"
  BY <1>1, <1>2, <1>3, <1>4, <1>5, <1>8, OneMove, CharsDistinct DEF Distinct
<1>9. CASE c \in D
  BY <1>1, <1>2, <1>3, <1>4, <1>5, <1>9, OneMove, CharsDistinct DEF Distinct
<1>10. CASE c = Quote
  BY <1>1, <1>2, <1>3, <1>4, <1>5, <1>10, OneMove, CharsDistinct DEF Distinct
<1>11. CASE c = "@"
  BY <1>1, <1>2, <1>3, <1>4, <1>5, <1>11, OneMove, CharsDistinct DEF Distinct
<1>12. CASE c \notin Alpha \cup D \cup { ".", "0", Quote, "@" }
  BY <1>1, <1>2, <1>4, <1>12, NoMove, CharsDistinct DEF Distinct
<1> QED BY <1>6, <1>7, <1>8, <1>9, <1>10, <1>11, <1>12

LEMMA FollowsNone ==
  ASSUME NEW state, state # "S_STRING_ESCAPE", state # "S_STRING_OPENED",
         NEW c, NEW l, Moves[state] = { }
  PROVE  Following(state, c, l) = "S_UNKNOWN"
<1>1. \A move \in { } : c \notin move[1]
  OBVIOUS
<1> QED BY <1>1, NoMove

LEMMA FollowsOne ==
  ASSUME NEW state, state # "S_STRING_ESCAPE", state # "S_STRING_OPENED",
         NEW c, NEW l, NEW A, NEW q, << A, q >> \in Moves[state],
         \A move \in Moves[state] : move[1] = A /\ move[2] = q
  PROVE  Following(state, c, l) = IF c \in A /\ ~(c = ":" /\ l) THEN q ELSE "S_UNKNOWN"
<1>1. CASE c \in A /\ ~(c = ":" /\ l)
  BY <1>1, OneMove
<1>2. CASE c \notin A \/ (c = ":" /\ l)
  BY <1>2, NoMove
<1> QED BY <1>1, <1>2

LEMMA FollowsTwo ==
  ASSUME NEW state, state # "S_STRING_ESCAPE", state # "S_STRING_OPENED",
         NEW c, NEW l, NEW A, NEW q, NEW B, NEW r, A \cap B = { },
         << A, q >> \in Moves[state], << B, r >> \in Moves[state],
         \A move \in Moves[state] : \/ move[1] = A /\ move[2] = q
                                    \/ move[1] = B /\ move[2] = r
  PROVE  Following(state, c, l) =
           IF c = ":" /\ l THEN "S_UNKNOWN"
           ELSE IF c \in A THEN q ELSE IF c \in B THEN r ELSE "S_UNKNOWN"
<1>1. CASE c \in A /\ ~(c = ":" /\ l)
  BY <1>1, OneMove
<1>2. CASE c \in B /\ ~(c = ":" /\ l)
  BY <1>2, OneMove
<1>3. CASE c \notin A \cup B \/ (c = ":" /\ l)
  BY <1>3, NoMove
<1> QED BY <1>1, <1>2, <1>3

LEMMA FollowsThree ==
  ASSUME NEW state, state # "S_STRING_ESCAPE", state # "S_STRING_OPENED",
         NEW c, NEW l, NEW A, NEW q, NEW B, NEW r, NEW C, NEW t,
         A \cap B = { }, A \cap C = { }, B \cap C = { },
         << A, q >> \in Moves[state], << B, r >> \in Moves[state],
         << C, t >> \in Moves[state],
         \A move \in Moves[state] : \/ move[1] = A /\ move[2] = q
                                    \/ move[1] = B /\ move[2] = r
                                    \/ move[1] = C /\ move[2] = t
  PROVE  Following(state, c, l) =
           IF c = ":" /\ l THEN "S_UNKNOWN"
           ELSE IF c \in A THEN q ELSE IF c \in B THEN r
           ELSE IF c \in C THEN t ELSE "S_UNKNOWN"
<1>1. CASE c \in A /\ ~(c = ":" /\ l)
  BY <1>1, OneMove
<1>2. CASE c \in B /\ ~(c = ":" /\ l)
  BY <1>2, OneMove
<1>3. CASE c \in C /\ ~(c = ":" /\ l)
  BY <1>3, OneMove
<1>4. CASE c \notin A \cup B \cup C \/ (c = ":" /\ l)
  BY <1>4, NoMove
<1> QED BY <1>1, <1>2, <1>3, <1>4

(* Where the states of tokens other than texts lead. *)
LEMMA Transitions ==
  ASSUME NEW c, NEW l
  PROVE  /\ Following("S_IDENTIFIER", c, l) =
              IF c \in NameChar THEN "S_IDENTIFIER"
              ELSE IF c = ":" /\ ~l THEN "S_LABEL_DEFINITION" ELSE "S_UNKNOWN"
         /\ Following("S_LABEL_LEAD", c, l) =
              IF c \in Alpha THEN "S_IDENTIFIER" ELSE "S_UNKNOWN"
         /\ Following("S_LABEL_DEFINITION", c, l) = "S_UNKNOWN"
         /\ Following("S_KEYWORD", c, l) =
              IF c \in KeyChar THEN "S_KEYWORD" ELSE "S_UNKNOWN"
         /\ Following("S_LEADING_ZERO", c, l) =
              IF c \in Digit THEN "S_DECIMAL_NUMBER"
              ELSE IF c = "x" THEN "S_HEXADECIMAL_PREFIX"
              ELSE IF c = "." THEN "S_REAL_PREFIX" ELSE "S_UNKNOWN"
         /\ Following("S_DECIMAL_NUMBER", c, l) =
              IF c \in Digit THEN "S_DECIMAL_NUMBER"
              ELSE IF c = "." THEN "S_REAL_PREFIX" ELSE "S_UNKNOWN"
         /\ Following("S_HEXADECIMAL_PREFIX", c, l) =
              IF c \in HexDigit THEN "S_HEXADECIMAL_NUMBER" ELSE "S_UNKNOWN"
         /\ Following("S_HEXADECIMAL_NUMBER", c, l) =
              IF c \in HexDigit THEN "S_HEXADECIMAL_NUMBER" ELSE "S_UNKNOWN"
         /\ Following("S_REAL_PREFIX", c, l) =
              IF c \in Digit THEN "S_REAL" ELSE "S_UNKNOWN"
         /\ Following("S_REAL", c, l) =
              IF c \in Digit THEN "S_REAL" ELSE "S_UNKNOWN"
         /\ Following("S_STRING_END", c, l) = "S_UNKNOWN"
         /\ Following("S_UNKNOWN", c, l) = "S_UNKNOWN"
<1> DEFINE dot == { "." }
           ex == { "x" }
<1>1. /\ ":" \notin NameChar \cup KeyChar \cup HexDigit \cup Digit \cup Alpha
      /\ "." \notin Digit /\ "x" \notin Digit
  BY CharsDistinct, Classes DEF Distinct, NameChar, KeyChar
<1>2. /\ NameChar \cap { ":" } = { } /\ Digit \cap ex = { }
      /\ Digit \cap dot = { } /\ ex \cap dot = { } /\ dot \cap Digit = { }
  BY <1>1
<1>3. Following("S_IDENTIFIER", c, l) =
        IF c \in NameChar THEN "S_IDENTIFIER"
        ELSE IF c = ":" /\ ~l THEN "S_LABEL_DEFINITION" ELSE "S_UNKNOWN"
  <2>1. /\ << NameChar, "S_IDENTIFIER" >> \in Moves["S_IDENTIFIER"]
        /\ << { ":" }, "S_LABEL_DEFINITION" >> \in Moves["S_IDENTIFIER"]
        /\ \A move \in Moves["S_IDENTIFIER"] :
             \/ move[1] = NameChar /\ move[2] = "S_IDENTIFIER"
             \/ move[1] = { ":" } /\ move[2] = "S_LABEL_DEFINITION"
    BY DEF Moves, NameChar
  <2>2. Following("S_IDENTIFIER", c, l) =
          IF c = ":" /\ l THEN "S_UNKNOWN"
          ELSE IF c \in NameChar THEN "S_IDENTIFIER"
          ELSE IF c \in { ":" } THEN "S_LABEL_DEFINITION" ELSE "S_UNKNOWN"
    BY <2>1, <1>2, FollowsTwo
  <2> QED BY <2>2, <1>1
<1>4. Following("S_LEADING_ZERO", c, l) =
        IF c \in Digit THEN "S_DECIMAL_NUMBER"
        ELSE IF c = "x" THEN "S_HEXADECIMAL_PREFIX"
        ELSE IF c = "." THEN "S_REAL_PREFIX" ELSE "S_UNKNOWN"
  <2>1. /\ << Digit, "S_DECIMAL_NUMBER" >> \in Moves["S_LEADING_ZERO"]
        /\ << ex, "S_HEXADECIMAL_PREFIX" >> \in Moves["S_LEADING_ZERO"]
        /\ << dot, "S_REAL_PREFIX" >> \in Moves["S_LEADING_ZERO"]
        /\ \A move \in Moves["S_LEADING_ZERO"] :
             \/ move[1] = Digit /\ move[2] = "S_DECIMAL_NUMBER"
             \/ move[1] = ex /\ move[2] = "S_HEXADECIMAL_PREFIX"
             \/ move[1] = dot /\ move[2] = "S_REAL_PREFIX"
    BY DEF Moves, NameChar
  <2>2. Following("S_LEADING_ZERO", c, l) =
          IF c = ":" /\ l THEN "S_UNKNOWN"
          ELSE IF c \in Digit THEN "S_DECIMAL_NUMBER"
          ELSE IF c \in ex THEN "S_HEXADECIMAL_PREFIX"
          ELSE IF c \in dot THEN "S_REAL_PREFIX" ELSE "S_UNKNOWN"
    <3> HIDE DEF dot, ex
    <3> QED BY <2>1, <1>2, FollowsThree
  <2> QED BY <2>2, <1>1
<1>5. Following("S_DECIMAL_NUMBER", c, l) =
        IF c \in Digit THEN "S_DECIMAL_NUMBER"
        ELSE IF c = "." THEN "S_REAL_PREFIX" ELSE "S_UNKNOWN"
  <2>1. /\ << dot, "S_REAL_PREFIX" >> \in Moves["S_DECIMAL_NUMBER"]
        /\ << Digit, "S_DECIMAL_NUMBER" >> \in Moves["S_DECIMAL_NUMBER"]
        /\ \A move \in Moves["S_DECIMAL_NUMBER"] :
             \/ move[1] = dot /\ move[2] = "S_REAL_PREFIX"
             \/ move[1] = Digit /\ move[2] = "S_DECIMAL_NUMBER"
    BY DEF Moves, NameChar
  <2>2. Following("S_DECIMAL_NUMBER", c, l) =
          IF c = ":" /\ l THEN "S_UNKNOWN"
          ELSE IF c \in dot THEN "S_REAL_PREFIX"
          ELSE IF c \in Digit THEN "S_DECIMAL_NUMBER" ELSE "S_UNKNOWN"
    <3> HIDE DEF dot, ex
    <3> QED BY <2>1, <1>2, FollowsTwo
  <2> QED BY <2>2, <1>1
<1>6. Following("S_LABEL_LEAD", c, l) =
        IF c \in Alpha THEN "S_IDENTIFIER" ELSE "S_UNKNOWN"
  <2>1. /\ << Alpha, "S_IDENTIFIER" >> \in Moves["S_LABEL_LEAD"]
        /\ \A move \in Moves["S_LABEL_LEAD"] :
             move[1] = Alpha /\ move[2] = "S_IDENTIFIER"
    BY DEF Moves, KeyChar
  <2> QED BY <2>1, <1>1, FollowsOne
<1>7. Following("S_KEYWORD", c, l) =
        IF c \in KeyChar THEN "S_KEYWORD" ELSE "S_UNKNOWN"
  <2>1. /\ << KeyChar, "S_KEYWORD" >> \in Moves["S_KEYWORD"]
        /\ \A move \in Moves["S_KEYWORD"] :
             move[1] = KeyChar /\ move[2] = "S_KEYWORD"
    BY DEF Moves, KeyChar
  <2> QED BY <2>1, <1>1, FollowsOne
<1>8. Following("S_HEXADECIMAL_PREFIX", c, l) =
        IF c \in HexDigit THEN "S_HEXADECIMAL_NUMBER" ELSE "S_UNKNOWN"
  <2>1. /\ << HexDigit, "S_HEXADECIMAL_NUMBER" >> \in Moves["S_HEXADECIMAL_PREFIX"]
        /\ \A move \in Moves["S_HEXADECIMAL_PREFIX"] :
             move[1] = HexDigit /\ move[2] = "S_HEXADECIMAL_NUMBER"
    BY DEF Moves, KeyChar
  <2> QED BY <2>1, <1>1, FollowsOne
<1>9. Following("S_HEXADECIMAL_NUMBER", c, l) =
        IF c \in HexDigit THEN "S_HEXADECIMAL_NUMBER" ELSE "S_UNKNOWN"
  <2>1. /\ << HexDigit, "S_HEXADECIMAL_NUMBER" >> \in Moves["S_HEXADECIMAL_NUMBER"]
        /\ \A move \in Moves["S_HEXADECIMAL_NUMBER"] :
             move[1] = HexDigit /\ move[2] = "S_HEXADECIMAL_NUMBER"
    BY DEF Moves, KeyChar
  <2> QED BY <2>1, <1>1, FollowsOne
<1>10. Following("S_REAL_PREFIX", c, l) =
        IF c \in Digit THEN "S_REAL" ELSE "S_UNKNOWN"
  <2>1. /\ << Digit, "S_REAL" >> \in Moves["S_REAL_PREFIX"]
        /\ \A move \in Moves["S_REAL_PREFIX"] :
             move[1] = Digit /\ move[2] = "S_REAL"
    BY DEF Moves, KeyChar
  <2> QED BY <2>1, <1>1, FollowsOne
<1>11. Following("S_REAL", c, l) =
        IF c \in Digit THEN "S_REAL" ELSE "S_UNKNOWN"
  <2>1. /\ << Digit, "S_REAL" >> \in Moves["S_REAL"]
        /\ \A move \in Moves["S_REAL"] :
             move[1] = Digit /\ move[2] = "S_REAL"
    BY DEF Moves, KeyChar
  <2> QED BY <2>1, <1>1, FollowsOne
<1>12. /\ Following("S_LABEL_DEFINITION", c, l) = "S_UNKNOWN"
       /\ Following("S_STRING_END", c, l) = "S_UNKNOWN"
       /\ Following("S_UNKNOWN", c, l) = "S_UNKNOWN"
  <2>1. /\ Moves["S_LABEL_DEFINITION"] = { } /\ Moves["S_STRING_END"] = { }
        /\ Moves["S_UNKNOWN"] = { }
    BY DEF Moves
  <2> QED BY <2>1, FollowsNone
<1> QED BY <1>3, <1>4, <1>5, <1>6, <1>7, <1>8, <1>9, <1>10, <1>11, <1>12

(* Inside a text. *)
LEMMA TextTransitions ==
  ASSUME NEW c, NEW l
  PROVE  /\ Following("S_STRING_ESCAPE", c, l) = "S_STRING_OPENED"
         /\ Following("S_STRING_OPENED", c, l) =
              IF c = Newline THEN "S_UNKNOWN"
              ELSE IF c = Backslash THEN "S_STRING_ESCAPE"
              ELSE IF c = Quote THEN "S_STRING_END" ELSE "S_STRING_OPENED"
BY CharsDistinct DEF Following, Distinct

-----------------------------------------------------------------------------
(* Forms of lexemes: what the scanner knows of a token in each state.      *)

LEMMA SameClasses ==
  /\ Grammar!Alpha = Alpha /\ Grammar!Digit = Digit /\ Grammar!Lower = Lower
  /\ Grammar!HexDigit = HexDigit /\ Grammar!Space = Space
  /\ Grammar!Quote = Quote /\ Grammar!Backslash = Backslash
  /\ Grammar!Newline = Newline
BY DEF Grammar!Alpha, Alpha, Grammar!Digit, Digit, Grammar!Lower, Lower,
   Grammar!Upper, Upper, Grammar!HexDigit, HexDigit, Grammar!Space, Space,
   Grammar!Quote, Quote, Grammar!Backslash, Backslash, Grammar!Newline, Newline

(* What the scanner takes for numbers, and the class it gives: those of the *)
(* grammar, with the minus sign that has no digits and without registers.   *)
ScannedDecimal(s) ==
  s # << >> /\ s[1] \in Digit \cup { "-" } /\ \A i \in 2 .. Len(s) : s[i] \in Digit

ScannedReal(s) ==
  \E dot \in 2 .. Len(s) - 1 :
    /\ s[dot] = "." /\ ScannedDecimal(SubSeq(s, 1, dot - 1))
    /\ \A i \in dot + 1 .. Len(s) : s[i] \in Digit

ScannedClass(s, stored) ==
  CASE Grammar!Name(s) -> IF stored \in OpcodeNames THEN "OPCODE"
                           ELSE "UNRECOGNIZED_OPCODE"
    [] Len(s) > 1 /\ s[Len(s)] = ":" /\ Grammar!Name(SubSeq(s, 1, Len(s) - 1)) ->
         "LABEL_DEF"
    [] s[1] = "@" /\ Grammar!Name(Tail(s)) -> "LABEL"
    [] s[1] = "." /\ Grammar!AllFrom(s, 2, KeyChar) ->
         IF stored \in KeywordNames THEN "KEYWORD" ELSE "UNRECOGNIZED_KW"
    [] ScannedDecimal(s) -> "DEC_INTEGER"
    [] Grammar!Hexadecimal(s) -> "HEX_INTEGER"
    [] ScannedReal(s) -> "REAL"
    [] Grammar!Text(s) -> "STRING"
    [] OTHER -> "UNKNOWN"

LEMMA FormsOfGrammar ==
  ASSUME NEW s \in Seq(Chars)
  PROVE  /\ Grammar!Name(s) <=>
              s # << >> /\ s[1] \in Alpha /\ \A i \in 2 .. Len(s) : s[i] \in NameChar
         /\ ScannedDecimal(s) <=>
              s # << >> /\ s[1] \in Digit \cup { "-" } /\ \A i \in 2 .. Len(s) : s[i] \in Digit
         /\ Grammar!Hexadecimal(s) <=>
              Len(s) > 2 /\ s[1] = "0" /\ s[2] = "x" /\ \A i \in 3 .. Len(s) : s[i] \in HexDigit
         /\ ScannedReal(s) <=>
              \E dot \in 2 .. Len(s) - 1 :
                /\ s[dot] = "."
                /\ ScannedDecimal(SubSeq(s, 1, dot - 1))
                /\ \A i \in dot + 1 .. Len(s) : s[i] \in Digit
BY SameClasses DEF Grammar!Name, ScannedDecimal, Grammar!Hexadecimal, ScannedReal,
   Grammar!AllFrom, NameChar

(* All characters of s between positions m and n are in set. *)
Within(s, m, n, set) == \A i \in m .. n : s[i] \in set

NameForm(s) == Len(s) > 0 /\ s[1] \in Alpha /\ Within(s, 2, Len(s), NameChar)
LeadForm(s) == Len(s) = 1 /\ s[1] = "@"
LabelForm(s) ==
  Len(s) > 1 /\ s[1] = "@" /\ s[2] \in Alpha /\ Within(s, 3, Len(s), NameChar)
DefinitionForm(s) ==
  Len(s) > 1 /\ s[1] \in Alpha /\ Within(s, 2, Len(s) - 1, NameChar) /\ s[Len(s)] = ":"
KeywordForm(s) == Len(s) > 0 /\ s[1] = "." /\ Within(s, 2, Len(s), KeyChar)
ZeroForm(s) == Len(s) = 1 /\ s[1] = "0"
DecimalForm(s) ==
  Len(s) > 0 /\ s[1] \in Digit \cup { "-" } /\ Within(s, 2, Len(s), Digit)
HexPrefixForm(s) == Len(s) = 2 /\ s[1] = "0" /\ s[2] = "x"
HexForm(s) ==
  Len(s) > 2 /\ s[1] = "0" /\ s[2] = "x" /\ Within(s, 3, Len(s), HexDigit)
PointForm(s) ==
  /\ Len(s) > 1 /\ s[1] \in Digit \cup { "-" }
  /\ Within(s, 2, Len(s) - 1, Digit) /\ s[Len(s)] = "."
RealForm(s) ==
  /\ Len(s) > 2 /\ s[1] \in Digit \cup { "-" }
  /\ \E dot \in 2 .. Len(s) - 1 :
       /\ s[dot] = "."
       /\ Within(s, 2, dot - 1, Digit) /\ Within(s, dot + 1, Len(s), Digit)

(* No lexeme and no beginning of one, but for texts. *)
NoForm(s) ==
  /\ Len(s) # 0
  /\ ~NameForm(s) /\ ~LeadForm(s) /\ ~LabelForm(s) /\ ~DefinitionForm(s)
  /\ ~KeywordForm(s) /\ ~ZeroForm(s) /\ ~DecimalForm(s) /\ ~HexPrefixForm(s)
  /\ ~HexForm(s) /\ ~PointForm(s) /\ ~RealForm(s)

(* What has been read, from the state; no text has begun. *)
Reached(state, s) ==
  \/ state = "S_INIT" /\ Len(s) = 0
  \/ state = "S_IDENTIFIER" /\ (NameForm(s) \/ LabelForm(s))
  \/ state = "S_LABEL_LEAD" /\ LeadForm(s)
  \/ state = "S_LABEL_DEFINITION" /\ DefinitionForm(s)
  \/ state = "S_KEYWORD" /\ KeywordForm(s)
  \/ state = "S_LEADING_ZERO" /\ ZeroForm(s)
  \/ state = "S_DECIMAL_NUMBER" /\ DecimalForm(s) /\ ~ZeroForm(s)
  \/ state = "S_HEXADECIMAL_PREFIX" /\ HexPrefixForm(s)
  \/ state = "S_HEXADECIMAL_NUMBER" /\ HexForm(s)
  \/ state = "S_REAL_PREFIX" /\ PointForm(s)
  \/ state = "S_REAL" /\ RealForm(s)
  \/ state = "S_UNKNOWN" /\ NoForm(s)

LEMMA OneMore ==
  ASSUME NEW s \in Seq(Chars), NEW c \in Chars
  PROVE  /\ Append(s, c) \in Seq(Chars)
         /\ Len(Append(s, c)) = Len(s) + 1 /\ Len(s) \in Nat
         /\ \A i \in 1 .. Len(s) : Append(s, c)[i] = s[i]
         /\ Append(s, c)[Len(s) + 1] = c
OBVIOUS

(* A character more. *)
LEMMA FormsAppended ==
  ASSUME NEW s, NEW t, NEW c, NEW n \in Nat, Len(s) = n,
         Len(t) = n + 1, \A i \in 1 .. n : t[i] = s[i], t[n + 1] = c
  PROVE  /\ NameForm(t) <=> \/ Len(s) = 0 /\ c \in Alpha
                            \/ NameForm(s) /\ c \in NameChar
         /\ LeadForm(t) <=> Len(s) = 0 /\ c = "@"
         /\ LabelForm(t) <=> \/ LeadForm(s) /\ c \in Alpha
                             \/ LabelForm(s) /\ c \in NameChar
         /\ DefinitionForm(t) <=> NameForm(s) /\ c = ":"
         /\ KeywordForm(t) <=> \/ Len(s) = 0 /\ c = "."
                               \/ KeywordForm(s) /\ c \in KeyChar
         /\ ZeroForm(t) <=> Len(s) = 0 /\ c = "0"
         /\ DecimalForm(t) <=> \/ Len(s) = 0 /\ c \in Digit \cup { "-" }
                               \/ DecimalForm(s) /\ c \in Digit
         /\ HexPrefixForm(t) <=> ZeroForm(s) /\ c = "x"
         /\ HexForm(t) <=> (HexPrefixForm(s) \/ HexForm(s)) /\ c \in HexDigit
         /\ PointForm(t) <=> DecimalForm(s) /\ c = "."
         /\ RealForm(t) <=> (PointForm(s) \/ RealForm(s)) /\ c \in Digit
<1>1. \A set : \A m \in Nat \ {0} :
        Within(t, m, Len(t), set) <=> Within(s, m, n, set) /\ (m <= Len(t) => c \in set)
  BY DEF Within
<1>2. \A set : \A m \in Nat \ {0}, k \in 0 .. n :
        Within(t, m, k, set) <=> Within(s, m, k, set)
  BY DEF Within
<1>3. NameForm(t) <=> \/ Len(s) = 0 /\ c \in Alpha
                      \/ NameForm(s) /\ c \in NameChar
  <2>1. Within(t, 2, Len(t), NameChar)
          <=> Within(s, 2, Len(s), NameChar) /\ (2 <= Len(t) => c \in NameChar)
    BY <1>1
  <2> QED BY <2>1 DEF NameForm, Within
<1>4. LeadForm(t) <=> Len(s) = 0 /\ c = "@"
  BY DEF LeadForm
<1>5. LabelForm(t) <=> \/ LeadForm(s) /\ c \in Alpha
                       \/ LabelForm(s) /\ c \in NameChar
  <2>1. Within(t, 3, Len(t), NameChar)
          <=> Within(s, 3, Len(s), NameChar) /\ (3 <= Len(t) => c \in NameChar)
    BY <1>1
  <2>2. ASSUME LabelForm(t) PROVE \/ LeadForm(s) /\ c \in Alpha
                                  \/ LabelForm(s) /\ c \in NameChar
    <3>1. Len(s) > 0 /\ s[1] = "@" /\ (Len(s) > 1 => s[2] \in Alpha)
      BY <2>2 DEF LabelForm
    <3>2. CASE Len(s) = 1
      BY <3>1, <3>2, <2>2 DEF LabelForm, LeadForm
    <3>3. CASE Len(s) > 1
      <4>1. c \in NameChar /\ Within(s, 3, Len(s), NameChar)
        <5>1. Within(t, 3, Len(t), NameChar) /\ 3 <= Len(t)
          BY <2>2, <3>3 DEF LabelForm
        <5> QED BY <2>1, <5>1
      <4> QED BY <3>1, <3>3, <4>1 DEF LabelForm
    <3>4. Len(s) = 1 \/ Len(s) > 1
      <4>1. Len(s) > 0
        BY <3>1
      <4> QED BY <4>1
    <3> QED BY <3>2, <3>3, <3>4
  <2>3. ASSUME LeadForm(s), c \in Alpha PROVE LabelForm(t)
    BY <2>1, <2>3 DEF LabelForm, LeadForm, Within
  <2>4. ASSUME LabelForm(s), c \in NameChar PROVE LabelForm(t)
    BY <2>1, <2>4 DEF LabelForm
  <2> QED BY <2>2, <2>3, <2>4
<1>6. DefinitionForm(t) <=> NameForm(s) /\ c = ":"
  <2>1. Within(t, 2, Len(t) - 1, NameChar) <=> Within(s, 2, Len(s), NameChar)
    BY <1>2
  <2> QED BY <2>1 DEF DefinitionForm, NameForm
<1>7. KeywordForm(t) <=> \/ Len(s) = 0 /\ c = "."
                         \/ KeywordForm(s) /\ c \in KeyChar
  <2>1. Within(t, 2, Len(t), KeyChar)
          <=> Within(s, 2, Len(s), KeyChar) /\ (2 <= Len(t) => c \in KeyChar)
    BY <1>1
  <2> QED BY <2>1 DEF KeywordForm, Within
<1>8. ZeroForm(t) <=> Len(s) = 0 /\ c = "0"
  BY DEF ZeroForm
<1>9. DecimalForm(t) <=> \/ Len(s) = 0 /\ c \in Digit \cup { "-" }
                         \/ DecimalForm(s) /\ c \in Digit
  <2>1. Within(t, 2, Len(t), Digit)
          <=> Within(s, 2, Len(s), Digit) /\ (2 <= Len(t) => c \in Digit)
    BY <1>1
  <2> QED BY <2>1 DEF DecimalForm, Within
<1>10. HexPrefixForm(t) <=> ZeroForm(s) /\ c = "x"
  BY DEF HexPrefixForm, ZeroForm
<1>11. HexForm(t) <=> (HexPrefixForm(s) \/ HexForm(s)) /\ c \in HexDigit
  <2>1. Within(t, 3, Len(t), HexDigit)
          <=> Within(s, 3, Len(s), HexDigit) /\ (3 <= Len(t) => c \in HexDigit)
    BY <1>1
  <2>2. ASSUME HexForm(t) PROVE (HexPrefixForm(s) \/ HexForm(s)) /\ c \in HexDigit
    <3>1. /\ Len(s) > 1 /\ Within(t, 3, Len(t), HexDigit)
          /\ t[1] = "0" /\ t[2] = "x" /\ 3 <= Len(t)
      BY <2>2 DEF HexForm
    <3>2. s[1] = "0" /\ s[2] = "x"
      BY <3>1
    <3>3. c \in HexDigit /\ Within(s, 3, Len(s), HexDigit)
      BY <2>1, <3>1
    <3>4. CASE Len(s) = 2
      BY <3>2, <3>3, <3>4 DEF HexPrefixForm
    <3>5. CASE Len(s) > 2
      BY <3>2, <3>3, <3>5 DEF HexForm
    <3> QED BY <3>1, <3>3, <3>4, <3>5
  <2>3. (HexPrefixForm(s) \/ HexForm(s)) /\ c \in HexDigit => HexForm(t)
    BY <2>1 DEF HexForm, HexPrefixForm, Within
  <2> QED BY <2>2, <2>3
<1>12. PointForm(t) <=> DecimalForm(s) /\ c = "."
  <2>1. Within(t, 2, Len(t) - 1, Digit) <=> Within(s, 2, Len(s), Digit)
    BY <1>2
  <2> QED BY <2>1 DEF PointForm, DecimalForm
<1>13. RealForm(t) <=> (PointForm(s) \/ RealForm(s)) /\ c \in Digit
  <2>1. ASSUME RealForm(t) PROVE (PointForm(s) \/ RealForm(s)) /\ c \in Digit
    <3>1. PICK dot \in 2 .. Len(t) - 1 :
            t[dot] = "." /\ Within(t, 2, dot - 1, Digit) /\ Within(t, dot + 1, Len(t), Digit)
      BY <2>1 DEF RealForm
    <3>2. c \in Digit /\ Within(s, 2, dot - 1, Digit) /\ Within(s, dot + 1, Len(s), Digit)
      BY <3>1, <1>1, <1>2 DEF Within
    <3>3. CASE dot = Len(s)
      BY <3>1, <3>2, <3>3, <2>1 DEF RealForm, PointForm
    <3>4. CASE dot < Len(s)
      BY <3>1, <3>2, <3>4, <2>1 DEF RealForm
    <3> QED BY <3>1, <3>2, <3>3, <3>4
  <2>2. ASSUME PointForm(s), c \in Digit PROVE RealForm(t)
    <3>1. /\ Len(s) \in 2 .. Len(t) - 1 /\ t[Len(s)] = "."
          /\ Within(t, 2, Len(s) - 1, Digit) /\ Within(t, Len(s) + 1, Len(t), Digit)
      BY <2>2, <1>2 DEF PointForm, Within
    <3> QED BY <3>1, <2>2 DEF RealForm, PointForm
  <2>3. ASSUME RealForm(s), c \in Digit PROVE RealForm(t)
    <3>1. PICK dot \in 2 .. Len(s) - 1 :
            s[dot] = "." /\ Within(s, 2, dot - 1, Digit) /\ Within(s, dot + 1, Len(s), Digit)
      BY <2>3 DEF RealForm
    <3>2. t[dot] = "." /\ Within(t, 2, dot - 1, Digit) /\ Within(t, dot + 1, Len(t), Digit)
      BY <3>1, <2>3 DEF Within
    <3> QED BY <3>1, <3>2, <2>3 DEF RealForm
  <2> QED BY <2>1, <2>2, <2>3
<1> QED BY <1>3, <1>4, <1>5, <1>6, <1>7, <1>8, <1>9, <1>10, <1>11, <1>12, <1>13

(* The first character tells names, labels, keywords and numbers apart. *)
LEMMA FirstCharacters ==
  ASSUME NEW s, NEW n \in Nat, Len(s) = n
  PROVE  /\ (NameForm(s) \/ DefinitionForm(s)) => n > 0 /\ s[1] \in Alpha
         /\ (LeadForm(s) \/ LabelForm(s)) => n > 0 /\ s[1] = "@"
         /\ KeywordForm(s) => n > 0 /\ s[1] = "."
         /\ (\/ ZeroForm(s) \/ DecimalForm(s) \/ HexPrefixForm(s) \/ HexForm(s)
             \/ PointForm(s) \/ RealForm(s)) => n > 0 /\ s[1] \in Digit \cup { "-" }
BY CharsDistinct DEF Distinct, NameForm, DefinitionForm, LeadForm, LabelForm, KeywordForm,
   ZeroForm, DecimalForm, HexPrefixForm, HexForm, PointForm, RealForm

(* A lexeme has one form, but zero is a number as well. *)
LEMMA NumbersExclude ==
  ASSUME NEW s, NEW n \in Nat, Len(s) = n
  PROVE  /\ DecimalForm(s) => ~HexPrefixForm(s) /\ ~HexForm(s) /\ ~PointForm(s) /\ ~RealForm(s)
         /\ HexPrefixForm(s) => ~HexForm(s) /\ ~PointForm(s) /\ ~RealForm(s)
         /\ HexForm(s) => ~PointForm(s) /\ ~RealForm(s)
         /\ PointForm(s) => ~RealForm(s)
         /\ ZeroForm(s) => DecimalForm(s)
<1>1. "x" \notin Digit /\ "." \notin Digit /\ "x" # "." /\ "0" \in Digit
  BY CharsDistinct DEF Distinct
<1>2. ASSUME DecimalForm(s) PROVE ~HexPrefixForm(s) /\ ~HexForm(s) /\ ~PointForm(s)
  <2>1. \A i \in 2 .. n : s[i] \in Digit
    BY <1>2 DEF DecimalForm, Within
  <2> QED BY <2>1, <1>1 DEF HexPrefixForm, HexForm, PointForm
<1>3. ASSUME HexPrefixForm(s) PROVE ~HexForm(s) /\ ~PointForm(s) /\ ~RealForm(s)
  BY <1>1, <1>3 DEF HexPrefixForm, HexForm, PointForm, RealForm
<1>4. ASSUME HexForm(s) \/ DecimalForm(s) PROVE ~RealForm(s)
  <2> SUFFICES ASSUME RealForm(s) PROVE FALSE
    OBVIOUS
  <2>1. PICK dot \in 2 .. n - 1 :
          s[dot] = "." /\ \A i \in 2 .. dot - 1 : s[i] \in Digit
    BY DEF RealForm, Within
  <2>2. CASE DecimalForm(s)
    <3>1. \A i \in 2 .. n : s[i] \in Digit
      BY <2>2 DEF DecimalForm, Within
    <3>2. s[dot] \in Digit
      BY <3>1, <2>1
    <3> QED BY <3>2, <2>1, <1>1
  <2>3. CASE HexForm(s)
    <3>1. n > 2 /\ s[2] = "x"
      BY <2>3 DEF HexForm
    <3>2. CASE dot = 2
      BY <3>1, <3>2, <2>1, <1>1
    <3>3. CASE dot > 2
      <4>1. s[2] \in Digit
        BY <3>3, <2>1
      <4> QED BY <4>1, <3>1, <1>1
    <3> QED BY <3>2, <3>3
  <2> QED BY <1>4, <2>2, <2>3
<1>5. ASSUME HexForm(s) PROVE ~PointForm(s)
  <2> SUFFICES ASSUME PointForm(s) PROVE FALSE
    OBVIOUS
  <2>1. n > 2 /\ s[2] = "x" /\ \A i \in 2 .. n - 1 : s[i] \in Digit
    BY <1>5 DEF HexForm, PointForm, Within
  <2>2. s[2] \in Digit
    BY <2>1
  <2> QED BY <2>1, <2>2, <1>1
<1>6. ASSUME PointForm(s) PROVE ~RealForm(s)
  <2> SUFFICES ASSUME RealForm(s) PROVE FALSE
    OBVIOUS
  <2>1. PICK dot \in 2 .. n - 1 : \A i \in dot + 1 .. n : s[i] \in Digit
    BY DEF RealForm, Within
  <2>2. s[n] \in Digit /\ s[n] = "."
    BY <2>1, <1>6 DEF PointForm
  <2> QED BY <2>2, <1>1
<1>7. ZeroForm(s) => DecimalForm(s)
  BY <1>1 DEF ZeroForm, DecimalForm, Within
<1> QED BY <1>2, <1>3, <1>4, <1>5, <1>6, <1>7

LEMMA NamesExclude ==
  ASSUME NEW s, NEW n \in Nat, Len(s) = n
  PROVE  /\ DefinitionForm(s) => ~NameForm(s)
         /\ LeadForm(s) => ~LabelForm(s)
<1>1. ASSUME DefinitionForm(s), NameForm(s) PROVE FALSE
  <2>1. n > 1 /\ s[n] = ":" /\ \A i \in 2 .. n : s[i] \in NameChar
    BY <1>1 DEF DefinitionForm, NameForm, Within
  <2>2. ":" \in NameChar
    BY <2>1
  <2> QED BY <2>2, CharsDistinct DEF Distinct, NameChar
<1> QED BY <1>1 DEF LeadForm, LabelForm

(* The state after one more character of a token that is no text. *)
LEMMA ReachedAppended ==
  ASSUME NEW s, NEW t, NEW c, NEW n \in Nat, Len(s) = n,
         Len(t) = n + 1, \A i \in 1 .. n : t[i] = s[i], t[n + 1] = c,
         NEW state, Reached(state, s), NEW label \in BOOLEAN,
         label <=> n > 0 /\ s[1] = "@",
         ~(n = 0 /\ c = Quote)
  PROVE  Reached(Following(state, c, label), t)
<1>1. Len(t) # 0
  OBVIOUS
<1>2. /\ NameForm(t) <=> \/ n = 0 /\ c \in Alpha
                         \/ NameForm(s) /\ c \in NameChar
      /\ LeadForm(t) <=> n = 0 /\ c = "@"
      /\ LabelForm(t) <=> \/ LeadForm(s) /\ c \in Alpha
                          \/ LabelForm(s) /\ c \in NameChar
      /\ DefinitionForm(t) <=> NameForm(s) /\ c = ":"
      /\ KeywordForm(t) <=> \/ n = 0 /\ c = "."
                            \/ KeywordForm(s) /\ c \in KeyChar
      /\ ZeroForm(t) <=> n = 0 /\ c = "0"
      /\ DecimalForm(t) <=> \/ n = 0 /\ c \in Digit \cup { "-" }
                            \/ DecimalForm(s) /\ c \in Digit
      /\ HexPrefixForm(t) <=> ZeroForm(s) /\ c = "x"
      /\ HexForm(t) <=> (HexPrefixForm(s) \/ HexForm(s)) /\ c \in HexDigit
      /\ PointForm(t) <=> DecimalForm(s) /\ c = "."
      /\ RealForm(t) <=> (PointForm(s) \/ RealForm(s)) /\ c \in Digit
  BY FormsAppended
<1>3. /\ (NameForm(s) \/ DefinitionForm(s)) => n > 0 /\ s[1] \in Alpha
      /\ (LeadForm(s) \/ LabelForm(s)) => n > 0 /\ s[1] = "@"
      /\ KeywordForm(s) => n > 0 /\ s[1] = "."
      /\ (\/ ZeroForm(s) \/ DecimalForm(s) \/ HexPrefixForm(s) \/ HexForm(s)
          \/ PointForm(s) \/ RealForm(s)) => n > 0 /\ s[1] \in Digit \cup { "-" }
  BY FirstCharacters
<1>4. /\ DecimalForm(s) => ~HexPrefixForm(s) /\ ~HexForm(s) /\ ~PointForm(s) /\ ~RealForm(s)
      /\ HexPrefixForm(s) => ~HexForm(s) /\ ~PointForm(s) /\ ~RealForm(s)
      /\ HexForm(s) => ~PointForm(s) /\ ~RealForm(s)
      /\ PointForm(s) => ~RealForm(s)
      /\ ZeroForm(s) => DecimalForm(s)
      /\ DefinitionForm(s) => ~NameForm(s)
      /\ LeadForm(s) => ~LabelForm(s)
  BY NumbersExclude, NamesExclude
<1>5. CASE state = "S_INIT" /\ n = 0
  <2>1. label = FALSE
    BY <1>5
  <2>2. Following("S_INIT", c, label) =
           IF c \in Alpha THEN "S_IDENTIFIER"
           ELSE IF c = "." THEN "S_KEYWORD"
           ELSE IF c = "0" THEN "S_LEADING_ZERO"
           ELSE IF c \in Digit \/ c = "-" THEN "S_DECIMAL_NUMBER"
           ELSE IF c = "@" THEN "S_LABEL_LEAD"
           ELSE "S_UNKNOWN"
    BY <2>1, <1>5, FromInit
  <2> QED BY <1>1, <1>2, <1>3, <1>5, <2>2, CharsDistinct DEF Reached, NoForm, Distinct
<1>6. CASE state = "S_IDENTIFIER" /\ (NameForm(s) \/ LabelForm(s))
  <2>1. Following(state, c, label) =
          IF c \in NameChar THEN "S_IDENTIFIER"
          ELSE IF c = ":" /\ ~label THEN "S_LABEL_DEFINITION" ELSE "S_UNKNOWN"
    BY <1>6, Transitions
  <2> QED BY <1>1, <1>2, <1>3, <1>4, <1>6, <2>1, CharsDistinct
          DEF Reached, NoForm, Distinct
<1>7. CASE state = "S_LABEL_LEAD" /\ LeadForm(s)
  <2>1. Following(state, c, label) =
          IF c \in Alpha THEN "S_IDENTIFIER" ELSE "S_UNKNOWN"
    BY <1>7, Transitions
  <2> QED BY <1>1, <1>2, <1>3, <1>4, <1>7, <2>1, CharsDistinct
          DEF Reached, NoForm, Distinct
<1>8. CASE state = "S_LABEL_DEFINITION" /\ DefinitionForm(s)
  <2>1. Following(state, c, label) =
          "S_UNKNOWN"
    BY <1>8, Transitions
  <2> QED BY <1>1, <1>2, <1>3, <1>4, <1>8, <2>1, CharsDistinct
          DEF Reached, NoForm, Distinct
<1>9. CASE state = "S_KEYWORD" /\ KeywordForm(s)
  <2>1. Following(state, c, label) =
          IF c \in KeyChar THEN "S_KEYWORD" ELSE "S_UNKNOWN"
    BY <1>9, Transitions
  <2> QED BY <1>1, <1>2, <1>3, <1>4, <1>9, <2>1, CharsDistinct
          DEF Reached, NoForm, Distinct
<1>10. CASE state = "S_LEADING_ZERO" /\ ZeroForm(s)
  <2>1. Following(state, c, label) =
          IF c \in Digit THEN "S_DECIMAL_NUMBER"
          ELSE IF c = "x" THEN "S_HEXADECIMAL_PREFIX"
          ELSE IF c = "." THEN "S_REAL_PREFIX" ELSE "S_UNKNOWN"
    BY <1>10, Transitions
  <2> QED BY <1>1, <1>2, <1>3, <1>4, <1>10, <2>1, CharsDistinct
          DEF Reached, NoForm, Distinct
<1>11. CASE state = "S_DECIMAL_NUMBER" /\ DecimalForm(s) /\ ~ZeroForm(s)
  <2>1. Following(state, c, label) =
          IF c \in Digit THEN "S_DECIMAL_NUMBER"
          ELSE IF c = "." THEN "S_REAL_PREFIX" ELSE "S_UNKNOWN"
    BY <1>11, Transitions
  <2> QED BY <1>1, <1>2, <1>3, <1>4, <1>11, <2>1, CharsDistinct
          DEF Reached, NoForm, Distinct
<1>12. CASE state = "S_HEXADECIMAL_PREFIX" /\ HexPrefixForm(s)
  <2>1. Following(state, c, label) =
          IF c \in HexDigit THEN "S_HEXADECIMAL_NUMBER" ELSE "S_UNKNOWN"
    BY <1>12, Transitions
  <2> QED BY <1>1, <1>2, <1>3, <1>4, <1>12, <2>1, CharsDistinct
          DEF Reached, NoForm, Distinct
<1>13. CASE state = "S_HEXADECIMAL_NUMBER" /\ HexForm(s)
  <2>1. Following(state, c, label) =
          IF c \in HexDigit THEN "S_HEXADECIMAL_NUMBER" ELSE "S_UNKNOWN"
    BY <1>13, Transitions
  <2> QED BY <1>1, <1>2, <1>3, <1>4, <1>13, <2>1, CharsDistinct
          DEF Reached, NoForm, Distinct
<1>14. CASE state = "S_REAL_PREFIX" /\ PointForm(s)
  <2>1. Following(state, c, label) =
          IF c \in Digit THEN "S_REAL" ELSE "S_UNKNOWN"
    BY <1>14, Transitions
  <2> QED BY <1>1, <1>2, <1>3, <1>4, <1>14, <2>1, CharsDistinct
          DEF Reached, NoForm, Distinct
<1>15. CASE state = "S_REAL" /\ RealForm(s)
  <2>1. Following(state, c, label) =
          IF c \in Digit THEN "S_REAL" ELSE "S_UNKNOWN"
    BY <1>15, Transitions
  <2> QED BY <1>1, <1>2, <1>3, <1>4, <1>15, <2>1, CharsDistinct
          DEF Reached, NoForm, Distinct
<1>16. CASE state = "S_UNKNOWN" /\ NoForm(s)
  <2>1. Following(state, c, label) =
          "S_UNKNOWN"
    BY <1>16, Transitions
  <2> QED BY <1>1, <1>2, <1>3, <1>4, <1>16, <2>1, CharsDistinct
          DEF Reached, NoForm, Distinct
<1> QED BY <1>5, <1>6, <1>7, <1>8, <1>9, <1>10, <1>11, <1>12, <1>13, <1>14, <1>15, <1>16 DEF Reached

(* The forms are those of the grammar. *)
LEMMA FormsAreClasses ==
  ASSUME NEW s \in Seq(Chars), NEW n \in Nat \ {0}, Len(s) = n
  PROVE  /\ Grammar!Name(s) <=> NameForm(s)
         /\ (n > 1 /\ s[n] = ":" /\ Grammar!Name(SubSeq(s, 1, n - 1)))
              <=> DefinitionForm(s)
         /\ (s[1] = "@" /\ Grammar!Name(Tail(s))) <=> LabelForm(s)
         /\ (s[1] = "." /\ Grammar!AllFrom(s, 2, KeyChar)) <=> KeywordForm(s)
         /\ ScannedDecimal(s) <=> DecimalForm(s)
         /\ Grammar!Hexadecimal(s) <=> HexForm(s)
         /\ ScannedReal(s) <=> RealForm(s)
<1> DEFINE front(k) == SubSeq(s, 1, k)
<1>1. n \in Nat \ {0}
  OBVIOUS
<1>2. \A k \in 0 .. n :
        /\ front(k) \in Seq(Chars) /\ Len(front(k)) = k
        /\ \A i \in 1 .. k : front(k)[i] = s[i]
  OBVIOUS
<1>3. /\ Tail(s) \in Seq(Chars) /\ Len(Tail(s)) = n - 1
      /\ \A i \in 1 .. n - 1 : Tail(s)[i] = s[i + 1]
  OBVIOUS
<1>4. Grammar!Name(s) <=> NameForm(s)
  BY FormsOfGrammar DEF NameForm, Within
<1>5. \A k \in 1 .. n :
        ScannedDecimal(front(k))
          <=> s[1] \in Digit \cup { "-" } /\ \A i \in 2 .. k : s[i] \in Digit
  <2> SUFFICES ASSUME NEW k \in 1 .. n
               PROVE  ScannedDecimal(front(k))
                        <=> s[1] \in Digit \cup { "-" } /\ \A i \in 2 .. k : s[i] \in Digit
    OBVIOUS
  <2>1. front(k) \in Seq(Chars) /\ front(k) # << >> /\ Len(front(k)) = k
    BY <1>2
  <2>2. ScannedDecimal(front(k)) <=>
          front(k)[1] \in Digit \cup { "-" } /\ \A i \in 2 .. k : front(k)[i] \in Digit
    BY <2>1, FormsOfGrammar
  <2>3. \A i \in 1 .. k : front(k)[i] = s[i]
    BY <1>2
  <2> HIDE DEF front
  <2> QED BY <2>2, <2>3
<1>6. (n > 1 /\ s[n] = ":" /\ Grammar!Name(front(n - 1))) <=> DefinitionForm(s)
  <2>1. CASE n = 1
    BY <2>1 DEF DefinitionForm
  <2>2. CASE n > 1
    <3>1. PICK k \in 1 .. n : k = n - 1
      BY <1>1, <2>2
    <3>2. front(k) \in Seq(Chars) /\ front(k) # << >> /\ Len(front(k)) = k
      BY <1>2
    <3>3. Grammar!Name(front(k)) <=>
            front(k)[1] \in Alpha /\ \A i \in 2 .. k : front(k)[i] \in NameChar
      BY <3>2, FormsOfGrammar
    <3>4. \A i \in 1 .. k : front(k)[i] = s[i]
      BY <1>2
    <3>5. (n > 1 /\ s[n] = ":" /\ Grammar!Name(front(k))) <=> DefinitionForm(s)
      <4> HIDE DEF front
      <4> QED BY <3>1, <3>3, <3>4, <2>2 DEF DefinitionForm, Within
    <3> QED BY <3>1, <3>5
  <2> QED BY <1>1, <2>1, <2>2
<1>7. (s[1] = "@" /\ Grammar!Name(Tail(s))) <=> LabelForm(s)
  <2> DEFINE r == Tail(s)
  <2>1. /\ r \in Seq(Chars) /\ Len(r) = n - 1 /\ (r # << >> <=> n > 1)
        /\ \A i \in 1 .. n - 1 : r[i] = s[i + 1]
    <3>1. r \in Seq(Chars) /\ Len(r) = n - 1 /\ \A i \in 1 .. n - 1 : r[i] = s[i + 1]
      BY <1>3
    <3> HIDE DEF r
    <3>2. r = << >> <=> Len(r) = 0
      BY <3>1
    <3> QED BY <3>1, <3>2
  <2>2. Grammar!Name(r) <=>
          r # << >> /\ r[1] \in Alpha /\ \A i \in 2 .. n - 1 : r[i] \in NameChar
    BY <2>1, FormsOfGrammar
  <2> SUFFICES (s[1] = "@" /\ Grammar!Name(r)) <=> LabelForm(s)
    OBVIOUS
  <2> HIDE DEF r
  <2>3. CASE n = 1
    BY <2>1, <2>2, <2>3 DEF LabelForm
  <2>4. CASE n > 1
    <3>1. r[1] = s[1 + 1]
      BY <2>1, <2>4
    <3>2. (\A i \in 2 .. n - 1 : r[i] \in NameChar) <=> \A i \in 3 .. n : s[i] \in NameChar
      <4>1. ASSUME \A i \in 2 .. n - 1 : r[i] \in NameChar, NEW i \in 3 .. n
            PROVE  s[i] \in NameChar
        <5>1. i - 1 \in 2 .. n - 1 /\ r[i - 1] = s[(i - 1) + 1]
          BY <2>1
        <5> QED BY <4>1, <5>1
      <4>2. ASSUME \A i \in 3 .. n : s[i] \in NameChar, NEW i \in 2 .. n - 1
            PROVE  r[i] \in NameChar
        <5>1. i + 1 \in 3 .. n /\ r[i] = s[i + 1]
          BY <2>1
        <5> QED BY <4>2, <5>1
      <4> QED BY <4>1, <4>2
    <3> QED BY <2>1, <2>2, <3>1, <3>2, <2>4 DEF LabelForm, Within
  <2> QED BY <1>1, <2>3, <2>4
<1>8. (s[1] = "." /\ Grammar!AllFrom(s, 2, KeyChar)) <=> KeywordForm(s)
  BY <1>1 DEF Grammar!AllFrom, KeywordForm, Within
<1>9. ScannedDecimal(s) <=> DecimalForm(s)
  BY FormsOfGrammar DEF DecimalForm, Within
<1>10. Grammar!Hexadecimal(s) <=> HexForm(s)
  BY FormsOfGrammar DEF HexForm, Within
<1>11. ScannedReal(s) <=> RealForm(s)
  <2>1. ScannedReal(s) <=>
          \E dot \in 2 .. n - 1 :
            s[dot] = "." /\ ScannedDecimal(front(dot - 1))
              /\ \A i \in dot + 1 .. n : s[i] \in Digit
    BY FormsOfGrammar
  <2>2. \A dot \in 2 .. n - 1 :
          ScannedDecimal(front(dot - 1))
            <=> s[1] \in Digit \cup { "-" } /\ \A i \in 2 .. dot - 1 : s[i] \in Digit
    BY <1>5
  <2> HIDE DEF front
  <2>3. RealForm(s) <=>
          \E dot \in 2 .. n - 1 :
            /\ s[dot] = "." /\ s[1] \in Digit \cup { "-" }
            /\ \A i \in 2 .. dot - 1 : s[i] \in Digit
            /\ \A i \in dot + 1 .. n : s[i] \in Digit
    BY DEF RealForm, Within
  <2> QED BY <2>1, <2>2, <2>3
<1> QED BY <1>4, <1>6, <1>7, <1>8, <1>9, <1>10, <1>11

(* The type the state gives is the class of what was read. *)
LEMMA ClassOfState ==
  ASSUME NEW s \in Seq(Chars), s # << >>, s[1] # Quote,
         Reached(scan.state, s), scan.is_label \in BOOLEAN,
         scan.is_label <=> s[1] = "@", NEW stored
  PROVE  StateType(stored) = ScannedClass(s, stored)
<1>1. ~Grammar!Text(s)
  BY SameClasses DEF Grammar!Text
<1>2. PICK n \in Nat \ {0} : Len(s) = n
  OBVIOUS
<1>3. /\ Grammar!Name(s) <=> NameForm(s)
      /\ (Len(s) > 1 /\ s[Len(s)] = ":" /\ Grammar!Name(SubSeq(s, 1, Len(s) - 1)))
            <=> DefinitionForm(s)
      /\ (s[1] = "@" /\ Grammar!Name(Tail(s))) <=> LabelForm(s)
      /\ (s[1] = "." /\ Grammar!AllFrom(s, 2, KeyChar)) <=> KeywordForm(s)
      /\ ScannedDecimal(s) <=> DecimalForm(s)
      /\ Grammar!Hexadecimal(s) <=> HexForm(s)
      /\ ScannedReal(s) <=> RealForm(s)
  BY <1>2, FormsAreClasses
<1>4. Grammar!Lower \cup Grammar!Digit \cup { "-" } = KeyChar
  BY SameClasses DEF KeyChar
<1>5. /\ (NameForm(s) \/ DefinitionForm(s)) => s[1] \in Alpha
      /\ (LeadForm(s) \/ LabelForm(s)) => s[1] = "@"
      /\ KeywordForm(s) => s[1] = "."
      /\ (\/ ZeroForm(s) \/ DecimalForm(s) \/ HexPrefixForm(s) \/ HexForm(s)
          \/ PointForm(s) \/ RealForm(s)) => s[1] \in Digit \cup { "-" }
      /\ DecimalForm(s) => ~HexPrefixForm(s) /\ ~HexForm(s) /\ ~PointForm(s) /\ ~RealForm(s)
      /\ HexPrefixForm(s) => ~HexForm(s) /\ ~PointForm(s) /\ ~RealForm(s)
      /\ HexForm(s) => ~PointForm(s) /\ ~RealForm(s)
      /\ PointForm(s) => ~RealForm(s)
      /\ ZeroForm(s) => DecimalForm(s)
      /\ DefinitionForm(s) => ~NameForm(s)
      /\ LeadForm(s) => ~LabelForm(s)
  BY <1>2, FirstCharacters, NumbersExclude, NamesExclude
<1>6. CASE scan.state = "S_IDENTIFIER" /\ NameForm(s)
  <2>1. ScannedClass(s, stored) =
          IF stored \in OpcodeNames THEN "OPCODE" ELSE "UNRECOGNIZED_OPCODE"
    BY <1>1, <1>3, <1>4, <1>5, <1>6, CharsDistinct DEF ScannedClass, Distinct
  <2> QED BY <1>5, <1>6, <2>1, CharsDistinct DEF Distinct, StateType
<1>7. CASE scan.state = "S_IDENTIFIER" /\ LabelForm(s)
  <2>1. ScannedClass(s, stored) =
          "LABEL"
    BY <1>1, <1>3, <1>4, <1>5, <1>7, CharsDistinct DEF ScannedClass, Distinct
  <2> QED BY <1>5, <1>7, <2>1, CharsDistinct DEF Distinct, StateType
<1>8. CASE scan.state = "S_LABEL_LEAD" /\ LeadForm(s)
  <2>1. ScannedClass(s, stored) =
          "UNKNOWN"
    BY <1>1, <1>3, <1>4, <1>5, <1>8, CharsDistinct DEF ScannedClass, Distinct
  <2> QED BY <1>5, <1>8, <2>1, CharsDistinct DEF Distinct, StateType
<1>9. CASE scan.state = "S_LABEL_DEFINITION" /\ DefinitionForm(s)
  <2>1. ScannedClass(s, stored) =
          "LABEL_DEF"
    BY <1>1, <1>3, <1>4, <1>5, <1>9, CharsDistinct DEF ScannedClass, Distinct
  <2> QED BY <1>5, <1>9, <2>1, CharsDistinct DEF Distinct, StateType
<1>10. CASE scan.state = "S_KEYWORD" /\ KeywordForm(s)
  <2>1. ScannedClass(s, stored) =
          IF stored \in KeywordNames THEN "KEYWORD" ELSE "UNRECOGNIZED_KW"
    BY <1>1, <1>3, <1>4, <1>5, <1>10, CharsDistinct DEF ScannedClass, Distinct
  <2> QED BY <1>5, <1>10, <2>1, CharsDistinct DEF Distinct, StateType
<1>11. CASE scan.state = "S_LEADING_ZERO" /\ ZeroForm(s)
  <2>1. ScannedClass(s, stored) =
          "DEC_INTEGER"
    BY <1>1, <1>3, <1>4, <1>5, <1>11, CharsDistinct DEF ScannedClass, Distinct
  <2> QED BY <1>5, <1>11, <2>1, CharsDistinct DEF Distinct, StateType
<1>12. CASE scan.state = "S_DECIMAL_NUMBER" /\ DecimalForm(s)
  <2>1. ScannedClass(s, stored) =
          "DEC_INTEGER"
    BY <1>1, <1>3, <1>4, <1>5, <1>12, CharsDistinct DEF ScannedClass, Distinct
  <2> QED BY <1>5, <1>12, <2>1, CharsDistinct DEF Distinct, StateType
<1>13. CASE scan.state = "S_HEXADECIMAL_PREFIX" /\ HexPrefixForm(s)
  <2>1. ScannedClass(s, stored) =
          "UNKNOWN"
    BY <1>1, <1>3, <1>4, <1>5, <1>13, CharsDistinct DEF ScannedClass, Distinct
  <2> QED BY <1>5, <1>13, <2>1, CharsDistinct DEF Distinct, StateType
<1>14. CASE scan.state = "S_HEXADECIMAL_NUMBER" /\ HexForm(s)
  <2>1. ScannedClass(s, stored) =
          "HEX_INTEGER"
    BY <1>1, <1>3, <1>4, <1>5, <1>14, CharsDistinct DEF ScannedClass, Distinct
  <2> QED BY <1>5, <1>14, <2>1, CharsDistinct DEF Distinct, StateType
<1>15. CASE scan.state = "S_REAL_PREFIX" /\ PointForm(s)
  <2>1. ScannedClass(s, stored) =
          "UNKNOWN"
    BY <1>1, <1>3, <1>4, <1>5, <1>15, CharsDistinct DEF ScannedClass, Distinct
  <2> QED BY <1>5, <1>15, <2>1, CharsDistinct DEF Distinct, StateType
<1>16. CASE scan.state = "S_REAL" /\ RealForm(s)
  <2>1. ScannedClass(s, stored) =
          "REAL"
    BY <1>1, <1>3, <1>4, <1>5, <1>16, CharsDistinct DEF ScannedClass, Distinct
  <2> QED BY <1>5, <1>16, <2>1, CharsDistinct DEF Distinct, StateType
<1>17. CASE scan.state = "S_UNKNOWN" /\ NoForm(s)
  <2>1. ScannedClass(s, stored) =
          "UNKNOWN"
    BY <1>1, <1>3, <1>4, <1>5, <1>17, CharsDistinct DEF ScannedClass, Distinct, NoForm
  <2> QED BY <1>5, <1>17, <2>1, CharsDistinct DEF Distinct, StateType
<1>18. Len(s) # 0
  BY <1>2
<1> QED BY <1>18, <1>6, <1>7, <1>8, <1>9, <1>10, <1>11, <1>12, <1>13, <1>14, <1>15, <1>16, <1>17 DEF Reached

-----------------------------------------------------------------------------
(* Texts: which of their characters are escaped.                           *)

(* A set of numbers has a least one (from the well-foundedness of <).      *)
LEMMA LeastNumber ==
  ASSUME NEW S, S \subseteq Nat, NEW n \in S
  PROVE  \E least \in S : \A k \in S : least <= k
<1> DEFINE below == OpToRel(<, Nat)
<1>1. IsWellFoundedOn(below, Nat)
  BY NatLessThanWellFounded
<1>2. PICK least \in S : \A y \in S : ~(<< y, least >> \in below)
  BY <1>1, WFMin
<1>3. \A k \in S : ~(k < least)
  BY <1>2 DEF OpToRel
<1> QED BY <1>3

LEMMA EscapedIs ==
  ASSUME NEW s, NEW from, NEW i
  PROVE  Grammar!Escaped(s, from, i) <=>
           \E n \in 1 .. i - from :
             /\ n % 2 = 1
             /\ \A k \in i - n .. i - 1 : s[k] = Backslash
             /\ i - n = from \/ s[i - n - 1] # Backslash
BY SameClasses DEF Grammar!Escaped

LEMMA NothingEscapedAtFirst ==
  ASSUME NEW s, NEW from \in Nat
  PROVE  ~Grammar!Escaped(s, from, from)
BY EscapedIs

(* Whether a character is escaped, from the one before it. *)
LEMMA EscapedNext ==
  ASSUME NEW s, NEW from \in Nat, NEW i \in Nat, from <= i
  PROVE  Grammar!Escaped(s, from, i + 1)
           <=> s[i] = Backslash /\ ~Grammar!Escaped(s, from, i)
<1>1. ASSUME Grammar!Escaped(s, from, i + 1)
      PROVE  s[i] = Backslash /\ ~Grammar!Escaped(s, from, i)
  <2>1. PICK n \in 1 .. (i + 1) - from :
          /\ n % 2 = 1
          /\ \A k \in (i + 1) - n .. (i + 1) - 1 : s[k] = Backslash
          /\ (i + 1) - n = from \/ s[(i + 1) - n - 1] # Backslash
    BY <1>1, EscapedIs
  <2>2. s[i] = Backslash
    BY <2>1
  <2>3. ASSUME NEW m \in 1 .. i - from, m % 2 = 1,
               \A k \in i - m .. i - 1 : s[k] = Backslash,
               i - m = from \/ s[i - m - 1] # Backslash
        PROVE  FALSE
    <3>1. CASE n = m + 1
      BY <2>1, <2>3, <3>1
    <3>2. CASE n > m + 1
      <4>1. i - m - 1 \in (i + 1) - n .. (i + 1) - 1 /\ i - m # from
        BY <3>2
      <4> QED BY <2>1, <2>3, <4>1
    <3>3. CASE n < m + 1
      <4>1. /\ (i + 1) - n - 1 \in i - m .. i - 1 /\ (i + 1) - n # from
        BY <3>3
      <4> QED BY <2>1, <2>3, <4>1
    <3> QED BY <3>1, <3>2, <3>3
  <2> QED BY <2>2, <2>3, EscapedIs
<1>2. ASSUME s[i] = Backslash, ~Grammar!Escaped(s, from, i)
      PROVE  Grammar!Escaped(s, from, i + 1)
  <2> DEFINE S == { a \in from .. i : \A k \in a .. i - 1 : s[k] = Backslash }
  <2>1. S \subseteq Nat /\ i \in S
    OBVIOUS
  <2>2. PICK a \in S : \A k \in S : a <= k
    BY <2>1, LeastNumber
  <2>3. a \in from .. i /\ \A k \in a .. i - 1 : s[k] = Backslash
    OBVIOUS
  <2>4. a = from \/ s[a - 1] # Backslash
    <3>1. ASSUME a # from, s[a - 1] = Backslash PROVE FALSE
      <4>1. a - 1 \in from .. i /\ \A k \in a - 1 .. i - 1 : s[k] = Backslash
        BY <2>3, <3>1
      <4>2. a - 1 \in S
        BY <4>1
      <4> QED BY <2>2, <2>3, <4>2
    <3> QED BY <3>1
  <2>5. PICK n \in 1 .. (i + 1) - from : n = (i + 1) - a
    BY <2>3
  <2>6. n % 2 = 1
    <3>1. CASE n = 1
      BY <3>1
    <3>2. CASE n > 1
      <4>1. PICK m \in 1 .. i - from : m = i - a /\ n = m + 1
        BY <2>3, <2>5, <3>2
      <4>2. i - m = a
        BY <4>1, <2>3
      <4>3. m % 2 # 1
        BY <4>2, <2>3, <2>4, <1>2, EscapedIs
      <4> QED BY <4>1, <4>3
    <3> QED BY <3>1, <3>2
  <2>7. \A k \in (i + 1) - n .. (i + 1) - 1 : s[k] = Backslash
    BY <2>3, <2>5, <1>2
  <2>8. (i + 1) - n = from \/ s[(i + 1) - n - 1] # Backslash
    BY <2>3, <2>4, <2>5
  <2> QED BY <2>5, <2>6, <2>7, <2>8, EscapedIs
<1> QED BY <1>1, <1>2

(* In a part of a text the same characters are escaped. *)
LEMMA EscapedInPart ==
  ASSUME NEW s, NEW t, NEW b \in Nat, NEW n \in Nat,
         \A k \in 1 .. n : s[k] = t[b + k], NEW i \in 2 .. n
  PROVE  Grammar!Escaped(s, 2, i) <=> Grammar!Escaped(t, b + 2, b + i)
<1>1. ASSUME NEW m \in 1 .. i - 2
      PROVE  /\ (\A k \in i - m .. i - 1 : s[k] = Backslash)
                  <=> \A k \in (b + i) - m .. (b + i) - 1 : t[k] = Backslash
             /\ (i - m = 2 \/ s[i - m - 1] # Backslash)
                  <=> (b + i) - m = b + 2 \/ t[(b + i) - m - 1] # Backslash
  <2>1. ASSUME \A k \in i - m .. i - 1 : s[k] = Backslash,
               NEW k \in (b + i) - m .. (b + i) - 1
        PROVE  t[k] = Backslash
    <3>1. k - b \in i - m .. i - 1 /\ k - b \in 1 .. n /\ b + (k - b) = k
      OBVIOUS
    <3> QED BY <2>1, <3>1
  <2>2. ASSUME \A k \in (b + i) - m .. (b + i) - 1 : t[k] = Backslash,
               NEW k \in i - m .. i - 1
        PROVE  s[k] = Backslash
    <3>1. b + k \in (b + i) - m .. (b + i) - 1 /\ k \in 1 .. n
      OBVIOUS
    <3> QED BY <2>2, <3>1
  <2>3. CASE i - m = 2
    BY <2>1, <2>2, <2>3
  <2>4. CASE i - m > 2
    <3>1. i - m - 1 \in 1 .. n /\ b + (i - m - 1) = (b + i) - m - 1
      BY <2>4
    <3>2. s[i - m - 1] = t[(b + i) - m - 1]
      BY <3>1
    <3> QED BY <2>1, <2>2, <3>2, <2>4
  <2> QED BY <2>3, <2>4
<1>2. i - 2 = (b + i) - (b + 2)
  OBVIOUS
<1> QED BY <1>1, <1>2, EscapedIs

-----------------------------------------------------------------------------
(* Where tokens begin and end.                                             *)

LEMMA MinIs ==
  ASSUME NEW S, S \subseteq Int, NEW m \in S, \A k \in S : m <= k
  PROVE  Grammar!Min(S) = m
<1>1. \A x \in S : (\A y \in S : x <= y) => x = m
  OBVIOUS
<1>2. \E x \in S : \A y \in S : x <= y
  OBVIOUS
<1> QED BY <1>1, <1>2 DEF Grammar!Min

BlankAt(txt, a, k) ==
  \/ txt[k + 1] \in Space
  \/ \E c \in a .. k : txt[c + 1] = "#" /\ \A j \in c .. k : txt[j + 1] # Newline

(* Between positions a and b there are blanks only, and at b is none.      *)
BeginsAt(txt, a, b) ==
  /\ \A k \in a .. b - 1 : BlankAt(txt, a, k)
  /\ b = Len(txt) \/ ~BlankAt(txt, a, b)

(* A text that begins at b would end at position e.                        *)
Stops(txt, b, e) ==
  /\ txt[e + 1] \in { Quote, Newline }
  /\ ~Grammar!Escaped(txt, b + 2, e + 1)

LEMMA BeginIs ==
  ASSUME input \in Seq(Chars), NEW a \in Nat, NEW b \in a .. Len(input),
         BeginsAt(input, a, b)
  PROVE  Grammar!Begin(a) = b
<1> DEFINE S == { k \in a .. Len(input) : k = Len(input) \/ ~BlankAt(input, a, k) }
<1>1. \A k : Grammar!Blank(a, k) <=> BlankAt(input, a, k)
  BY SameClasses DEF Grammar!Blank, BlankAt
<1>2. Grammar!Begin(a) = Grammar!Min(S)
  <2>1. S = { k \in a .. Len(input) : k = Len(input) \/ ~Grammar!Blank(a, k) }
    BY <1>1
  <2> HIDE DEF S
  <2> QED BY <2>1 DEF Grammar!Begin, Grammar!Ends
<1>3. S \subseteq Int /\ b \in S /\ \A k \in S : b <= k
  BY DEF BeginsAt
<1> QED BY <1>2, <1>3, MinIs

LEMMA WordEndIs ==
  ASSUME input \in Seq(Chars), NEW b \in Nat, NEW e \in b .. Len(input),
         \A k \in b + 1 .. e : input[k] \notin Space,
         e = Len(input) \/ input[e + 1] \in Space
  PROVE  Grammar!WordEnd(b) = e
<1> DEFINE S == { k \in b .. Len(input) : k = Len(input) \/ input[k + 1] \in Space }
<1>1. Grammar!WordEnd(b) = Grammar!Min(S)
  BY SameClasses DEF Grammar!WordEnd, Grammar!Ends
<1>2. S \subseteq Int /\ e \in S
  OBVIOUS
<1>3. ASSUME NEW k \in S PROVE e <= k
  <2>1. k \in b .. Len(input) /\ (k < e => k + 1 \in b + 1 .. e /\ k # Len(input))
    OBVIOUS
  <2> QED BY <2>1
<1> QED BY <1>1, <1>2, <1>3, MinIs

LEMMA TextStopIs ==
  ASSUME input \in Seq(Chars), NEW b \in Nat, NEW e \in b + 1 .. Len(input),
         \A k \in b + 1 .. e - 1 : ~Stops(input, b, k),
         e = Len(input) \/ Stops(input, b, e)
  PROVE  Grammar!TextStop(b) = e
<1> DEFINE S == { k \in b + 1 .. Len(input) : k = Len(input) \/ Stops(input, b, k) }
<1>1. Grammar!TextStop(b) = Grammar!Min(S)
  BY SameClasses DEF Grammar!TextStop, Grammar!Ends, Stops
<1>2. S \subseteq Int /\ e \in S
  OBVIOUS
<1>3. ASSUME NEW k \in S PROVE e <= k
  OBVIOUS
<1> QED BY <1>1, <1>2, <1>3, MinIs

(* There is a first space, and a place where a text stops.                 *)
LEMMA WordEndAfter ==
  ASSUME input \in Seq(Chars), NEW b \in Nat, NEW c \in b .. Len(input),
         \A k \in b + 1 .. c : input[k] \notin Space
  PROVE  Grammar!WordEnd(b) \in c .. Len(input)
<1> DEFINE S == { k \in c .. Len(input) : k = Len(input) \/ input[k + 1] \in Space }
<1>1. S \subseteq Nat /\ Len(input) \in S
  OBVIOUS
<1>2. PICK e \in S : \A k \in S : e <= k
  BY <1>1, LeastNumber
<1>3. e \in b .. Len(input) /\ e \in c .. Len(input)
  OBVIOUS
<1>4. e = Len(input) \/ input[e + 1] \in Space
  OBVIOUS
<1>5. ASSUME NEW k \in b + 1 .. e PROVE input[k] \notin Space
  <2>1. CASE k <= c
    BY <2>1
  <2>2. CASE k > c
    <3>1. k - 1 \in c .. Len(input) /\ k - 1 < e /\ (k - 1) + 1 = k
      BY <2>2, <1>3
    <3>2. ASSUME k - 1 \in S PROVE FALSE
      <4>1. e <= k - 1
        <5> HIDE DEF S
        <5> QED BY <3>2, <1>2
      <4> QED BY <3>1, <4>1, <1>3
    <3> QED BY <3>1, <3>2
  <2> QED BY <2>1, <2>2, <1>3
<1>6. Grammar!WordEnd(b) = e
  BY <1>3, <1>4, <1>5, WordEndIs
<1> QED BY <1>3, <1>6

LEMMA TextStopAfter ==
  ASSUME input \in Seq(Chars), NEW b \in Nat, NEW c \in b + 1 .. Len(input),
         \A k \in b + 1 .. c - 1 : ~Stops(input, b, k)
  PROVE  /\ Grammar!TextStop(b) \in c .. Len(input)
         /\ \/ Grammar!TextStop(b) = Len(input)
            \/ Stops(input, b, Grammar!TextStop(b))
<1> DEFINE S == { k \in c .. Len(input) : k = Len(input) \/ Stops(input, b, k) }
<1>1. S \subseteq Nat /\ Len(input) \in S
  OBVIOUS
<1>2. PICK e \in S : \A k \in S : e <= k
  BY <1>1, LeastNumber
<1>3. e \in b + 1 .. Len(input) /\ e \in c .. Len(input)
  OBVIOUS
<1>4. e = Len(input) \/ Stops(input, b, e)
  OBVIOUS
<1>5. ASSUME NEW k \in b + 1 .. e - 1 PROVE ~Stops(input, b, k)
  <2>1. CASE k < c
    BY <2>1
  <2>2. CASE k >= c
    <3>1. k \in c .. Len(input) /\ k < e
      BY <2>2, <1>3
    <3>2. k \notin S
      BY <3>1, <1>2, <1>3
    <3> QED BY <3>1, <3>2
  <2> QED BY <2>1, <2>2, <1>3
<1>6. Grammar!TextStop(b) = e
  BY <1>3, <1>4, <1>5, TextStopIs
<1> QED BY <1>3, <1>4, <1>6

-----------------------------------------------------------------------------
(* The inductive invariant: what the scanner knows.                        *)

ScanType ==
  [state : States, store : Seq(Chars), consumed_size : 0 .. Capacity + 1,
   handling_spaces : BOOLEAN, is_label : BOOLEAN, overflow : BOOLEAN,
   complete : BOOLEAN]

(* The characters looked at; a newline that breaks a text is not consumed. *)
Fed(s) == s.consumed_size + IF s.complete /\ s.handling_spaces THEN 1 ELSE 0

(* The store has as many of them as it takes.                              *)
Stores(txt, b, s) ==
  /\ Len(s.store) = IF Fed(s) <= Capacity THEN Fed(s) ELSE Capacity
  /\ \A i \in 1 .. Len(s.store) : s.store[i] = txt[b + i]
  /\ s.overflow <=> Fed(s) > Capacity
  /\ Fed(s) <= Capacity + 1 /\ b + Fed(s) <= Len(txt)

SpaceAt(txt, k) == k < Len(txt) /\ txt[k + 1] \in Space

(* n characters from position b on are of a token that is no text, ...     *)
InWord(txt, b, n, s) ==
  /\ n > 0 => txt[b + 1] # Quote
  /\ ~s.handling_spaces
  /\ \A k \in b + 1 .. b + n : txt[k] \notin Space
  /\ s.complete <=> n > 0 /\ SpaceAt(txt, b + n)
  /\ Reached(s.state, SubSeq(txt, b + 1, b + n))

(* ... of a text that is open, or that a newline has broken, ...           *)
InText(txt, b, n, s) ==
  /\ n > 0 /\ txt[b + 1] = Quote /\ s.handling_spaces
  /\ \A e \in b + 1 .. b + n - 1 : ~Stops(txt, b, e)
  /\ s.complete =>
       /\ b + n < Len(txt) /\ txt[b + n + 1] = Newline
       /\ Stops(txt, b, b + n) /\ s.state = "S_UNKNOWN"
  /\ ~s.complete =>
       s.state = IF Grammar!Escaped(txt, b + 2, b + n + 1)
                 THEN "S_STRING_ESCAPE" ELSE "S_STRING_OPENED"

(* ... or of a text that is closed, and what follows it without a space.   *)
PastText(txt, b, n, s) ==
  /\ n > 1 /\ txt[b + 1] = Quote /\ ~s.handling_spaces
  /\ \E t \in b + 1 .. b + n - 1 :
       /\ \A e \in b + 1 .. t - 1 : ~Stops(txt, b, e)
       /\ txt[t + 1] = Quote /\ Stops(txt, b, t)
       /\ \A k \in t + 2 .. b + n : txt[k] \notin Space
       /\ s.state = IF b + n = t + 1 THEN "S_STRING_END" ELSE "S_UNKNOWN"
  /\ s.complete <=> SpaceAt(txt, b + n)

Scans(txt, b, n, s) ==
  InWord(txt, b, n, s) \/ InText(txt, b, n, s) \/ PastText(txt, b, n, s)

First == cursor - scan.consumed_size

InToken ==
  /\ start <= First /\ BeginsAt(input, start, First)
  /\ Stores(input, First, scan)
  /\ scan.is_label <=> scan.consumed_size > 0 /\ input[First + 1] = "@"
  /\ Scans(input, First, scan.consumed_size, scan)

(* Position k is in a comment that began before it, after a.               *)
InComment(txt, a, k) ==
  \E c \in a .. k - 1 : txt[c + 1] = "#" /\ \A j \in c .. k - 1 : txt[j + 1] # Newline

InBlanks ==
  /\ \A k \in start .. cursor - 1 : BlankAt(input, start, k)
  /\ pc = "blank" => Eof \/ ~InComment(input, start, cursor)
  /\ pc = "comment" => Eof \/ input[cursor + 1] = "#" \/ InComment(input, start, cursor)

CacheHolds ==
  has_cache => Cached = Grammar!TokenAt(start) /\ cursor = Grammar!After(start)

LexerInv ==
  /\ TypeOK
  /\ scan \in ScanType /\ (pc # "token" => scan = Fresh)
  /\ pc \in { "blank", "comment" } => InBlanks
  /\ pc = "token" => InToken
  /\ CacheHolds

-----------------------------------------------------------------------------
(* A character more of each kind of token.                                 *)

LEMMA ReachedStates ==
  ASSUME NEW state, NEW s, NEW n \in Nat, Len(s) = n, Reached(state, s)
  PROVE  /\ state = "S_INIT" <=> n = 0
         /\ state \in States \ { "S_STRING_OPENED", "S_STRING_ESCAPE", "S_STRING_END" }
<1>1. state = "S_INIT" => n = 0
  BY DEF Reached
<1>2. n = 0 => state = "S_INIT"
  BY FirstCharacters DEF Reached, NoForm
<1>3. state \in States \ { "S_STRING_OPENED", "S_STRING_ESCAPE", "S_STRING_END" }
  BY DEF Reached, States
<1> QED BY <1>1, <1>2, <1>3

LEMMA WordGoesOn ==
  ASSUME NEW txt \in Seq(Chars), NEW b \in Nat, NEW n \in Nat, b + n < Len(txt),
         NEW s, NEW r, InWord(txt, b, n, s), ~s.complete,
         NEW c, c = txt[b + n + 1], c \notin Space, ~(n = 0 /\ c = Quote),
         s.is_label \in BOOLEAN, s.is_label <=> n > 0 /\ txt[b + 1] = "@",
         r.state = Following(s.state, c, s.is_label),
         ~r.handling_spaces, r.complete <=> SpaceAt(txt, b + (n + 1))
  PROVE  InWord(txt, b, n + 1, r)
<1> DEFINE part(k) == SubSeq(txt, b + 1, b + k)
<1>1. \A k \in 0 .. n + 1 :
        Len(part(k)) = k /\ \A i \in 1 .. k : part(k)[i] = txt[b + i]
  OBVIOUS
<1>2. Reached(s.state, part(n))
  BY DEF InWord
<1>3. Reached(r.state, part(n + 1))
  <2> DEFINE p == part(n)
             q == part(n + 1)
             label == s.is_label
  <2>1. Len(p) = n /\ Len(q) = n + 1 /\ q[n + 1] = c
    BY <1>1
  <2>2. \A i \in 1 .. n : q[i] = p[i]
    BY <1>1
  <2>3. label \in BOOLEAN /\ (label <=> n > 0 /\ p[1] = "@")
    BY <1>1
  <2>4. Reached(s.state, p)
    BY <1>2
  <2> HIDE DEF p, q, label
  <2>5. Reached(Following(s.state, c, label), q)
    BY <2>1, <2>2, <2>3, <2>4, ReachedAppended
  <2> QED BY <2>5 DEF q, label
<1>4. txt[b + 1] # Quote
  BY DEF InWord
<1>5. \A k \in b + 1 .. b + (n + 1) : txt[k] \notin Space
  BY DEF InWord
<1> QED BY <1>3, <1>4, <1>5 DEF InWord

LEMMA TextOpens ==
  ASSUME NEW txt \in Seq(Chars), NEW b \in Nat, b < Len(txt), txt[b + 1] = Quote,
         NEW r, r.state = Following("S_INIT", Quote, FALSE),
         r.handling_spaces, ~r.complete
  PROVE  InText(txt, b, 1, r)
<1>1. r.state = "S_STRING_OPENED"
  <2>1. Following("S_INIT", Quote, FALSE) = "S_STRING_OPENED"
    BY FromInit, CharsDistinct DEF Distinct
  <2> QED BY <2>1
<1>2. PICK n \in Nat : n = 1
  OBVIOUS
<1>3. ~Grammar!Escaped(txt, b + 2, b + n + 1)
  <2>1. b + n + 1 = b + 2
    BY <1>2
  <2> QED BY <2>1, NothingEscapedAtFirst
<1>4. \A e \in b + 1 .. b + n - 1 : FALSE
  BY <1>2
<1>5. n > 0
  BY <1>2
<1>6. InText(txt, b, n, r)
  BY <1>1, <1>3, <1>4, <1>5 DEF InText
<1> QED BY <1>2, <1>6

(* How the next character of an open text changes the state. *)
LEMMA TextState ==
  ASSUME NEW txt \in Seq(Chars), NEW b \in Nat, NEW n \in Nat, b + n < Len(txt),
         NEW s, InText(txt, b, n, s), ~s.complete, NEW c, c = txt[b + n + 1]
  PROVE  /\ n > 0 /\ txt[b + 1] = Quote
         /\ \A e \in b + 1 .. b + n - 1 : ~Stops(txt, b, e)
         /\ s.state \in { "S_STRING_OPENED", "S_STRING_ESCAPE" }
         /\ Stops(txt, b, b + n) <=> c \in { Quote, Newline } /\ s.state = "S_STRING_OPENED"
         /\ Grammar!Escaped(txt, b + 2, b + (n + 1) + 1)
              <=> c = Backslash /\ s.state = "S_STRING_OPENED"
         /\ \A label : Following(s.state, c, label) =
              IF s.state = "S_STRING_ESCAPE" THEN "S_STRING_OPENED"
              ELSE IF c = Newline THEN "S_UNKNOWN"
              ELSE IF c = Backslash THEN "S_STRING_ESCAPE"
              ELSE IF c = Quote THEN "S_STRING_END" ELSE "S_STRING_OPENED"
<1> DEFINE escaped == Grammar!Escaped(txt, b + 2, b + n + 1)
           next == Grammar!Escaped(txt, b + 2, b + (n + 1) + 1)
<1>1. /\ n > 0 /\ txt[b + 1] = Quote
      /\ \A e \in b + 1 .. b + n - 1 : ~Stops(txt, b, e)
      /\ s.state = IF escaped THEN "S_STRING_ESCAPE" ELSE "S_STRING_OPENED"
  BY DEF InText
<1>2. next <=> c = Backslash /\ ~escaped
  <2>1. PICK i \in Nat : i = b + n + 1
    OBVIOUS
  <2>2. b + 2 \in Nat /\ b + 2 <= i
    BY <1>1, <2>1
  <2>3. Grammar!Escaped(txt, b + 2, i + 1)
          <=> txt[i] = Backslash /\ ~Grammar!Escaped(txt, b + 2, i)
    BY <2>2, EscapedNext
  <2> QED BY <2>1, <2>3
<1>3. Stops(txt, b, b + n) <=> c \in { Quote, Newline } /\ ~escaped
  BY DEF Stops
<1>4. \A label : Following(s.state, c, label) =
        IF s.state = "S_STRING_ESCAPE" THEN "S_STRING_OPENED"
        ELSE IF c = Newline THEN "S_UNKNOWN"
        ELSE IF c = Backslash THEN "S_STRING_ESCAPE"
        ELSE IF c = Quote THEN "S_STRING_END" ELSE "S_STRING_OPENED"
  BY <1>1, TextTransitions
<1> HIDE DEF escaped, next
<1>5. /\ s.state = "S_STRING_OPENED" <=> ~escaped
      /\ s.state \in { "S_STRING_OPENED", "S_STRING_ESCAPE" }
  BY <1>1
<1> QED BY <1>1, <1>2, <1>3, <1>4, <1>5 DEF next

LEMMA TextBreaks ==
  ASSUME NEW txt \in Seq(Chars), NEW b \in Nat, NEW n \in Nat, b + n < Len(txt),
         NEW s, InText(txt, b, n, s), ~s.complete, NEW c, c = txt[b + n + 1],
         s.state = "S_STRING_OPENED", c = Newline,
         NEW r, NEW label, r.state = Following(s.state, c, label),
         r.complete, r.handling_spaces
  PROVE  InText(txt, b, n, r)
<1>1. /\ n > 0 /\ txt[b + 1] = Quote
      /\ \A e \in b + 1 .. b + n - 1 : ~Stops(txt, b, e)
      /\ Stops(txt, b, b + n)
  <2> DEFINE d == c
  <2>1. d = txt[b + n + 1] /\ d \in { Quote, Newline }
    OBVIOUS
  <2> HIDE DEF d
  <2>2. /\ n > 0 /\ txt[b + 1] = Quote
        /\ \A e \in b + 1 .. b + n - 1 : ~Stops(txt, b, e)
        /\ Stops(txt, b, b + n) <=> d \in { Quote, Newline } /\ s.state = "S_STRING_OPENED"
    BY <2>1, TextState
  <2> QED BY <2>1, <2>2
<1>2. r.state = "S_UNKNOWN"
  BY TextTransitions
<1> QED BY <1>1, <1>2 DEF InText

LEMMA TextCloses ==
  ASSUME NEW txt \in Seq(Chars), NEW b \in Nat, NEW n \in Nat, b + n < Len(txt),
         NEW s, InText(txt, b, n, s), ~s.complete, NEW c, c = txt[b + n + 1],
         s.state = "S_STRING_OPENED", c = Quote,
         NEW r, NEW label, r.state = Following(s.state, c, label),
         ~r.handling_spaces, r.complete <=> SpaceAt(txt, b + (n + 1))
  PROVE  PastText(txt, b, n + 1, r)
<1>1. /\ n > 0 /\ txt[b + 1] = Quote
      /\ \A e \in b + 1 .. b + n - 1 : ~Stops(txt, b, e)
      /\ Stops(txt, b, b + n)
  BY TextState
<1>2. r.state = "S_STRING_END"
  BY TextTransitions, CharsDistinct DEF Distinct
<1>3. /\ b + n \in b + 1 .. b + (n + 1) - 1 /\ txt[(b + n) + 1] = Quote
      /\ b + (n + 1) = (b + n) + 1
      /\ \A k \in (b + n) + 2 .. b + (n + 1) : txt[k] \notin Space
  BY <1>1
<1> QED BY <1>1, <1>2, <1>3 DEF PastText

LEMMA TextGoesOn ==
  ASSUME NEW txt \in Seq(Chars), NEW b \in Nat, NEW n \in Nat, b + n < Len(txt),
         NEW s, InText(txt, b, n, s), ~s.complete, NEW c, c = txt[b + n + 1],
         ~(s.state = "S_STRING_OPENED" /\ c \in { Quote, Newline }),
         NEW r, NEW label, r.state = Following(s.state, c, label),
         r.handling_spaces, ~r.complete
  PROVE  InText(txt, b, n + 1, r)
<1> DEFINE next == Grammar!Escaped(txt, b + 2, b + (n + 1) + 1)
<1>1. /\ n > 0 /\ txt[b + 1] = Quote
      /\ \A e \in b + 1 .. b + n - 1 : ~Stops(txt, b, e)
      /\ ~Stops(txt, b, b + n)
      /\ s.state \in { "S_STRING_OPENED", "S_STRING_ESCAPE" }
      /\ next <=> c = Backslash /\ s.state = "S_STRING_OPENED"
  BY TextState
<1>2. \A e \in b + 1 .. b + (n + 1) - 1 : ~Stops(txt, b, e)
  BY <1>1
<1>3. r.state = IF next THEN "S_STRING_ESCAPE" ELSE "S_STRING_OPENED"
  <2> HIDE DEF next
  <2> QED BY <1>1, TextTransitions
<1> QED BY <1>1, <1>2, <1>3 DEF InText, next

LEMMA PastGoesOn ==
  ASSUME NEW txt \in Seq(Chars), NEW b \in Nat, NEW n \in Nat, b + n < Len(txt),
         NEW s, NEW r, PastText(txt, b, n, s), ~s.complete,
         NEW c, c = txt[b + n + 1], NEW label,
         r.state = Following(s.state, c, label),
         ~r.handling_spaces, r.complete <=> SpaceAt(txt, b + (n + 1))
  PROVE  PastText(txt, b, n + 1, r)
<1>1. PICK t \in b + 1 .. b + n - 1 :
        /\ \A e \in b + 1 .. t - 1 : ~Stops(txt, b, e)
        /\ txt[t + 1] = Quote /\ Stops(txt, b, t)
        /\ \A k \in t + 2 .. b + n : txt[k] \notin Space
        /\ s.state = IF b + n = t + 1 THEN "S_STRING_END" ELSE "S_UNKNOWN"
  BY DEF PastText
<1>2. n > 1 /\ txt[b + 1] = Quote /\ c \notin Space
  BY DEF PastText, SpaceAt
<1>3. r.state = "S_UNKNOWN"
  BY <1>1, Transitions
<1>4. \A k \in t + 2 .. b + (n + 1) : txt[k] \notin Space
  BY <1>1, <1>2
<1>5. t \in b + 1 .. b + (n + 1) - 1 /\ b + (n + 1) # t + 1
  BY <1>1
<1> QED BY <1>1, <1>2, <1>3, <1>4, <1>5 DEF PastText

-----------------------------------------------------------------------------
(* The steps of the scanner keep the invariant.                            *)

LEMMA InputIsText ==
  ASSUME TypeOK
  PROVE  input \in Seq(Chars) /\ Len(input) \in Nat /\ cursor \in 0 .. Len(input)
BY LexerAssumption DEF TypeOK

(* What one round of the loop does, in the words of the invariant.         *)
LEMMA ConsumeIs ==
  ASSUME LexerInv, Consume,
         NEW b, b = First, NEW n, n = scan.consumed_size, NEW c, c = input[cursor + 1]
  PROVE  /\ n \in 0 .. Capacity + 1 /\ b \in Nat /\ b + n = cursor /\ cursor < Len(input)
         /\ c \in Chars /\ c = input[b + n + 1]
         /\ ~scan.complete /\ ~scan.overflow /\ n <= Capacity
         /\ Len(scan.store) = n
         /\ Scans(input, b, n, scan)
         /\ scan'.state = Following(scan.state, c, scan.is_label)
         /\ scan'.store = IF n < Capacity THEN Append(scan.store, c) ELSE scan.store
         /\ scan'.overflow <=> n = Capacity
         /\ scan'.is_label <=> scan.is_label \/ (scan.state = "S_INIT" /\ c = "@")
         /\ scan'.handling_spaces <=> HandlesSpaces(c)
         /\ scan'.consumed_size = n + IF Breaks(c) THEN 0 ELSE 1
         /\ scan'.complete <=> Breaks(c) \/ (~HandlesSpaces(c) /\ SpaceAt(input, b + (n + 1)))
         /\ cursor' = IF Breaks(c) THEN cursor ELSE cursor + 1
         /\ UNCHANGED << input, has_cache, cache, buffer, call, pc, nul, returned, start >>
<1>1. /\ input \in Seq(Chars) /\ Len(input) \in Nat /\ cursor \in 0 .. Len(input)
      /\ scan \in ScanType /\ InToken /\ start \in 0 .. cursor /\ Capacity \in Nat \ {0}
  BY InputIsText, LexerAssumption DEF LexerInv, Consume, TypeOK
<1>2. /\ n \in 0 .. Capacity + 1 /\ b \in Nat /\ b + n = cursor
  BY <1>1 DEF ScanType, InToken, First
<1>3. cursor < Len(input) /\ Peeked = c /\ Advanced = cursor + 1 /\ c \in Chars
  BY <1>1 DEF Consume, Eof, Peeked, Advanced
<1>4. ~scan.complete /\ ~scan.overflow
  BY DEF Consume
<1>5. Fed(scan) = n
  BY <1>2, <1>4 DEF Fed
<1>6. n <= Capacity /\ Len(scan.store) = n
  BY <1>1, <1>2, <1>4, <1>5 DEF InToken, Stores
<1>7. Scans(input, b, n, scan)
  BY <1>1 DEF InToken
<1>8. Feeds(scan.store) <=> n < Capacity
  BY <1>6 DEF Feeds
<1>9. SpaceFollows <=> SpaceAt(input, b + (n + 1))
  <2>1. b + (n + 1) = cursor + 1 /\ (cursor + 1) + 1 = cursor + 2
    BY <1>1, <1>2
  <2> QED BY <2>1 DEF SpaceFollows, SpaceAt
<1>10. scan' =
         [state           |-> Following(scan.state, c, scan.is_label),
          store           |-> IF n < Capacity THEN Append(scan.store, c) ELSE scan.store,
          consumed_size   |-> n + IF Breaks(c) THEN 0 ELSE 1,
          handling_spaces |-> HandlesSpaces(c),
          is_label        |-> scan.is_label \/ (scan.state = "S_INIT" /\ c = "@"),
          overflow        |-> ~(n < Capacity),
          complete        |-> \/ Breaks(c)
                              \/ ~HandlesSpaces(c) /\ SpaceFollows]
  <2>1. scan' =
         [state           |-> Following(scan.state, c, scan.is_label),
          store           |-> IF Feeds(scan.store) THEN Append(scan.store, c) ELSE scan.store,
          consumed_size   |-> n + IF Breaks(c) THEN 0 ELSE 1,
          handling_spaces |-> HandlesSpaces(c),
          is_label        |-> scan.is_label \/ (scan.state = "S_INIT" /\ c = "@"),
          overflow        |-> ~Feeds(scan.store),
          complete        |-> \/ Breaks(c)
                              \/ ~HandlesSpaces(c) /\ SpaceFollows]
    BY <1>3 DEF Consume
  <2> QED BY <2>1, <1>8
<1>11. cursor' = IF Breaks(c) THEN cursor ELSE cursor + 1
  BY <1>3 DEF Consume
<1>12. UNCHANGED << input, has_cache, cache, buffer, call, pc, nul, returned, start >>
  BY DEF Consume
<1>13. /\ scan'.state = Following(scan.state, c, scan.is_label)
       /\ scan'.store = IF n < Capacity THEN Append(scan.store, c) ELSE scan.store
       /\ scan'.consumed_size = n + IF Breaks(c) THEN 0 ELSE 1
  BY <1>10
<1>14. /\ scan'.overflow <=> n = Capacity
       /\ scan'.is_label <=> scan.is_label \/ (scan.state = "S_INIT" /\ c = "@")
       /\ scan'.handling_spaces <=> HandlesSpaces(c)
  <2>1. n < Capacity <=> n # Capacity
    BY <1>1, <1>2, <1>6
  <2>2. scan'.overflow <=> ~(n < Capacity)
    BY <1>10
  <2>3. scan'.is_label <=> scan.is_label \/ (scan.state = "S_INIT" /\ c = "@")
    BY <1>10
  <2>4. scan'.handling_spaces <=> HandlesSpaces(c)
    BY <1>10
  <2> QED BY <2>1, <2>2, <2>3, <2>4
<1>15. scan'.complete <=> Breaks(c) \/ (~HandlesSpaces(c) /\ SpaceAt(input, b + (n + 1)))
  BY <1>9, <1>10
<1> QED BY <1>2, <1>3, <1>4, <1>6, <1>7, <1>11, <1>12, <1>13, <1>14, <1>15

LEMMA WordStates ==
  ASSUME NEW txt \in Seq(Chars), NEW b \in Nat, NEW n \in Nat, b + n <= Len(txt),
         NEW s, InWord(txt, b, n, s)
  PROVE  /\ s.state \in States \ { "S_STRING_OPENED", "S_STRING_ESCAPE", "S_STRING_END" }
         /\ s.state = "S_INIT" <=> n = 0
<1>1. Len(SubSeq(txt, b + 1, b + n)) = n
  OBVIOUS
<1> QED BY <1>1, ReachedStates DEF InWord

LEMMA ScansStates ==
  ASSUME NEW txt \in Seq(Chars), NEW b \in Nat, NEW n \in Nat, b + n <= Len(txt),
         NEW s, Scans(txt, b, n, s)
  PROVE  s.state \in States /\ (s.state = "S_INIT" <=> n = 0)
<1>1. CASE InWord(txt, b, n, s)
  BY <1>1, WordStates
<1>2. CASE InText(txt, b, n, s)
  BY <1>2 DEF InText, States
<1>3. CASE PastText(txt, b, n, s)
  BY <1>3 DEF PastText, States
<1> QED BY <1>1, <1>2, <1>3 DEF Scans

LEMMA ConsumeScans ==
  ASSUME LexerInv, Consume,
         NEW b, b = First, NEW n, n = scan.consumed_size, NEW c, c = input[cursor + 1]
  PROVE  /\ Breaks(c) => HandlesSpaces(c)
         /\ Scans(input, b, n + IF Breaks(c) THEN 0 ELSE 1, scan')
<1>1. /\ n \in Nat /\ b \in Nat /\ b + n = cursor /\ b + n < Len(input)
      /\ b + n <= Len(input)
      /\ input \in Seq(Chars) /\ Len(input) \in Nat
      /\ c \in Chars /\ c = input[b + n + 1] /\ ~scan.complete
      /\ Scans(input, b, n, scan)
  BY ConsumeIs, InputIsText DEF LexerInv
<1>2. /\ scan'.state = Following(scan.state, c, scan.is_label)
      /\ scan'.handling_spaces <=> HandlesSpaces(c)
      /\ scan'.complete <=> Breaks(c) \/ (~HandlesSpaces(c) /\ SpaceAt(input, b + (n + 1)))
  BY ConsumeIs
<1>3. /\ scan \in ScanType /\ scan.is_label \in BOOLEAN
      /\ scan.is_label <=> n > 0 /\ input[b + 1] = "@"
  BY DEF LexerInv, Consume, InToken, ScanType
<1>4. c \notin Space \/ (n > 0 /\ ~InWord(input, b, n, scan))
  <2>1. CASE n = 0
    <3>1. BeginsAt(input, start, b) /\ b # Len(input)
      BY <1>1 DEF LexerInv, Consume, InToken
    <3>2. input[b + 1] \notin Space
      BY <3>1 DEF BeginsAt, BlankAt
    <3>3. b + n + 1 = b + 1
      BY <1>1, <2>1
    <3> QED BY <1>1, <3>2, <3>3
  <2>2. CASE n > 0
    BY <1>1, <2>2 DEF InWord, SpaceAt
  <2> QED BY <1>1, <2>1, <2>2
<1>5. CASE InWord(input, b, n, scan)
  <2>1. /\ scan.state # "S_STRING_OPENED" /\ (scan.state = "S_INIT" <=> n = 0)
        /\ ~scan.handling_spaces
    <3>1. /\ scan.state \in States \ { "S_STRING_OPENED", "S_STRING_ESCAPE", "S_STRING_END" }
          /\ scan.state = "S_INIT" <=> n = 0
      BY <1>1, <1>5, WordStates
    <3> QED BY <3>1, <1>5 DEF InWord
  <2>2. ~Breaks(c) /\ (HandlesSpaces(c) <=> n = 0 /\ c = Quote)
    BY <2>1 DEF Breaks, HandlesSpaces
  <2>3. CASE n = 0 /\ c = Quote
    <3>1. /\ scan'.state = Following("S_INIT", Quote, FALSE)
          /\ scan'.handling_spaces /\ ~scan'.complete
      <4>1. scan.is_label = FALSE
        BY <1>3, <2>3
      <4>2. HandlesSpaces(c) /\ ~Breaks(c) /\ scan.state = "S_INIT"
        BY <2>1, <2>2, <2>3
      <4> QED BY <1>2, <2>3, <4>1, <4>2
    <3>2. b < Len(input) /\ input[b + 1] = Quote
      BY <1>1, <2>3
    <3>3. InText(input, b, 1, scan')
      BY <1>1, <3>1, <3>2, TextOpens
    <3> QED BY <2>2, <2>3, <3>3 DEF Scans
  <2>4. CASE ~(n = 0 /\ c = Quote)
    <3>1. ~scan'.handling_spaces /\ (scan'.complete <=> SpaceAt(input, b + (n + 1)))
      BY <1>2, <2>2, <2>4
    <3>2. c \notin Space
      BY <1>4, <1>5
    <3>3. InWord(input, b, n + 1, scan')
      BY <1>1, <1>2, <1>3, <1>5, <2>4, <3>1, <3>2, WordGoesOn
    <3> QED BY <2>2, <3>3 DEF Scans
  <2> QED BY <2>3, <2>4
<1>6. CASE InText(input, b, n, scan)
  <2>1. scan.handling_spaces /\ scan.state \in { "S_STRING_OPENED", "S_STRING_ESCAPE" }
    BY <1>1, <1>6, TextState DEF InText
  <2>2. /\ HandlesSpaces(c) <=> ~(scan.state = "S_STRING_OPENED" /\ c = Quote)
        /\ Breaks(c) <=> scan.state = "S_STRING_OPENED" /\ c = Newline
    BY <2>1 DEF HandlesSpaces, Breaks
  <2>3. Newline # Quote
    BY CharsDistinct DEF Distinct
  <2>4. CASE Breaks(c)
    <3>1. scan'.complete /\ scan'.handling_spaces
      BY <1>2, <2>2, <2>3, <2>4
    <3>2. InText(input, b, n, scan')
      BY <1>1, <1>2, <1>6, <2>2, <2>4, <3>1, TextBreaks
    <3> QED BY <1>1, <1>2, <2>4, <3>1, <3>2 DEF Scans
  <2>5. CASE scan.state = "S_STRING_OPENED" /\ c = Quote
    <3>1. /\ ~scan'.handling_spaces /\ ~Breaks(c)
          /\ scan'.complete <=> SpaceAt(input, b + (n + 1))
      BY <1>2, <2>2, <2>3, <2>5
    <3>2. PastText(input, b, n + 1, scan')
      BY <1>1, <1>2, <1>6, <2>5, <3>1, TextCloses
    <3> QED BY <3>1, <3>2 DEF Scans
  <2>6. CASE ~(scan.state = "S_STRING_OPENED" /\ c \in { Quote, Newline })
    <3>1. scan'.handling_spaces /\ ~Breaks(c) /\ ~scan'.complete
      BY <1>2, <2>2, <2>6
    <3>2. InText(input, b, n + 1, scan')
      BY <1>1, <1>2, <1>6, <2>6, <3>1, TextGoesOn
    <3> QED BY <3>1, <3>2 DEF Scans
  <2> QED BY <2>2, <2>4, <2>5, <2>6
<1>7. CASE PastText(input, b, n, scan)
  <2>1. scan.state \in { "S_STRING_END", "S_UNKNOWN" } /\ ~scan.handling_spaces
    BY <1>7 DEF PastText
  <2>2. ~Breaks(c) /\ ~HandlesSpaces(c)
    BY <2>1 DEF Breaks, HandlesSpaces
  <2>3. PastText(input, b, n + 1, scan')
    BY <1>1, <1>2, <1>7, <2>2, PastGoesOn
  <2> QED BY <2>2, <2>3 DEF Scans
<1> QED BY <1>1, <1>5, <1>6, <1>7 DEF Scans

LEMMA ConsumeKeeps ==
  ASSUME LexerInv, Consume
  PROVE  LexerInv'
<1> DEFINE b == First
           n == scan.consumed_size
           c == input[cursor + 1]
           m == n + IF Breaks(c) THEN 0 ELSE 1
<1>1. /\ n \in 0 .. Capacity + 1 /\ b \in Nat /\ b + n = cursor /\ cursor < Len(input)
      /\ c \in Chars /\ c = input[b + n + 1]
      /\ n <= Capacity /\ Len(scan.store) = n
      /\ scan'.store = IF n < Capacity THEN Append(scan.store, c) ELSE scan.store
      /\ scan'.overflow <=> n = Capacity
      /\ scan'.consumed_size = m
      /\ cursor' = IF Breaks(c) THEN cursor ELSE cursor + 1
      /\ UNCHANGED << input, has_cache, cache, buffer, call, pc, nul, returned, start >>
  BY ConsumeIs
<1>2. /\ scan'.is_label <=> scan.is_label \/ (scan.state = "S_INIT" /\ c = "@")
      /\ scan'.handling_spaces <=> HandlesSpaces(c)
      /\ scan'.complete <=> Breaks(c) \/ (~HandlesSpaces(c) /\ SpaceAt(input, b + (n + 1)))
      /\ Scans(input, b, n, scan)
      /\ ~scan.complete
  BY ConsumeIs
<1>3. Scans(input, b, m, scan') /\ (Breaks(c) => HandlesSpaces(c))
  BY ConsumeScans
<1>4. /\ input \in Seq(Chars) /\ Len(input) \in Nat /\ Capacity \in Nat \ {0}
      /\ scan \in ScanType /\ InToken /\ pc = "token" /\ TypeOK
  BY InputIsText, LexerAssumption DEF LexerInv, Consume
<1>5. m \in 0 .. Capacity + 1 /\ m \in Nat /\ First' = b /\ b + m <= Len(input)
      /\ cursor' = b + m /\ m \in { n, n + 1 }
  <2>1. m \in { n, n + 1 } /\ m \in 0 .. Capacity + 1
    BY <1>1, <1>4
  <2>2. cursor' = b + m
    BY <1>1
  <2>3. First' = b
    <3>1. First' = cursor' - scan'.consumed_size /\ scan'.consumed_size = m
      BY <1>1 DEF First
    <3>2. m \in Nat /\ b \in Nat
      BY <1>1, <1>4, <2>1
    <3> HIDE DEF b, m
    <3> QED BY <2>2, <3>1, <3>2
  <2> QED BY <1>1, <1>4, <2>1, <2>2, <2>3
<1>6. Fed(scan') = n + 1
  BY <1>1, <1>2, <1>3, <1>5 DEF Fed
<1>7. /\ scan'.store \in Seq(Chars)
      /\ Len(scan'.store) = IF n + 1 <= Capacity THEN n + 1 ELSE Capacity
      /\ \A i \in 1 .. Len(scan'.store) : scan'.store[i] = input[b + i]
  <2>1. /\ scan.store \in Seq(Chars)
        /\ \A i \in 1 .. n : scan.store[i] = input[b + i]
    BY <1>1, <1>4 DEF InToken, Stores, ScanType
  <2>2. CASE n < Capacity
    <3>1. scan'.store = Append(scan.store, c)
      BY <1>1, <2>2
    <3>2. /\ scan'.store \in Seq(Chars) /\ Len(scan'.store) = n + 1
          /\ \A i \in 1 .. n : scan'.store[i] = scan.store[i]
          /\ scan'.store[n + 1] = c
      BY <1>1, <2>1, <3>1, OneMore
    <3>3. n + 1 <= Capacity /\ b + (n + 1) = b + n + 1 /\ n \in Nat
      BY <1>1, <1>4, <2>2
    <3>4. ASSUME NEW i \in 1 .. n + 1 PROVE scan'.store[i] = input[b + i]
      <4>1. CASE i \in 1 .. n
        BY <2>1, <3>2, <4>1
      <4>2. CASE i = n + 1
        BY <1>1, <3>2, <3>3, <4>2
      <4> QED BY <3>3, <4>1, <4>2
    <3> QED BY <3>2, <3>3, <3>4
  <2>3. CASE n = Capacity
    BY <1>1, <1>4, <2>1, <2>3
  <2> QED BY <1>1, <1>4, <2>2, <2>3
<1>8. Stores(input, b, scan')
  <2>1. /\ scan'.overflow <=> n + 1 > Capacity
        /\ n + 1 <= Capacity + 1 /\ b + (n + 1) <= Len(input)
    BY <1>1, <1>4
  <2> QED BY <1>6, <1>7, <2>1 DEF Stores
<1>9. /\ scan'.state \in States
      /\ scan.state = "S_INIT" <=> n = 0
  BY <1>1, <1>2, <1>3, <1>4, <1>5, ScansStates
<1>10. scan' \in ScanType
  <2>1. scan' = [state |-> scan'.state, store |-> scan'.store,
                 consumed_size |-> scan'.consumed_size,
                 handling_spaces |-> scan'.handling_spaces,
                 is_label |-> scan'.is_label, overflow |-> scan'.overflow,
                 complete |-> scan'.complete]
    BY DEF Consume
  <2>2. /\ scan'.handling_spaces \in BOOLEAN /\ scan'.is_label \in BOOLEAN
        /\ scan'.overflow \in BOOLEAN /\ scan'.complete \in BOOLEAN
    BY <1>4 DEF Consume, HandlesSpaces, Breaks, ScanType
  <2>3. scan'.store \in Seq(Chars) /\ scan'.consumed_size \in 0 .. Capacity + 1
    BY <1>1, <1>5, <1>7
  <2> QED BY <1>9, <2>1, <2>2, <2>3 DEF ScanType
<1>11. scan'.is_label <=> m > 0 /\ input[b + 1] = "@"
  <2>1. scan.is_label <=> n > 0 /\ input[b + 1] = "@"
    BY <1>4 DEF InToken
  <2>2. CASE n = 0
    <3>1. scan.state = "S_INIT" /\ c = input[b + 1]
      BY <1>1, <1>9, <2>2
    <3>2. ~Breaks(c)
      BY <3>1 DEF Breaks
    <3> QED BY <1>2, <1>5, <2>1, <2>2, <3>1, <3>2
  <2>3. CASE n > 0
    BY <1>1, <1>2, <1>5, <1>9, <2>1, <2>3
  <2> QED BY <1>1, <2>2, <2>3
<1>12. InToken'
  <2>1. input' = input /\ start' = start
    BY <1>1
  <2>2. start <= b /\ BeginsAt(input, start, b)
    BY <1>4 DEF InToken
  <2>3. scan'.consumed_size = m
    BY <1>1
  <2> HIDE DEF b, m
  <2> QED BY <1>3, <1>5, <1>8, <1>11, <2>1, <2>2, <2>3 DEF InToken
<1>13. TypeOK'
  <2>1. /\ scan'.state \in States /\ Len(scan'.store) <= Capacity
        /\ scan'.consumed_size \in 0 .. Capacity + 1
    BY <1>1, <1>4, <1>5, <1>7, <1>9
  <2>2. cursor' \in 0 .. Len(input) /\ start \in 0 .. cursor'
    BY <1>1, <1>4, <1>5 DEF TypeOK
  <2> QED BY <1>1, <1>4, <2>1, <2>2 DEF TypeOK
<1>14. CacheHolds'
  <2>1. ~has_cache'
    BY <1>1, <1>4 DEF TypeOK
  <2> QED BY <2>1 DEF CacheHolds
<1> QED BY <1>1, <1>4, <1>10, <1>12, <1>13, <1>14 DEF LexerInv

(* From the blanks before it to the first character of a token.            *)
LEMMA InitInv == Init => LexerInv
<1> SUFFICES ASSUME Init PROVE LexerInv
  OBVIOUS
<1>1. /\ input \in Inputs /\ input \in Seq(Chars) /\ cursor = 0 /\ start = 0
      /\ has_cache = FALSE /\ cache = "UNKNOWN" /\ buffer = << >>
      /\ call = "none" /\ pc = "idle" /\ scan = Fresh /\ returned.type = "UNKNOWN"
      /\ Capacity \in Nat \ {0} /\ nul = Capacity
  BY LexerAssumption DEF Init
<1>2. Fresh \in ScanType /\ Fresh.state \in States /\ Fresh.consumed_size = 0
      /\ Len(Fresh.store) = 0
  <2>1. << >> \in Seq(Chars) /\ Len(<< >>) = 0
    OBVIOUS
  <2>2. 0 \in 0 .. Capacity + 1
    BY <1>1
  <2> QED BY <2>1, <2>2 DEF Fresh, ScanType, States
<1>3. TypeOK
  <2>1. /\ Len(scan.store) <= Capacity /\ scan.consumed_size \in 0 .. Capacity + 1
        /\ nul \in 0 .. Capacity + 1
    BY <1>1, <1>2
  <2>2. buffer \in Seq(Chars) /\ Len(buffer) <= Capacity
    BY <1>1
  <2>3. Len(input) \in Nat
    BY <1>1
  <2>4. cursor \in 0 .. Len(input) /\ start \in 0 .. cursor
    BY <1>1, <2>3
  <2>5. cache \in Types /\ returned.type \in Types
    BY <1>1 DEF Types
  <2>6. /\ has_cache \in BOOLEAN /\ pc \in { "idle", "blank", "comment", "token" }
        /\ call \in { "none", "peek", "copy", "read", "advance" }
        /\ pc = "idle" <=> call = "none"
        /\ call # "none" => ~has_cache
    BY <1>1
  <2> QED BY <1>1, <1>2, <2>1, <2>2, <2>4, <2>5, <2>6 DEF TypeOK
<1>4. CacheHolds
  BY <1>1 DEF CacheHolds
<1> QED BY <1>1, <1>2, <1>3, <1>4 DEF LexerInv

LEMMA FreshIs ==
  /\ Fresh \in ScanType /\ Fresh.state = "S_INIT" /\ Fresh.consumed_size = 0
  /\ Fresh.store = << >> /\ Len(Fresh.store) = 0
  /\ ~Fresh.handling_spaces /\ ~Fresh.is_label /\ ~Fresh.overflow /\ ~Fresh.complete
<1>1. << >> \in Seq(Chars) /\ Len(<< >>) = 0
  OBVIOUS
<1>2. 0 \in 0 .. Capacity + 1
  BY LexerAssumption
<1> QED BY <1>1, <1>2 DEF Fresh, ScanType, States

(* A token begins. *)
LEMMA TokenBegins ==
  ASSUME TypeOK, scan = Fresh, BeginsAt(input, start, cursor)
  PROVE  InToken
<1>1. /\ input \in Seq(Chars) /\ Len(input) \in Nat /\ cursor \in 0 .. Len(input)
      /\ start \in 0 .. cursor /\ Capacity \in Nat \ {0}
  BY InputIsText, LexerAssumption DEF TypeOK
<1>2. First = cursor
  BY <1>1, FreshIs DEF First
<1>3. Fed(scan) = 0
  BY FreshIs DEF Fed
<1>4. Stores(input, cursor, scan)
  BY <1>1, <1>3, FreshIs DEF Stores
<1>5. PICK n \in Nat : n = 0
  OBVIOUS
<1>6. InWord(input, cursor, n, scan)
  <2>1. Len(SubSeq(input, cursor + 1, cursor + n)) = 0
    BY <1>1, <1>5
  <2>2. Reached("S_INIT", SubSeq(input, cursor + 1, cursor + n))
    BY <2>1 DEF Reached
  <2>3. \A k \in cursor + 1 .. cursor + n : FALSE
    BY <1>1, <1>5
  <2> QED BY <1>5, <2>2, <2>3, FreshIs DEF InWord
<1>7. Scans(input, First, scan.consumed_size, scan)
  BY <1>2, <1>5, <1>6, FreshIs DEF Scans
<1>8. start <= First
  BY <1>1, <1>2
<1> QED BY <1>2, <1>4, <1>7, <1>8, FreshIs DEF InToken

(* What separates tokens, a character more. *)
LEMMA BlankWhen ==
  ASSUME NEW txt, NEW a \in Nat, NEW k \in Nat, a <= k
  PROVE  BlankAt(txt, a, k) <=>
           \/ txt[k + 1] \in Space \/ txt[k + 1] = "#"
           \/ InComment(txt, a, k)
<1>1. "#" # Newline /\ Newline \in Space
  BY Classes, Marks
<1>2. ASSUME txt[k + 1] = "#" PROVE BlankAt(txt, a, k)
  BY <1>1, <1>2 DEF BlankAt
<1>3. ASSUME InComment(txt, a, k), txt[k + 1] \notin Space PROVE BlankAt(txt, a, k)
  <2>1. PICK c \in a .. k - 1 : txt[c + 1] = "#" /\ \A j \in c .. k - 1 : txt[j + 1] # Newline
    BY <1>3 DEF InComment
  <2>2. c \in a .. k /\ \A j \in c .. k : j \in c .. k - 1 \/ j = k
    OBVIOUS
  <2>3. \A j \in c .. k : txt[j + 1] # Newline
    BY <1>1, <1>3, <2>1, <2>2
  <2> QED BY <2>1, <2>2, <2>3 DEF BlankAt
<1>4. ASSUME BlankAt(txt, a, k), txt[k + 1] \notin Space, txt[k + 1] # "#"
      PROVE  InComment(txt, a, k)
  <2>1. PICK c \in a .. k : txt[c + 1] = "#" /\ \A j \in c .. k : txt[j + 1] # Newline
    BY <1>4 DEF BlankAt
  <2>2. c # k
    BY <1>4, <2>1
  <2>3. c \in a .. k - 1 /\ \A j \in c .. k - 1 : j \in c .. k
    BY <2>2
  <2> QED BY <2>1, <2>3 DEF InComment
<1>5. txt[k + 1] \in Space => BlankAt(txt, a, k)
  BY DEF BlankAt
<1> QED BY <1>2, <1>3, <1>4, <1>5

LEMMA CommentGoesOn ==
  ASSUME NEW txt, NEW a \in Nat, NEW k \in Nat, a <= k
  PROVE  InComment(txt, a, k + 1)
           <=> txt[k + 1] # Newline /\ (txt[k + 1] = "#" \/ InComment(txt, a, k))
<1>1. ASSUME InComment(txt, a, k + 1)
      PROVE  txt[k + 1] # Newline /\ (txt[k + 1] = "#" \/ InComment(txt, a, k))
  <2>1. PICK c \in a .. (k + 1) - 1 :
          txt[c + 1] = "#" /\ \A j \in c .. (k + 1) - 1 : txt[j + 1] # Newline
    BY <1>1 DEF InComment
  <2>2. c \in a .. k /\ k \in c .. (k + 1) - 1 /\ \A j \in c .. k - 1 : j \in c .. (k + 1) - 1
    OBVIOUS
  <2>3. txt[k + 1] # Newline
    BY <2>1, <2>2
  <2>4. CASE c = k
    BY <2>1, <2>3, <2>4
  <2>5. CASE c # k
    <3>1. c \in a .. k - 1
      BY <2>2, <2>5
    <3> QED BY <2>1, <2>2, <2>3, <3>1 DEF InComment
  <2> QED BY <2>4, <2>5
<1>2. ASSUME txt[k + 1] # Newline, txt[k + 1] = "#" PROVE InComment(txt, a, k + 1)
  <2>1. k \in a .. (k + 1) - 1 /\ \A j \in k .. (k + 1) - 1 : j = k
    OBVIOUS
  <2> QED BY <1>2, <2>1 DEF InComment
<1>3. ASSUME txt[k + 1] # Newline, InComment(txt, a, k) PROVE InComment(txt, a, k + 1)
  <2>1. PICK c \in a .. k - 1 : txt[c + 1] = "#" /\ \A j \in c .. k - 1 : txt[j + 1] # Newline
    BY <1>3 DEF InComment
  <2>2. c \in a .. (k + 1) - 1 /\ \A j \in c .. (k + 1) - 1 : j \in c .. k - 1 \/ j = k
    OBVIOUS
  <2>3. \A j \in c .. (k + 1) - 1 : txt[j + 1] # Newline
    BY <1>3, <2>1, <2>2
  <2> QED BY <2>1, <2>2, <2>3 DEF InComment
<1> QED BY <1>1, <1>2, <1>3

LEMMA IgnoreKeeps ==
  ASSUME LexerInv, Ignore
  PROVE  LexerInv'
<1>1. /\ TypeOK /\ pc \in { "blank", "comment" } /\ InBlanks /\ scan = Fresh
      /\ scan \in ScanType /\ call # "none" /\ ~has_cache
      /\ UNCHANGED << input, has_cache, cache, buffer, call, scan, nul, returned, start >>
  BY DEF LexerInv, Ignore, TypeOK
<1>2. /\ input \in Seq(Chars) /\ Len(input) \in Nat /\ cursor \in 0 .. Len(input)
      /\ start \in 0 .. cursor /\ start \in Nat /\ cursor \in Nat /\ start <= cursor
  <2>1. input \in Seq(Chars) /\ Len(input) \in Nat /\ cursor \in 0 .. Len(input)
        /\ start \in 0 .. cursor
    BY <1>1, InputIsText DEF TypeOK
  <2> QED BY <2>1
<1>3. "NUL" \notin Space \cup { "#" } /\ Newline \in Space /\ "#" # Newline /\ "#" \notin Space
  BY Classes, Marks DEF Special
<1>4. \A k \in start .. cursor - 1 : BlankAt(input, start, k)
  BY <1>1 DEF InBlanks
<1>5. /\ BlankAt(input, start, cursor) <=>
           \/ input[cursor + 1] \in Space \/ input[cursor + 1] = "#"
           \/ InComment(input, start, cursor)
      /\ InComment(input, start, cursor + 1) <=>
           /\ input[cursor + 1] # Newline
           /\ input[cursor + 1] = "#" \/ InComment(input, start, cursor)
  BY <1>2, BlankWhen, CommentGoesOn
<1>6. /\ pc' \in { "blank", "comment", "token" } /\ cursor' \in { cursor, Advanced }
      /\ Advanced \in cursor .. Len(input)
      /\ ~Eof => Peeked = input[cursor + 1] /\ Advanced = cursor + 1
      /\ Eof => Peeked = "NUL" /\ Advanced = cursor
  BY <1>2 DEF Ignore, Eof, Peeked, Advanced
<1>7. TypeOK'
  <2>1. cursor' \in 0 .. Len(input) /\ start \in 0 .. cursor'
    BY <1>2, <1>6
  <2>2. pc' \in { "idle", "blank", "comment", "token" } /\ (pc' = "idle" <=> call' = "none")
    BY <1>1, <1>6
  <2> QED BY <1>1, <2>1, <2>2 DEF TypeOK
<1>8. ASSUME cursor' = cursor + 1, BlankAt(input, start, cursor)
      PROVE  \A k \in start .. cursor' - 1 : BlankAt(input, start, k)
  <2>1. \A k \in start .. cursor' - 1 : k \in start .. cursor - 1 \/ k = cursor
    BY <1>2, <1>8
  <2> QED BY <1>4, <1>8, <2>1
<1>9. CASE pc = "blank" /\ Peeked \in Space
  <2>1. ~Eof
    BY <1>3, <1>6, <1>9
  <2>2. cursor' = cursor + 1 /\ pc' = "blank" /\ input[cursor + 1] \in Space
    BY <1>3, <1>6, <1>9, <2>1 DEF Ignore
  <2>3. ~InComment(input, start, cursor)
    BY <1>1, <1>9, <2>1 DEF InBlanks
  <2>4. BlankAt(input, start, cursor) /\ ~InComment(input, start, cursor')
    BY <1>3, <1>5, <2>2, <2>3
  <2>5. InBlanks'
    BY <1>1, <1>8, <2>2, <2>4 DEF InBlanks
  <2> QED BY <1>1, <1>7, <2>2, <2>5 DEF LexerInv, CacheHolds
<1>10. CASE pc = "blank" /\ Peeked = "#"
  <2>1. ~Eof
    BY <1>3, <1>6, <1>10
  <2>2. cursor' = cursor /\ pc' = "comment" /\ input[cursor + 1] = "#"
    BY <1>3, <1>6, <1>10, <2>1 DEF Ignore
  <2>3. InBlanks'
    BY <1>1, <1>4, <2>2 DEF InBlanks
  <2> QED BY <1>1, <1>7, <2>2, <2>3 DEF LexerInv, CacheHolds
<1>11. CASE pc = "comment" /\ Eof
  <2>1. cursor' = cursor /\ pc' = "blank"
    BY <1>6, <1>11 DEF Ignore
  <2>2. Eof'
    BY <1>1, <1>11, <2>1 DEF Eof
  <2>3. InBlanks'
    BY <1>1, <1>4, <2>1, <2>2 DEF InBlanks
  <2> QED BY <1>1, <1>7, <2>1, <2>3 DEF LexerInv, CacheHolds
<1>12. CASE pc = "comment" /\ ~Eof
  <2>1. /\ cursor' = cursor + 1
        /\ pc' = IF input[cursor + 1] = Newline THEN "blank" ELSE "comment"
    BY <1>6, <1>12 DEF Ignore
  <2>2. input[cursor + 1] = "#" \/ InComment(input, start, cursor)
    BY <1>1, <1>12 DEF InBlanks
  <2>3. /\ BlankAt(input, start, cursor)
        /\ InComment(input, start, cursor') <=> input[cursor + 1] # Newline
    BY <1>3, <1>5, <2>1, <2>2
  <2>4. InBlanks'
    BY <1>1, <1>8, <2>1, <2>3 DEF InBlanks
  <2>5. pc' # "token"
    BY <2>1
  <2>6. pc' \in { "blank", "comment" }
    BY <2>1
  <2> QED BY <1>1, <1>7, <2>4, <2>5 DEF LexerInv, CacheHolds
<1>13. CASE pc = "blank" /\ Peeked \notin Space \cup { "#" }
  <2>1. cursor' = cursor /\ pc' = "token"
    BY <1>13 DEF Ignore
  <2>2. cursor = Len(input) \/ ~BlankAt(input, start, cursor)
    <3>1. CASE Eof
      BY <3>1 DEF Eof
    <3>2. CASE ~Eof
      <4>1. ~InComment(input, start, cursor) /\ input[cursor + 1] \notin Space \cup { "#" }
        BY <1>1, <1>6, <1>13, <3>2 DEF InBlanks
      <4> QED BY <1>5, <4>1
    <3> QED BY <3>1, <3>2
  <2>3. BeginsAt(input, start, cursor)
    BY <1>4, <2>2 DEF BeginsAt
  <2>4. InToken
    BY <1>1, <2>3, TokenBegins
  <2>5. InToken'
    BY <1>1, <2>1, <2>4 DEF InToken, First
  <2> QED BY <1>1, <1>7, <2>1, <2>5 DEF LexerInv, CacheHolds
<1> QED BY <1>9, <1>10, <1>11, <1>12, <1>13 DEF Ignore

(* A call that finds no token in the cache starts the scanner. *)
LEMMA StartsKeeps ==
  ASSUME LexerInv, call = "none", NEW function \in { "peek", "copy", "read", "advance" },
         Starts(function)
  PROVE  LexerInv'
<1>1. /\ TypeOK /\ ~has_cache /\ pc = "idle" /\ scan = Fresh /\ scan \in ScanType
      /\ call' = function /\ pc' = "blank" /\ start' = cursor
      /\ UNCHANGED << input, cursor, has_cache, cache, buffer, scan, nul, returned >>
  BY DEF LexerInv, Starts, TypeOK
<1>2. cursor \in Nat /\ cursor \in 0 .. Len(input)
  BY <1>1, InputIsText
<1>3. TypeOK'
  <2>1. start' \in 0 .. cursor
    BY <1>1, <1>2
  <2>2. /\ call' \in { "none", "peek", "copy", "read", "advance" } /\ call' # "none"
        /\ pc' # "idle" /\ pc' \in { "idle", "blank", "comment", "token" }
    BY <1>1
  <2> QED BY <1>1, <2>1, <2>2 DEF TypeOK
<1>4. InBlanks'
  <2>1. /\ \A k \in cursor .. cursor - 1 : FALSE
        /\ ~InComment(input, cursor, cursor)
    BY <1>2 DEF InComment
  <2> QED BY <1>1, <2>1 DEF InBlanks
<1> QED BY <1>1, <1>3, <1>4 DEF LexerInv, CacheHolds

-----------------------------------------------------------------------------
(* Where the grammar ends the token that the scanner is in.                *)

LEMMA EndsIs ==
  /\ Grammar!Ends = Len(input)
  /\ \A b : /\ Grammar!Broken(b) <=> /\ input[b + 1] = Quote
                                     /\ Grammar!TextStop(b) < Len(input)
                                     /\ input[Grammar!TextStop(b) + 1] = Newline
            /\ Grammar!End(b) = IF input[b + 1] # Quote THEN Grammar!WordEnd(b)
                                ELSE IF Grammar!Broken(b) THEN Grammar!TextStop(b)
                                ELSE Grammar!WordEnd(Grammar!TextStop(b))
            /\ Grammar!Looked(b) = Grammar!End(b) - b + IF Grammar!Broken(b) THEN 1 ELSE 0
BY SameClasses DEF Grammar!Ends, Grammar!Broken, Grammar!End, Grammar!Looked

(* No character before position b + n ends the token, and the character    *)
(* there does if the scanner is done with it.                              *)
EndsAfter(b, n, s) ==
  /\ Grammar!End(b) \in b + n .. Len(input)
  /\ s.complete \/ b + n = Len(input) =>
       /\ Grammar!End(b) = b + n
       /\ Grammar!Broken(b) <=> s.complete /\ s.handling_spaces

LEMMA WordEnds ==
  ASSUME input \in Seq(Chars), NEW b \in Nat, NEW n \in Nat, n > 0, b + n <= Len(input),
         NEW s, InWord(input, b, n, s)
  PROVE  EndsAfter(b, n, s)
<1>1. /\ input[b + 1] # Quote /\ ~s.handling_spaces
      /\ \A k \in b + 1 .. b + n : input[k] \notin Space
      /\ s.complete => SpaceAt(input, b + n)
  BY DEF InWord
<1>2. PICK c \in b .. Len(input) : c = b + n
  OBVIOUS
<1>3. Grammar!WordEnd(b) \in c .. Len(input)
  BY <1>1, <1>2, WordEndAfter
<1>4. s.complete \/ b + n = Len(input) => Grammar!WordEnd(b) = c
  BY <1>1, <1>2, WordEndIs DEF SpaceAt
<1>5. ~Grammar!Broken(b) /\ Grammar!End(b) = Grammar!WordEnd(b)
  BY <1>1, EndsIs
<1> QED BY <1>1, <1>2, <1>3, <1>4, <1>5 DEF EndsAfter

LEMMA TextEnds ==
  ASSUME input \in Seq(Chars), NEW b \in Nat, NEW n \in Nat, n > 0, b + n <= Len(input),
         NEW s, InText(input, b, n, s)
  PROVE  EndsAfter(b, n, s)
<1>1. /\ input[b + 1] = Quote /\ s.handling_spaces
      /\ \A e \in b + 1 .. b + n - 1 : ~Stops(input, b, e)
      /\ s.complete => /\ b + n < Len(input) /\ input[b + n + 1] = Newline
                       /\ Stops(input, b, b + n)
  BY DEF InText
<1>2. PICK c \in b + 1 .. Len(input) : c = b + n
  OBVIOUS
<1>3. PICK stop \in c .. Len(input) : stop = Grammar!TextStop(b)
  BY <1>1, <1>2, TextStopAfter
<1>4. Grammar!WordEnd(stop) \in stop .. Len(input)
  <2>1. stop \in Nat /\ stop \in stop .. Len(input) /\ \A k \in stop + 1 .. stop : FALSE
    BY <1>2, <1>3
  <2> QED BY <2>1, WordEndAfter
<1>5. /\ Grammar!Broken(b) <=> stop < Len(input) /\ input[stop + 1] = Newline
      /\ Grammar!End(b) = IF Grammar!Broken(b) THEN stop ELSE Grammar!WordEnd(stop)
  BY <1>1, <1>3, EndsIs
<1>6. Grammar!End(b) \in b + n .. Len(input)
  <2>1. stop \in b + n .. Len(input) /\ Grammar!WordEnd(stop) \in b + n .. Len(input)
    BY <1>2, <1>3, <1>4
  <2> QED BY <1>5, <2>1
<1>7. CASE s.complete
  <2>1. stop = c
    BY <1>1, <1>2, <1>3, <1>7, TextStopIs
  <2>2. Grammar!Broken(b)
    BY <1>1, <1>2, <1>5, <1>7, <2>1
  <2> QED BY <1>1, <1>2, <1>5, <1>6, <1>7, <2>1, <2>2 DEF EndsAfter
<1>8. CASE b + n = Len(input)
  <2>1. stop = Len(input)
    BY <1>2, <1>3, <1>8
  <2>2. ~Grammar!Broken(b) /\ ~s.complete
    BY <1>1, <1>5, <1>8, <2>1
  <2>3. Grammar!End(b) = b + n
    BY <1>4, <1>5, <1>8, <2>1, <2>2
  <2> QED BY <1>6, <2>2, <2>3 DEF EndsAfter
<1> QED BY <1>6, <1>7, <1>8 DEF EndsAfter

LEMMA PastTextEnds ==
  ASSUME input \in Seq(Chars), NEW b \in Nat, NEW n \in Nat, n > 0, b + n <= Len(input),
         NEW s, PastText(input, b, n, s)
  PROVE  EndsAfter(b, n, s)
<1>1. PICK t \in b + 1 .. b + n - 1 :
        /\ \A e \in b + 1 .. t - 1 : ~Stops(input, b, e)
        /\ input[t + 1] = Quote /\ Stops(input, b, t)
        /\ \A k \in t + 2 .. b + n : input[k] \notin Space
  BY DEF PastText
<1>2. /\ input[b + 1] = Quote /\ ~s.handling_spaces
      /\ s.complete => SpaceAt(input, b + n)
  BY DEF PastText
<1>3. Grammar!TextStop(b) = t
  <2>1. t \in b + 1 .. Len(input)
    OBVIOUS
  <2> QED BY <1>1, <2>1, TextStopIs
<1>4. ~Grammar!Broken(b) /\ Grammar!End(b) = Grammar!WordEnd(t)
  <2>1. Quote # Newline
    BY Marks
  <2> QED BY <1>1, <1>2, <1>3, <2>1, EndsIs
<1>5. PICK c \in t .. Len(input) : c = b + n
  OBVIOUS
<1>6. \A k \in t + 1 .. c : input[k] \notin Space
  <2>1. Quote \notin Space
    BY Classes DEF Special
  <2>2. \A k \in t + 1 .. c : k = t + 1 \/ k \in t + 2 .. b + n
    BY <1>5
  <2> QED BY <1>1, <2>1, <2>2
<1>7. t \in Nat
  OBVIOUS
<1>8. Grammar!WordEnd(t) \in c .. Len(input)
  BY <1>5, <1>6, <1>7, WordEndAfter
<1>9. s.complete \/ b + n = Len(input) => Grammar!WordEnd(t) = c
  BY <1>2, <1>5, <1>6, <1>7, WordEndIs DEF SpaceAt
<1> QED BY <1>2, <1>4, <1>5, <1>8, <1>9 DEF EndsAfter

LEMMA ScansEnd ==
  ASSUME input \in Seq(Chars), NEW b \in Nat, NEW n \in Nat, n > 0, b + n <= Len(input),
         NEW s, Scans(input, b, n, s)
  PROVE  EndsAfter(b, n, s)
BY WordEnds, TextEnds, PastTextEnds DEF Scans

-----------------------------------------------------------------------------
(* The class of what was read.                                             *)

LEMMA QuotedClass ==
  ASSUME NEW s \in Seq(Chars), NEW n \in Nat \ {0}, Len(s) = n, s[1] = Quote, NEW stored
  PROVE  ScannedClass(s, stored) = IF Grammar!Text(s) THEN "STRING" ELSE "UNKNOWN"
<1>1. Quote \notin Alpha /\ Quote # "@" /\ Quote # "." /\ Quote \notin Digit \cup { "-" }
  BY Classes, Marks DEF Special
<1>2. /\ ~NameForm(s) /\ ~DefinitionForm(s) /\ ~LabelForm(s) /\ ~KeywordForm(s)
      /\ ~DecimalForm(s) /\ ~HexForm(s) /\ ~RealForm(s)
  BY <1>1, FirstCharacters
<1>3. /\ ~Grammar!Name(s)
      /\ ~(Len(s) > 1 /\ s[Len(s)] = ":" /\ Grammar!Name(SubSeq(s, 1, Len(s) - 1)))
      /\ ~(s[1] = "@" /\ Grammar!Name(Tail(s)))
      /\ ~ScannedDecimal(s) /\ ~Grammar!Hexadecimal(s) /\ ~ScannedReal(s)
  BY <1>1, <1>2, FormsAreClasses
<1> QED BY <1>1, <1>3 DEF ScannedClass

LEMMA TextIs ==
  ASSUME NEW s
  PROVE  Grammar!Text(s) <=>
           /\ Len(s) > 1 /\ s[1] = Quote
           /\ s[Len(s)] = Quote /\ ~Grammar!Escaped(s, 2, Len(s))
           /\ \A i \in 2 .. Len(s) - 1 :
                s[i] \in { Quote, Newline } => Grammar!Escaped(s, 2, i)
BY SameClasses DEF Grammar!Text, Grammar!Closes

LEMMA PartOfText ==
  ASSUME NEW txt, NEW b \in Nat, NEW n \in Nat, NEW s,
         \A k \in 1 .. n : s[k] = txt[b + k], NEW i \in 2 .. n
  PROVE  s[i] \in { Quote, Newline } /\ ~Grammar!Escaped(s, 2, i)
           <=> Stops(txt, b, b + i - 1)
<1>1. Grammar!Escaped(s, 2, i) <=> Grammar!Escaped(txt, b + 2, b + i)
  BY EscapedInPart
<1>2. (b + i - 1) + 1 = b + i
  OBVIOUS
<1>3. s[i] = txt[b + i]
  OBVIOUS
<1>4. Stops(txt, b, b + i - 1)
        <=> txt[b + i] \in { Quote, Newline } /\ ~Grammar!Escaped(txt, b + 2, b + i)
  BY <1>2 DEF Stops
<1> QED BY <1>1, <1>3, <1>4

(* A text that is open or broken is no string, ... *)
LEMMA OpenIsNoText ==
  ASSUME NEW txt, NEW b \in Nat, NEW n \in Nat, NEW s, Len(s) = n,
         \A k \in 1 .. n : s[k] = txt[b + k], NEW r, InText(txt, b, n, r)
  PROVE  ~Grammar!Text(s)
<1>1. \A e \in b + 1 .. b + n - 1 : ~Stops(txt, b, e)
  BY DEF InText
<1>2. ASSUME Grammar!Text(s) PROVE FALSE
  <2>1. n > 1 /\ s[n] = Quote /\ ~Grammar!Escaped(s, 2, n)
    BY <1>2, TextIs
  <2>2. PICK i \in 2 .. n : i = n
    BY <2>1
  <2>3. s[i] \in { Quote, Newline } /\ ~Grammar!Escaped(s, 2, i)
    BY <2>1, <2>2
  <2>4. Stops(txt, b, b + i - 1)
    BY <2>3, PartOfText
  <2>5. b + i - 1 \in b + 1 .. b + n - 1
    BY <2>2
  <2> QED BY <1>1, <2>4, <2>5
<1> QED BY <1>2

(* ... and one that is closed is if nothing follows. *)
ClosedAt(txt, b, t) ==
  /\ txt[b + 1] = Quote
  /\ \A e \in b + 1 .. t - 1 : ~Stops(txt, b, e)
  /\ txt[t + 1] = Quote /\ Stops(txt, b, t)

Copies(s, n, txt, b) == Len(s) = n /\ \A k \in 1 .. n : s[k] = txt[b + k]

LEMMA ClosedIsText ==
  ASSUME NEW txt, NEW b \in Nat, NEW n \in Nat, NEW s, Copies(s, n, txt, b),
         NEW t \in b + 1 .. b + n - 1, ClosedAt(txt, b, t)
  PROVE  Grammar!Text(s) <=> b + n = t + 1
<1> USE DEF Copies, ClosedAt
<1>1. n > 1 /\ s[1] = Quote
  OBVIOUS
<1>2. \A i \in 2 .. n : s[i] \in { Quote, Newline } /\ ~Grammar!Escaped(s, 2, i)
                          <=> Stops(txt, b, b + i - 1)
  BY PartOfText
<1>3. PICK k \in 2 .. n : k = t + 1 - b
  OBVIOUS
<1>4. s[k] = Quote /\ ~Grammar!Escaped(s, 2, k)
  <2>1. b + k = t + 1 /\ b + k - 1 = t
    BY <1>3
  <2>2. s[k] = Quote
    BY <1>3, <2>1
  <2>3. Stops(txt, b, b + k - 1)
    BY <2>1
  <2> QED BY <1>2, <2>2, <2>3
<1>5. CASE b + n = t + 1
  <2>1. k = n
    BY <1>3, <1>5
  <2>2. ASSUME NEW i \in 2 .. n - 1 PROVE s[i] \in { Quote, Newline } => Grammar!Escaped(s, 2, i)
    <3>1. i \in 2 .. n /\ b + i - 1 \in b + 1 .. t - 1
      BY <1>5
    <3>2. ~Stops(txt, b, b + i - 1)
      BY <3>1
    <3> QED BY <1>2, <3>1, <3>2
  <2>3. s[n] = Quote /\ ~Grammar!Escaped(s, 2, n)
    BY <1>4, <2>1
  <2>4. Grammar!Text(s)
    BY <1>1, <2>2, <2>3, TextIs
  <2> QED BY <1>5, <2>4
<1>6. CASE b + n # t + 1
  <2>1. k \in 2 .. n - 1
    BY <1>3, <1>6
  <2>2. ~Grammar!Text(s)
    BY <1>1, <1>4, <2>1, TextIs
  <2> QED BY <1>6, <2>2
<1> QED BY <1>5, <1>6

(* The class the grammar gives is the one scanned: where the two read the   *)
(* description differently, Class has a case of its own.                    *)
LEMMA ClassIs ==
  ASSUME NEW s \in Seq(Chars), NEW n \in Nat \ {0}, Len(s) = n, NEW stored
  PROVE  Grammar!Class(s, stored) = ScannedClass(s, stored)
<1>1. /\ Grammar!Name(s) <=> NameForm(s)
      /\ (Len(s) > 1 /\ s[Len(s)] = ":" /\ Grammar!Name(SubSeq(s, 1, Len(s) - 1)))
            <=> DefinitionForm(s)
      /\ (s[1] = "@" /\ Grammar!Name(Tail(s))) <=> LabelForm(s)
      /\ (s[1] = "." /\ Grammar!AllFrom(s, 2, KeyChar)) <=> KeywordForm(s)
      /\ ScannedDecimal(s) <=> DecimalForm(s)
      /\ Grammar!Hexadecimal(s) <=> HexForm(s)
      /\ ScannedReal(s) <=> RealForm(s)
      /\ Grammar!Text(s) => s[1] = Quote
  BY FormsAreClasses, SameClasses DEF Grammar!Text
<1>2. /\ (NameForm(s) \/ DefinitionForm(s)) => s[1] \in Alpha
      /\ LabelForm(s) => s[1] = "@"
      /\ KeywordForm(s) => s[1] = "."
      /\ (DecimalForm(s) \/ HexForm(s) \/ RealForm(s)) => s[1] \in Digit \cup { "-" }
      /\ DecimalForm(s) => ~HexForm(s) /\ ~RealForm(s)
      /\ HexForm(s) => ~RealForm(s)
      /\ DefinitionForm(s) => ~NameForm(s)
  BY FirstCharacters, NumbersExclude, NamesExclude
<1>3. CASE Grammar!Register(s)
  <2>1. n > 2 /\ s[1] \in Alpha /\ s[2] = ":" /\ ":" \notin NameChar
    BY <1>3, CharsDistinct, Classes DEF Grammar!Register, Alpha, Upper, Distinct, Special, NameChar
  <2>2. 2 \in 2 .. n /\ 2 \in 2 .. n - 1
    BY <2>1
  <2>3. ~NameForm(s) /\ ~DefinitionForm(s)
    BY <2>1, <2>2 DEF NameForm, DefinitionForm, Within
  <2>4. ScannedClass(s, stored) = "UNKNOWN"
    BY <1>1, <1>2, <2>1, <2>3, CharsDistinct DEF ScannedClass, Distinct
  <2>5. s # << "-" >> /\ ~Grammar!MinusPoint(s)
    BY <2>1 DEF Grammar!MinusPoint
  <2> QED BY <1>3, <2>4, <2>5 DEF Grammar!Class
<1>4. CASE s = << "-" >>
  <2>1. n = 1 /\ s[1] = "-"
    BY <1>4
  <2>2. ~Grammar!Register(s) /\ ~Grammar!MinusPoint(s)
    BY <2>1 DEF Grammar!Register, Grammar!MinusPoint
  <2>3. DecimalForm(s)
    BY <2>1 DEF DecimalForm, Within
  <2>4. ScannedClass(s, stored) = "DEC_INTEGER"
    BY <1>1, <1>2, <2>1, <2>3, CharsDistinct DEF ScannedClass, Distinct
  <2> QED BY <1>4, <2>2, <2>4 DEF Grammar!Class
<1>5. CASE Grammar!MinusPoint(s)
  <2>1. n > 2 /\ s[1] = "-" /\ s[2] = "." /\ \A i \in 3 .. n : s[i] \in Digit
    BY <1>5, SameClasses DEF Grammar!MinusPoint, Grammar!AllFrom
  <2>2. ~Grammar!Register(s) /\ s # << "-" >>
    BY <2>1 DEF Grammar!Register
  <2>3. RealForm(s)
    <3>1. 2 \in 2 .. n - 1 /\ Within(s, 2, 2 - 1, Digit) /\ Within(s, 2 + 1, n, Digit)
      BY <2>1 DEF Within
    <3> QED BY <2>1, <3>1 DEF RealForm
  <2>4. ~DecimalForm(s) /\ ~HexForm(s)
    BY <2>3, NumbersExclude
  <2>5. ScannedClass(s, stored) = "REAL"
    BY <1>1, <1>2, <2>1, <2>3, <2>4, CharsDistinct DEF ScannedClass, Distinct
  <2> QED BY <1>5, <2>2, <2>5 DEF Grammar!Class
<1>6. CASE ~Grammar!Register(s) /\ s # << "-" >> /\ ~Grammar!MinusPoint(s)
  <2>1. \A r \in Seq(Chars) : Grammar!Decimal(r) <=> ScannedDecimal(r) /\ r # << "-" >>
    BY SameClasses DEF Grammar!Decimal, Grammar!AllFrom, ScannedDecimal
  <2>2. Grammar!Decimal(s) <=> ScannedDecimal(s)
    BY <1>6, <2>1
  <2>3. ASSUME NEW dot \in 2 .. n - 1, s[dot] = ".", \A i \in dot + 1 .. n : s[i] \in Digit
        PROVE  Grammar!Decimal(SubSeq(s, 1, dot - 1)) <=> ScannedDecimal(SubSeq(s, 1, dot - 1))
    <3> DEFINE r == SubSeq(s, 1, dot - 1)
    <3>1. r \in Seq(Chars) /\ Len(r) = dot - 1 /\ r[1] = s[1]
      OBVIOUS
    <3> HIDE DEF r
    <3>2. ASSUME r = << "-" >> PROVE FALSE
      <4>1. dot = 2 /\ s[1] = "-"
        BY <3>1, <3>2
      <4>2. Grammar!MinusPoint(s)
        BY <2>3, <4>1, SameClasses DEF Grammar!MinusPoint, Grammar!AllFrom
      <4> QED BY <1>6, <4>2
    <3>3. Grammar!Decimal(r) <=> ScannedDecimal(r)
      BY <2>1, <3>1, <3>2
    <3> QED BY <3>3 DEF r
  <2>4. Grammar!Real(s) <=> ScannedReal(s)
    <3>1. Grammar!Real(s) <=>
            \E dot \in 2 .. n - 1 :
              /\ s[dot] = "." /\ Grammar!Decimal(SubSeq(s, 1, dot - 1))
              /\ \A i \in dot + 1 .. n : s[i] \in Digit
      BY SameClasses DEF Grammar!Real, Grammar!AllFrom
    <3>2. ScannedReal(s) <=>
            \E dot \in 2 .. n - 1 :
              /\ s[dot] = "." /\ ScannedDecimal(SubSeq(s, 1, dot - 1))
              /\ \A i \in dot + 1 .. n : s[i] \in Digit
      BY DEF ScannedReal
    <3> QED BY <2>3, <3>1, <3>2
  <2>5. Grammar!Class(s, stored) = Grammar!DocumentedClass(s, stored)
    BY <1>6 DEF Grammar!Class
  <2>6. Grammar!Lower \cup Grammar!Digit \cup { "-" } = KeyChar
    BY SameClasses DEF KeyChar
  <2>7. Grammar!DocumentedClass(s, stored) = ScannedClass(s, stored)
    BY <1>1, <1>2, <1>6, <2>2, <2>4, <2>6, CharsDistinct
       DEF Grammar!DocumentedClass, ScannedClass, Distinct
  <2> QED BY <2>5, <2>7
<1> QED BY <1>3, <1>4, <1>5, <1>6

(* The type that the state gives is the class of what was read. *)
LEMMA ClassOfScan ==
  ASSUME input \in Seq(Chars), NEW b \in Nat, NEW n \in Nat, n > 0, b + n <= Len(input),
         Scans(input, b, n, scan), scan.is_label \in BOOLEAN,
         scan.is_label <=> input[b + 1] = "@", NEW stored
  PROVE  StateType(stored) = Grammar!Class(SubSeq(input, b + 1, b + n), stored)
<1> DEFINE s == SubSeq(input, b + 1, b + n)
<1>1. s \in Seq(Chars) /\ Len(s) = n /\ s # << >> /\ s[1] = input[b + 1] /\ n \in Nat \ {0}
  OBVIOUS
<1>6. \A k \in 1 .. n : s[k] = input[b + k]
  OBVIOUS
<1>7. Grammar!Class(s, stored) = ScannedClass(s, stored)
  <2> HIDE DEF s
  <2> QED BY <1>1, ClassIs
<1>2. CASE InWord(input, b, n, scan)
  <2>1. input[b + 1] # Quote /\ Reached(scan.state, s)
    BY <1>2 DEF InWord
  <2> HIDE DEF s
  <2> SUFFICES StateType(stored) = ScannedClass(s, stored)
    BY <1>7 DEF s
  <2> QED BY <1>1, <2>1, ClassOfState
<1>3. CASE InText(input, b, n, scan)
  <2>1. /\ input[b + 1] = Quote
        /\ scan.state \in { "S_UNKNOWN", "S_STRING_ESCAPE", "S_STRING_OPENED" }
    BY <1>3 DEF InText
  <2>2. ~Grammar!Text(s)
    <3> HIDE DEF s
    <3> QED BY <1>1, <1>3, <1>6, OpenIsNoText
  <2> HIDE DEF s
  <2>3. ScannedClass(s, stored) = "UNKNOWN"
    BY <1>1, <2>1, <2>2, QuotedClass
  <2>4. StateType(stored) = "UNKNOWN"
    BY <2>1 DEF StateType
  <2> QED BY <1>7, <2>3, <2>4 DEF s
<1>4. CASE PastText(input, b, n, scan)
  <2>1. PICK t \in b + 1 .. b + n - 1 :
          /\ \A e \in b + 1 .. t - 1 : ~Stops(input, b, e)
          /\ input[t + 1] = Quote /\ Stops(input, b, t)
          /\ scan.state = IF b + n = t + 1 THEN "S_STRING_END" ELSE "S_UNKNOWN"
    BY <1>4 DEF PastText
  <2>2. input[b + 1] = Quote
    BY <1>4 DEF PastText
  <2>3. Grammar!Text(s) <=> b + n = t + 1
    <3> HIDE DEF s
    <3>1. Copies(s, n, input, b)
      BY <1>1, <1>6 DEF Copies
    <3>2. ClosedAt(input, b, t)
      BY <2>1, <2>2 DEF ClosedAt
    <3> QED BY <3>1, <3>2, ClosedIsText
  <2> HIDE DEF s
  <2>4. ScannedClass(s, stored) = IF b + n = t + 1 THEN "STRING" ELSE "UNKNOWN"
    BY <1>1, <2>2, <2>3, QuotedClass
  <2>5. StateType(stored) = IF b + n = t + 1 THEN "STRING" ELSE "UNKNOWN"
    BY <2>1 DEF StateType
  <2> QED BY <1>7, <2>4, <2>5 DEF s
<1> QED BY <1>2, <1>3, <1>4 DEF Scans

-----------------------------------------------------------------------------
(* The token that the scanner returns.                                     *)

LEMMA MinOfTwo ==
  ASSUME NEW a \in Int, NEW b \in Int
  PROVE  Grammar!Min({ a, b }) = IF a <= b THEN a ELSE b
<1>1. CASE a <= b
  <2>1. { a, b } \subseteq Int /\ a \in { a, b } /\ \A k \in { a, b } : a <= k
    BY <1>1
  <2> QED BY <1>1, <2>1, MinIs
<1>2. CASE ~(a <= b)
  <2>1. { a, b } \subseteq Int /\ b \in { a, b } /\ \A k \in { a, b } : b <= k
    BY <1>2
  <2> QED BY <1>2, <2>1, MinIs
<1> QED BY <1>1, <1>2

(* The scanner and the grammar cut the token off at the same place, ...     *)
LEMMA CutIs ==
  ASSUME LexerInv, pc = "token", Done, NEW b, b = First, NEW n, n = scan.consumed_size,
         n > 0
  PROVE  /\ Grammar!Cut(b) = cursor
         /\ Grammar!Reported(b) <=> ~Eof /\ scan.overflow
         /\ Grammar!Lexeme(b) = Stored
         /\ scan.overflow => Stored = scan.store
         /\ ~Grammar!Reported(b) => Grammar!End(b) = b + n
<1>1. /\ input \in Seq(Chars) /\ Len(input) \in Nat /\ cursor \in 0 .. Len(input)
      /\ scan \in ScanType /\ InToken /\ start \in 0 .. cursor /\ Capacity \in Nat \ {0}
  BY InputIsText, LexerAssumption DEF LexerInv, TypeOK
<1>2. /\ n \in Nat /\ n \in 0 .. Capacity + 1 /\ b \in Nat /\ b + n = cursor
      /\ b + n <= Len(input)
  BY <1>1 DEF ScanType, InToken, First
<1>3. PICK broken \in 0 .. 1 : /\ broken = IF scan.complete /\ scan.handling_spaces THEN 1 ELSE 0
                               /\ Fed(scan) = n + broken
  BY DEF Fed
<1>4. /\ scan.store \in Seq(Chars)
      /\ Len(scan.store) = IF n + broken <= Capacity THEN n + broken ELSE Capacity
      /\ \A i \in 1 .. Len(scan.store) : scan.store[i] = input[b + i]
      /\ scan.overflow <=> n + broken > Capacity
      /\ n + broken <= Capacity + 1 /\ b + (n + broken) <= Len(input)
  BY <1>1, <1>3 DEF InToken, Stores, ScanType
<1>5. EndsAfter(b, n, scan)
  <2>1. Scans(input, b, n, scan)
    BY <1>1 DEF InToken
  <2> QED BY <1>1, <1>2, <2>1, ScansEnd
<1>6. PICK e \in b + n .. Len(input) : e = Grammar!End(b)
  BY <1>5 DEF EndsAfter
<1>7. Eof <=> b + n = Len(input)
  BY <1>2 DEF Eof
<1>8. PICK l \in Nat : l = Grammar!Looked(b) /\ l \in { e - b, e - b + 1 }
  BY <1>2, <1>6, EndsIs
<1>9. scan.complete \/ Eof => e = b + n /\ l = n + broken
  <2>1. Grammar!Looked(b) = e - b + IF Grammar!Broken(b) THEN 1 ELSE 0
    BY <1>6, EndsIs
  <2>2. scan.complete \/ Eof =>
          e = b + n /\ (Grammar!Broken(b) <=> scan.complete /\ scan.handling_spaces)
    BY <1>5, <1>6, <1>7 DEF EndsAfter
  <2> QED BY <1>2, <1>3, <1>6, <1>8, <2>1, <2>2
<1>10. broken = 1 => scan.complete
  BY <1>3
<1>11. /\ Grammar!Cut(b) = IF l <= Capacity THEN e
                           ELSE IF e <= b + Capacity + 1 THEN e ELSE b + Capacity + 1
       /\ Grammar!Reported(b) <=> l > Capacity /\ Grammar!Cut(b) < Len(input)
       /\ Grammar!Lexeme(b) =
            SubSeq(input, b + 1, IF e <= b + Capacity THEN e ELSE b + Capacity)
  <2>1. e \in Int /\ b + Capacity + 1 \in Int /\ b + Capacity \in Int
    BY <1>1, <1>2, <1>6
  <2>2. Grammar!Min({ e, b + Capacity + 1 }) = IF e <= b + Capacity + 1 THEN e ELSE b + Capacity + 1
    BY <2>1, MinOfTwo
  <2>3. Grammar!Min({ e, b + Capacity }) = IF e <= b + Capacity THEN e ELSE b + Capacity
    BY <2>1, MinOfTwo
  <2> QED BY <1>6, <1>8, <2>2, <2>3, EndsIs DEF Grammar!Cut, Grammar!Reported, Grammar!Lexeme
<1>12. Stored = SubSeq(scan.store, 1, IF n < Len(scan.store) THEN n ELSE Len(scan.store))
  BY DEF Stored
<1>13. ASSUME NEW k \in 0 .. Len(scan.store)
       PROVE  SubSeq(input, b + 1, b + k) = SubSeq(scan.store, 1, k)
  <2>1. k \in Nat /\ b + k <= Len(input)
    BY <1>1, <1>4, <1>2
  <2>2. /\ SubSeq(input, b + 1, b + k) \in Seq(Chars) /\ Len(SubSeq(input, b + 1, b + k)) = k
        /\ \A i \in 1 .. k : SubSeq(input, b + 1, b + k)[i] = input[b + i]
    BY <1>1, <1>2, <2>1
  <2>3. /\ SubSeq(scan.store, 1, k) \in Seq(Chars) /\ Len(SubSeq(scan.store, 1, k)) = k
        /\ \A i \in 1 .. k : SubSeq(scan.store, 1, k)[i] = scan.store[i]
    BY <1>4, <2>1
  <2>4. \A i \in 1 .. k : i \in 1 .. Len(scan.store)
    BY <1>4
  <2>5. \A i \in 1 .. k : SubSeq(input, b + 1, b + k)[i] = SubSeq(scan.store, 1, k)[i]
    BY <1>4, <2>2, <2>3, <2>4
  <2> QED BY <2>2, <2>3, <2>5, SeqEqual
<1>14. CASE scan.overflow
  <2>1. n + broken = Capacity + 1 /\ Len(scan.store) = Capacity /\ n >= Capacity
    <3>1. Capacity \in Nat /\ n \in Nat /\ broken \in 0 .. 1
      BY <1>1, <1>2
    <3>2. n + broken > Capacity /\ n + broken <= Capacity + 1
      BY <1>4, <1>14
    <3>3. ~(n + broken <= Capacity)
      BY <3>1, <3>2
    <3>4. Len(scan.store) = Capacity
      BY <1>4, <3>3
    <3> QED BY <3>1, <3>2, <3>4
  <2>2. Stored = SubSeq(scan.store, 1, Capacity) /\ Stored = scan.store
    <3>1. Stored = SubSeq(scan.store, 1, Len(scan.store))
      BY <1>1, <1>2, <1>12, <2>1
    <3>2. SubSeq(scan.store, 1, Len(scan.store)) = scan.store
      BY <1>4
    <3> QED BY <2>1, <3>1, <3>2
  <2>3. l > Capacity /\ e >= b + Capacity
    <3>1. CASE broken = 1
      BY <1>1, <1>2, <1>6, <1>9, <1>10, <2>1, <3>1
    <3>2. CASE broken = 0
      BY <1>1, <1>2, <1>6, <1>8, <2>1, <3>2
    <3> QED BY <3>1, <3>2
  <2>4. Grammar!Cut(b) = b + n
    <3>1. CASE broken = 1
      BY <1>1, <1>2, <1>6, <1>9, <1>10, <1>11, <2>1, <2>3, <3>1
    <3>2. CASE broken = 0
      <4>1. n = Capacity + 1 /\ b + Capacity + 1 = b + n /\ ~(l <= Capacity)
        BY <1>1, <1>2, <2>1, <2>3, <3>2
      <4>2. e <= b + Capacity + 1 => e = b + n
        BY <1>2, <1>6, <4>1
      <4> QED BY <1>11, <4>1, <4>2
    <3> QED BY <3>1, <3>2
  <2>5. Grammar!Reported(b) <=> ~Eof
    BY <1>2, <1>7, <1>11, <2>3, <2>4
  <2>6. Grammar!Lexeme(b) = SubSeq(input, b + 1, b + Capacity)
    BY <1>1, <1>2, <1>6, <1>11, <2>3
  <2>7. SubSeq(input, b + 1, b + Capacity) = SubSeq(scan.store, 1, Capacity)
    <3>1. Capacity \in 0 .. Len(scan.store)
      BY <1>1, <2>1
    <3> QED BY <1>13, <3>1
  <2>8. Eof => e = b + n
    BY <1>9
  <2> QED BY <1>2, <1>6, <1>14, <2>2, <2>4, <2>5, <2>6, <2>7, <2>8
<1>15. CASE ~scan.overflow
  <2>1. n + broken <= Capacity /\ Len(scan.store) = n + broken /\ n <= Len(scan.store)
    BY <1>1, <1>2, <1>4, <1>15
  <2>2. e = b + n /\ l = n + broken
    BY <1>9, <1>15 DEF Done
  <2>3. Grammar!Cut(b) = b + n /\ ~Grammar!Reported(b)
    BY <1>1, <1>2, <1>11, <2>1, <2>2
  <2>4. Grammar!Lexeme(b) = SubSeq(input, b + 1, b + n)
    <3>1. e <= b + Capacity
      BY <1>1, <1>2, <2>1, <2>2
    <3> QED BY <1>11, <2>2, <3>1
  <2>5. Stored = SubSeq(scan.store, 1, n)
    <3>1. n < Len(scan.store) \/ n = Len(scan.store)
      BY <1>2, <2>1
    <3> QED BY <1>12, <3>1
  <2>6. SubSeq(input, b + 1, b + n) = SubSeq(scan.store, 1, n)
    <3>1. n \in 0 .. Len(scan.store)
      BY <1>2, <2>1
    <3> QED BY <1>13, <3>1
  <2> QED BY <1>2, <1>6, <1>15, <2>2, <2>3, <2>4, <2>5, <2>6
<1> QED BY <1>14, <1>15

LEMMA StoredIs ==
  ASSUME scan \in ScanType
  PROVE  Stored \in Seq(Chars) /\ Len(Stored) <= Len(scan.store)
<1>1. scan.store \in Seq(Chars) /\ scan.consumed_size \in 0 .. Capacity + 1
      /\ Capacity \in Nat
  BY LexerAssumption DEF ScanType
<1>2. PICK k \in 0 .. Len(scan.store) : Stored = SubSeq(scan.store, 1, k)
  BY <1>1 DEF Stored
<1>3. SubSeq(scan.store, 1, k) \in Seq(Chars) /\ Len(SubSeq(scan.store, 1, k)) = k
  BY <1>1
<1> QED BY <1>2, <1>3

(* A token of no characters is the end.                                     *)
LEMMA FedNothing ==
  ASSUME LexerInv, pc = "token", Done, scan.consumed_size = 0
  PROVE  Eof
<1>1. scan \in ScanType /\ InToken /\ First \in Nat
  BY InputIsText DEF LexerInv, TypeOK, InToken, First, ScanType
<1>2. Scans(input, First, 0, scan) /\ Stores(input, First, scan)
  BY <1>1 DEF InToken
<1>3. ~scan.complete
  BY <1>2 DEF Scans, InWord, InText, PastText
<1>4. Fed(scan) = 0
  BY <1>3 DEF Fed
<1> QED BY <1>1, <1>2, <1>3, <1>4, LexerAssumption DEF Stores, Done

(* ... and give the same token.                                            *)
LEMMA ResultIs ==
  ASSUME LexerInv, pc = "token", Done
  PROVE  /\ Result = Grammar!TokenAt(start)
         /\ cursor = Grammar!After(start)
         /\ Result.type \in Types
         /\ Result.lexeme \in Seq(Chars) /\ Len(Result.lexeme) <= Capacity
<1> DEFINE b == First
           n == scan.consumed_size
<1>1. /\ input \in Seq(Chars) /\ Len(input) \in Nat /\ cursor \in 0 .. Len(input)
      /\ scan \in ScanType /\ InToken /\ start \in 0 .. cursor /\ Capacity \in Nat \ {0}
      /\ Len(scan.store) <= Capacity
  BY InputIsText, LexerAssumption DEF LexerInv, TypeOK
<1>2. /\ n \in Nat /\ b \in Nat /\ b + n = cursor /\ start \in Nat /\ b \in start .. Len(input)
  BY <1>1 DEF ScanType, InToken, First
<1>3. Grammar!Begin(start) = b
  BY <1>1, <1>2, BeginIs DEF InToken
<1>4. n = 0 => Eof
  BY FedNothing
<1>5. CASE n = 0
  <2>1. b = Len(input) /\ cursor = Len(input)
    BY <1>2, <1>4, <1>5 DEF Eof
  <2>2. Grammar!TokenAt(start) = [type |-> "EOF", lexeme |-> << >>]
    BY <1>3, <2>1, EndsIs DEF Grammar!TokenAt
  <2>3. Grammar!After(start) = cursor
    BY <1>3, <2>1, EndsIs DEF Grammar!After
  <2>4. Result = [type |-> "EOF", lexeme |-> << >>]
    BY <1>4, <1>5 DEF Result
  <2>5. << >> \in Seq(Chars) /\ Len(<< >>) = 0
    OBVIOUS
  <2> QED BY <1>1, <2>2, <2>3, <2>4, <2>5 DEF Types
<1>6. CASE n > 0
  <2>1. /\ Grammar!Cut(b) = cursor
        /\ Grammar!Reported(b) <=> ~Eof /\ scan.overflow
        /\ Grammar!Lexeme(b) = Stored
        /\ scan.overflow => Stored = scan.store
        /\ ~Grammar!Reported(b) => Grammar!End(b) = b + n
    BY <1>6, CutIs
  <2>2. b # Len(input) /\ n # 0 /\ b + n <= Len(input)
    BY <1>1, <1>2, <1>6
  <2>3. StateType(Stored) = Grammar!Class(SubSeq(input, b + 1, b + n), Stored)
    <3>1. /\ Scans(input, b, n, scan) /\ scan.is_label \in BOOLEAN
          /\ scan.is_label <=> input[b + 1] = "@"
      BY <1>1, <1>6 DEF InToken, ScanType
    <3> QED BY <1>1, <1>2, <1>6, <2>2, <3>1, ClassOfScan
  <2>4. Grammar!After(start) = cursor
    BY <1>3, <2>1, <2>2, EndsIs DEF Grammar!After
  <2>5. Grammar!TokenAt(start) =
          [type   |-> IF ~Eof /\ scan.overflow THEN "TOO_BIG"
                      ELSE Grammar!Class(SubSeq(input, b + 1, Grammar!End(b)), Stored),
           lexeme |-> Stored]
    <3>1. Grammar!TokenAt(start) =
            [type   |-> IF Grammar!Reported(b) THEN "TOO_BIG"
                        ELSE Grammar!Class(SubSeq(input, b + 1, Grammar!End(b)), Grammar!Lexeme(b)),
             lexeme |-> Grammar!Lexeme(b)]
      BY <1>3, <2>2, EndsIs DEF Grammar!TokenAt
    <3> QED BY <2>1, <3>1
  <2>6. Result = [type   |-> IF ~Eof /\ scan.overflow THEN "TOO_BIG" ELSE StateType(Stored),
                  lexeme |-> Stored]
    <3>1. CASE ~Eof /\ scan.overflow
      <4>1. Result = [type |-> "TOO_BIG", lexeme |-> scan.store]
        BY <2>2, <3>1 DEF Result
      <4> QED BY <2>1, <3>1, <4>1
    <3>2. CASE ~(~Eof /\ scan.overflow)
      <4>1. Result = [type |-> StateType(Stored), lexeme |-> Stored]
        BY <2>2, <3>2 DEF Result
      <4> QED BY <3>2, <4>1
    <3> QED BY <3>1, <3>2
  <2>7. Result = Grammar!TokenAt(start)
    <3>1. CASE ~Eof /\ scan.overflow
      BY <2>5, <2>6, <3>1
    <3>2. CASE ~(~Eof /\ scan.overflow)
      <4>1. Grammar!End(b) = b + n
        BY <2>1, <3>2
      <4> QED BY <2>3, <2>5, <2>6, <3>2, <4>1
    <3> QED BY <3>1, <3>2
  <2>8. StateType(Stored) \in Types /\ "TOO_BIG" \in Types
    BY DEF StateType, Types
  <2>9. Stored \in Seq(Chars) /\ Len(Stored) <= Capacity
    <3>1. Stored \in Seq(Chars) /\ Len(Stored) <= Len(scan.store)
      BY <1>1, StoredIs
    <3>2. Len(Stored) \in Nat /\ Len(scan.store) \in Nat
      BY <1>1, <3>1 DEF ScanType
    <3> QED BY <1>1, <3>1, <3>2
  <2> QED BY <2>4, <2>6, <2>7, <2>8, <2>9
<1> QED BY <1>2, <1>5, <1>6

(* What the grammar says is of the text alone.                             *)
LEMMA SameText ==
  ASSUME UNCHANGED input, NEW a
  PROVE  /\ Grammar!TokenAt(a)' = Grammar!TokenAt(a)
         /\ Grammar!After(a)' = Grammar!After(a)
<1>1. Grammar!Ends' = Grammar!Ends /\ \A x, y : Grammar!Blank(x, y)' <=> Grammar!Blank(x, y)
  BY DEF Grammar!Ends, Grammar!Blank
<1>2. \A x : Grammar!Begin(x)' = Grammar!Begin(x)
  BY <1>1 DEF Grammar!Begin
<1>3. \A x : Grammar!WordEnd(x)' = Grammar!WordEnd(x) /\ Grammar!TextStop(x)' = Grammar!TextStop(x)
  BY <1>1 DEF Grammar!WordEnd, Grammar!TextStop
<1>4. \A x : (Grammar!Broken(x)' <=> Grammar!Broken(x)) /\ Grammar!End(x)' = Grammar!End(x)
  BY <1>1, <1>3 DEF Grammar!Broken, Grammar!End
<1>5. \A x : Grammar!Looked(x)' = Grammar!Looked(x)
  BY <1>4 DEF Grammar!Looked
<1>6. \A x : Grammar!Cut(x)' = Grammar!Cut(x) /\ Grammar!Lexeme(x)' = Grammar!Lexeme(x)
  BY <1>4, <1>5 DEF Grammar!Cut, Grammar!Lexeme
<1>7. \A x : Grammar!Reported(x)' <=> Grammar!Reported(x)
  BY <1>1, <1>5, <1>6 DEF Grammar!Reported
<1> QED BY <1>1, <1>2, <1>4, <1>6, <1>7 DEF Grammar!TokenAt, Grammar!After

LEMMA FinishKeeps ==
  ASSUME LexerInv, Finish
  PROVE  /\ LexerInv'
         /\ Result = Grammar!TokenAt(start) /\ cursor = Grammar!After(start)
<1>1. /\ Result = Grammar!TokenAt(start) /\ cursor = Grammar!After(start)
      /\ Result.type \in Types
      /\ Result.lexeme \in Seq(Chars) /\ Len(Result.lexeme) <= Capacity
      /\ TypeOK /\ call # "none" /\ ~has_cache /\ scan \in ScanType
  BY ResultIs DEF Finish, LexerInv, TypeOK
<1>2. /\ call' = "none" /\ pc' = "idle" /\ scan' = Fresh /\ nul' = NulPlace
      /\ UNCHANGED << input, cursor, start >>
      /\ call = "advance" => UNCHANGED << has_cache, cache, buffer, returned >>
      /\ call # "advance" =>
           /\ has_cache' = (call # "read") /\ cache' = Result.type /\ buffer' = Result.lexeme
           /\ returned' = IF call = "peek" THEN OnlyType(Result.type) ELSE Result
  BY DEF Finish
<1>3. /\ scan'.state \in States /\ Len(scan'.store) <= Capacity
      /\ scan'.consumed_size \in 0 .. Capacity + 1 /\ scan' \in ScanType
      /\ nul' \in 0 .. Capacity + 1
  <2>1. Capacity \in Nat
    BY LexerAssumption
  <2>2. NulPlace \in 0 .. Capacity + 1
    BY <1>1, <2>1 DEF NulPlace, ScanType
  <2> QED BY <1>2, <2>1, <2>2, FreshIs DEF States
<1>4. /\ has_cache' \in BOOLEAN /\ cache' \in Types
      /\ buffer' \in Seq(Chars) /\ Len(buffer') <= Capacity
      /\ returned'.type \in Types
  <2>1. CASE call = "advance"
    BY <1>1, <1>2, <2>1 DEF TypeOK
  <2>2. CASE call # "advance"
    <3>1. OnlyType(Result.type).type = Result.type
      BY DEF OnlyType
    <3>2. returned'.type = Result.type
      BY <1>2, <2>2, <3>1
    <3> QED BY <1>1, <1>2, <2>2, <3>2
  <2> QED BY <2>1, <2>2
<1>5. TypeOK'
  BY <1>1, <1>2, <1>3, <1>4 DEF TypeOK
<1>6. CacheHolds'
  <2>1. CASE call = "advance"
    BY <1>1, <1>2, <2>1 DEF CacheHolds
  <2>2. CASE call # "advance"
    <3>1. Cached' = Result
      <4>1. Cached' = [type |-> Result.type, lexeme |-> Result.lexeme]
        BY <1>2, <2>2 DEF Cached
      <4>2. Result = [type |-> Result.type, lexeme |-> Result.lexeme]
        BY DEF Result
      <4> QED BY <4>1, <4>2
    <3>2. Grammar!TokenAt(start)' = Grammar!TokenAt(start)
          /\ Grammar!After(start)' = Grammar!After(start)
      BY <1>2, SameText
    <3> QED BY <1>1, <1>2, <3>1, <3>2 DEF CacheHolds
  <2> QED BY <2>1, <2>2
<1> QED BY <1>1, <1>2, <1>3, <1>5, <1>6 DEF LexerInv

(* The client's calls with a token in the cache. *)
CachedCall ==
  \/ /\ returned' = OnlyType(cache) \/ returned' = Cached
     /\ UNCHANGED << input, cursor, has_cache, cache, buffer, call, pc, scan, nul, start >>
  \/ /\ returned' = Cached \/ returned' = returned
     /\ has_cache' = FALSE
     /\ UNCHANGED << input, cursor, cache, buffer, call, pc, scan, nul, start >>

LEMMA CachedKeeps ==
  ASSUME LexerInv, call = "none", has_cache, CachedCall
  PROVE  LexerInv'
<1>1. /\ TypeOK /\ CacheHolds /\ pc = "idle" /\ scan = Fresh /\ scan \in ScanType
      /\ UNCHANGED << input, cursor, cache, buffer, call, pc, scan, nul, start >>
      /\ has_cache' \in BOOLEAN /\ (has_cache' => has_cache)
  BY DEF LexerInv, CachedCall, TypeOK
<1>2. returned'.type \in Types
  <2>1. OnlyType(cache).type = cache /\ Cached.type = cache
    BY DEF OnlyType, Cached
  <2>2. returned' = OnlyType(cache) \/ returned' = Cached \/ returned' = returned
    BY DEF CachedCall
  <2> QED BY <1>1, <2>1, <2>2 DEF TypeOK
<1>3. TypeOK'
  BY <1>1, <1>2 DEF TypeOK
<1>4. CacheHolds'
  <2>1. /\ Grammar!TokenAt(start)' = Grammar!TokenAt(start)
        /\ Grammar!After(start)' = Grammar!After(start)
    BY <1>1, SameText
  <2>2. Cached' = Cached
    BY <1>1 DEF Cached
  <2> QED BY <1>1, <2>1, <2>2 DEF CacheHolds
<1> QED BY <1>1, <1>3, <1>4 DEF LexerInv

(* The four calls: the scanner starts, or the cache answers. *)
LEMMA CallsAre ==
  ASSUME Peek \/ Copy \/ Read \/ Advance
  PROVE  /\ call = "none"
         /\ \/ \E function \in { "peek", "copy", "read", "advance" } : Starts(function)
            \/ has_cache /\ CachedCall
BY DEF Peek, Copy, Read, Advance, CachedCall

LEMMA NextKeeps == LexerInv /\ [Next]_vars => LexerInv'
<1> SUFFICES ASSUME LexerInv, [Next]_vars PROVE LexerInv'
  OBVIOUS
<1>1. CASE Peek \/ Copy \/ Read \/ Advance
  BY <1>1, CallsAre, StartsKeeps, CachedKeeps
<1>2. CASE Ignore
  BY <1>2, IgnoreKeeps
<1>3. CASE Consume
  BY <1>3, ConsumeKeeps
<1>4. CASE Finish
  BY <1>4, FinishKeeps
<1>5. CASE UNCHANGED vars
  <2>1. UNCHANGED << input, cursor, has_cache, cache, buffer, call, pc, scan, nul, returned,
                    start >>
    BY <1>5 DEF vars
  <2>2. /\ Grammar!TokenAt(start)' = Grammar!TokenAt(start)
        /\ Grammar!After(start)' = Grammar!After(start)
    BY <2>1, SameText
  <2>3. CacheHolds'
    BY <2>1, <2>2 DEF LexerInv, CacheHolds, Cached
  <2>4. TypeOK' /\ (pc \in { "blank", "comment" } => InBlanks)'
    BY <2>1 DEF LexerInv, TypeOK, InBlanks, Eof
  <2>5. (pc = "token" => InToken)'
    BY <2>1 DEF LexerInv, InToken, First
  <2> QED BY <2>1, <2>3, <2>4, <2>5 DEF LexerInv
<1> QED BY <1>1, <1>2, <1>3, <1>4, <1>5 DEF Next, Scanner

\* What the proofs below rest on: the types, what has been read of the token in
\* hand, that scanner and grammar cut it off at the same place, and the cache.
THEOREM LexerInvariant == Spec => []LexerInv
<1>1. Init => LexerInv
  BY InitInv
<1>2. LexerInv /\ [Next]_vars => LexerInv'
  BY NextKeeps
<1> QED BY <1>1, <1>2, PTL DEF Spec

(* Whatever the text and whatever the client calls, what the lexer keeps   *)
(* has its type: the store takes at most Capacity characters, a token at    *)
(* most one more, and the NUL behind a token, which the code does not bound *)
(* by the buffer, goes at most one place behind it.                         *)
THEOREM LexerIsTyped == Spec => []TypeOK
<1>1. LexerInv => TypeOK
  BY DEF LexerInv
<1> QED BY <1>1, LexerInvariant, PTL

(* A step that writes no NUL leaves the end of the text where it is. *)
LEMMA StaysAtEnd ==
  ASSUME LexerInv, [Next]_vars, ~Finish
  PROVE  UNCHANGED << input, nul >> /\ (Eof => Eof')
<1>1. CASE Peek \/ Copy \/ Read \/ Advance
  BY <1>1, CallsAre DEF Starts, CachedCall, Eof
<1>2. CASE Ignore \/ Consume
  <2>1. UNCHANGED << input, nul >> /\ cursor' \in { cursor, Advanced }
    BY <1>2 DEF Ignore, Consume
  <2> QED BY <2>1 DEF Advanced, Eof
<1>3. CASE UNCHANGED vars
  BY <1>3 DEF vars, Eof
<1> QED BY <1>1, <1>2, <1>3 DEF Next, Scanner

(* Whatever the text and whatever the client calls, the scanner writes      *)
(* outside its buffer in one case only: the text has been read to its end,  *)
(* it is longer than the buffer, and the NUL behind its last token goes one *)
(* place behind the buffer.                                                 *)
THEOREM OverrunsOnlyAtEnd == Spec => []OverrunOnlyAtEnd
<1>1. Init => OverrunOnlyAtEnd
  BY LexerAssumption DEF Init, OverrunOnlyAtEnd
<1>2. LexerInv /\ OverrunOnlyAtEnd /\ [Next]_vars => OverrunOnlyAtEnd'
  <2> SUFFICES ASSUME LexerInv, OverrunOnlyAtEnd, [Next]_vars, nul' > Capacity
               PROVE  nul' = Capacity + 1 /\ Eof' /\ Len(input') > Capacity
    BY DEF OverrunOnlyAtEnd
  <2>1. CASE Finish
    <3>1. /\ nul' = NulPlace /\ UNCHANGED << input, cursor >>
          /\ InToken /\ scan \in ScanType /\ Capacity \in Nat
          /\ start \in Nat /\ Len(input) \in Nat /\ cursor \in 0 .. Len(input)
      BY <2>1, LexerAssumption, InputIsText DEF Finish, LexerInv, TypeOK
    <3>2. /\ scan.consumed_size \in 0 .. Capacity + 1
          /\ start <= First /\ First = cursor - scan.consumed_size
          /\ scan.overflow <=> Fed(scan) > Capacity
      BY <3>1 DEF InToken, ScanType, First, Stores
    <3>3. nul' = scan.consumed_size /\ scan.consumed_size = Capacity + 1
      BY <3>1, <3>2 DEF NulPlace
    <3>4. scan.overflow
      BY <3>1, <3>2, <3>3 DEF Fed
    <3>5. Eof
      BY <3>1, <3>3, <3>4 DEF NulPlace
    <3> QED BY <3>1, <3>2, <3>3, <3>5 DEF Eof
  <2>2. CASE ~Finish
    BY <2>2, StaysAtEnd DEF OverrunOnlyAtEnd
  <2> QED BY <2>1, <2>2
<1> QED BY <1>1, <1>2, LexerInvariant, PTL DEF Spec

(* No lexeme has the type of an overlong token. *)
LEMMA NotTooBig ==
  ASSUME NEW s, NEW stored
  PROVE  /\ Grammar!DocumentedClass(s, stored) # "TOO_BIG"
         /\ Grammar!Class(s, stored) # "TOO_BIG"
<1>1. Grammar!DocumentedClass(s, stored) # "TOO_BIG"
  BY DEF Grammar!DocumentedClass
<1>2. Grammar!Class(s, stored) # "TOO_BIG"
  BY <1>1 DEF Grammar!Class
<1> QED BY <1>1, <1>2

(* The two types of a lexeme. *)
LEMMA DocumentedOrNot ==
  ASSUME NEW s \in Seq(Chars), NEW stored
  PROVE  Grammar!Class(s, stored) = Grammar!DocumentedClass(s, stored)
           <=> ~(Grammar!Register(s) \/ s = << "-" >> \/ Grammar!MinusPoint(s))
<1>1. Len(s) \in Nat
  OBVIOUS
<1>2. CASE Grammar!Register(s)
  <2>1. Len(s) > 2 /\ s[1] \in Alpha /\ s[2] = ":"
    BY <1>2 DEF Grammar!Register, Alpha, Upper
  <2>2. ~Grammar!MinusPoint(s) /\ s # << "-" >>
    BY <2>1, CharsDistinct DEF Grammar!MinusPoint, Distinct
  <2>3. Grammar!Class(s, stored) = "UNKNOWN"
    BY <1>2, <2>2 DEF Grammar!Class
  <2>4. ASSUME NEW t \in Seq(Chars), Len(t) >= 2, t[2] = ":" PROVE ~Grammar!Name(t)
    <3>1. 2 \in 2 .. Len(t) /\ ":" \notin Alpha \cup Digit \cup { "-" }
      BY <2>4, CharsDistinct DEF Distinct
    <3> QED BY <2>4, <3>1, SameClasses DEF Grammar!Name, Grammar!AllFrom
  <2>5. ASSUME NEW k \in 1 .. Len(s)
        PROVE  /\ SubSeq(s, 1, k) \in Seq(Chars) /\ Len(SubSeq(s, 1, k)) = k
               /\ SubSeq(s, 1, k)[1] = s[1]
               /\ k >= 2 => SubSeq(s, 1, k)[2] = s[2]
    BY <1>1
  <2>6. ~Grammar!Name(s) /\ ~Grammar!Name(SubSeq(s, 1, Len(s) - 1))
    <3>1. Len(s) - 1 \in 1 .. Len(s) /\ Len(s) - 1 >= 2 /\ Len(s) >= 2
      BY <1>1, <2>1
    <3>2. PICK t \in Seq(Chars) : t = SubSeq(s, 1, Len(s) - 1) /\ Len(t) >= 2 /\ t[2] = ":"
      BY <2>1, <2>5, <3>1
    <3>3. ~Grammar!Name(t)
      BY <2>4, <3>2
    <3>4. ~Grammar!Name(s)
      BY <2>1, <2>4, <3>1
    <3> QED BY <3>2, <3>3, <3>4
  <2>7. \A t : Grammar!Decimal(t) => t[1] \in Digit \cup { "-" }
    BY SameClasses DEF Grammar!Decimal
  <2>8. ~Grammar!Decimal(s) /\ ~Grammar!Real(s)
    <3>1. ASSUME NEW dot \in 2 .. Len(s) - 1 PROVE ~Grammar!Decimal(SubSeq(s, 1, dot - 1))
      <4>1. dot - 1 \in 1 .. Len(s)
        BY <1>1
      <4> QED BY <2>1, <2>5, <2>7, <4>1, CharsDistinct DEF Distinct
    <3>2. ~Grammar!Decimal(s)
      BY <2>1, <2>7, CharsDistinct DEF Distinct
    <3> QED BY <3>1, <3>2 DEF Grammar!Real
  <2>9. /\ ~Grammar!Hexadecimal(s) /\ ~Grammar!Text(s)
        /\ s[1] # "@" /\ s[1] # "."
    BY <2>1, CharsDistinct, SameClasses DEF Grammar!Hexadecimal, Grammar!Text, Distinct
  <2>10. Grammar!DocumentedClass(s, stored) = "REGISTER"
    BY <1>2, <2>6, <2>8, <2>9 DEF Grammar!DocumentedClass
  <2> QED BY <1>2, <2>3, <2>10
<1>3. CASE s = << "-" >>
  <2>1. s[1] = "-" /\ Len(s) = 1
    BY <1>3
  <2>2. ~Grammar!Decimal(s) /\ ~Grammar!Register(s) /\ ~Grammar!MinusPoint(s)
    BY <1>3, <2>1 DEF Grammar!Decimal, Grammar!Register, Grammar!MinusPoint
  <2>3. Grammar!DocumentedClass(s, stored) # "DEC_INTEGER"
    BY <2>2 DEF Grammar!DocumentedClass
  <2>4. Grammar!Class(s, stored) = "DEC_INTEGER"
    BY <1>3, <2>2 DEF Grammar!Class
  <2> QED BY <1>3, <2>3, <2>4
<1>4. CASE Grammar!MinusPoint(s)
  <2>1. s[1] = "-" /\ s[2] = "." /\ Len(s) > 2 /\ \A i \in 3 .. Len(s) : s[i] \in Digit
    BY <1>4, SameClasses DEF Grammar!MinusPoint, Grammar!AllFrom
  <2>2. ASSUME NEW dot \in 2 .. Len(s) - 1, s[dot] = "."
        PROVE  ~Grammar!Decimal(SubSeq(s, 1, dot - 1))
    <3>1. dot = 2
      BY <1>1, <2>1, <2>2, CharsDistinct DEF Distinct
    <3>2. SubSeq(s, 1, 1) = << "-" >>
      <4>1. 1 <= Len(s)
        BY <1>1, <2>1
      <4>2. SubSeq(s, 1, 1) \in Seq(Chars) /\ Len(SubSeq(s, 1, 1)) = 1
              /\ SubSeq(s, 1, 1)[1] = s[1]
        BY <1>1, <4>1
      <4> DEFINE t == SubSeq(s, 1, 1)
                 u == << "-" >>
      <4>3. u \in Seq(Chars) /\ Len(u) = 1 /\ u[1] = "-"
        BY DEF Chars
      <4>4. t \in Seq(Chars) /\ Len(t) = 1 /\ t[1] = "-"
        BY <2>1, <4>2
      <4> HIDE DEF t, u
      <4>5. \A i \in 1 .. Len(t) : t[i] = u[i]
        BY <4>3, <4>4
      <4>6. t = u
        BY <4>3, <4>4, <4>5, SeqEqual
      <4> QED BY <4>6 DEF t, u
    <3> QED BY <3>1, <3>2 DEF Grammar!Decimal
  <2>3. ~Grammar!Real(s)
    BY <2>2 DEF Grammar!Real
  <2>4. ~Grammar!Register(s) /\ s # << "-" >>
    BY <2>1 DEF Grammar!Register
  <2>5. Grammar!DocumentedClass(s, stored) # "REAL"
    BY <2>3 DEF Grammar!DocumentedClass
  <2>6. Grammar!Class(s, stored) = "REAL"
    BY <1>4, <2>4 DEF Grammar!Class
  <2> QED BY <1>4, <2>5, <2>6
<1>5. CASE ~(Grammar!Register(s) \/ s = << "-" >> \/ Grammar!MinusPoint(s))
  BY <1>5 DEF Grammar!Class
<1> QED BY <1>2, <1>3, <1>4, <1>5

(* For every text and size of the buffer the types are those of the         *)
(* description, but for the departures of TokenGrammar, and in those never. *)
THEOREM TypesAreDocumented == Spec => []DocumentedUnlessDeparts
<1>1. LexerInv => DocumentedUnlessDeparts
  <2> SUFFICES ASSUME LexerInv, pc = "token", Done
               PROVE  Result.type = Grammar!DocumentedType(start) <=> ~Grammar!Departs(start)
    BY DEF DocumentedUnlessDeparts
  <2> DEFINE b == First
             n == scan.consumed_size
             s == SubSeq(input, b + 1, Grammar!End(b))
  <2>1. /\ input \in Seq(Chars) /\ Len(input) \in Nat /\ cursor \in 0 .. Len(input)
        /\ scan \in ScanType /\ InToken /\ start \in 0 .. cursor
    BY InputIsText DEF LexerInv, TypeOK
  <2>2. n \in Nat /\ b \in Nat /\ b + n = cursor /\ start \in Nat /\ b \in start .. Len(input)
    BY <2>1 DEF ScanType, InToken, First
  <2>3. Grammar!Begin(start) = b
    BY <2>1, <2>2, BeginIs DEF InToken
  <2>4. Result = Grammar!TokenAt(start)
    BY ResultIs
  <2>5. CASE b = Grammar!Ends
    BY <2>3, <2>4, <2>5 DEF Grammar!TokenAt, Grammar!DocumentedType, Grammar!Departs
  <2>6. CASE b # Grammar!Ends
    <3>1. n > 0
      BY <2>2, <2>6, FedNothing, EndsIs DEF Eof
    <3>2. ~Grammar!Reported(b) => Grammar!End(b) = b + n
      BY <3>1, CutIs
    <3>3. ~Grammar!Reported(b) => s \in Seq(Chars)
      BY <2>1, <2>2, <3>2
    <3>4. /\ Result.type = IF Grammar!Reported(b) THEN "TOO_BIG"
                           ELSE Grammar!Class(s, Grammar!Lexeme(b))
          /\ Grammar!DocumentedType(start) =
               IF Grammar!TooBig(b) THEN "TOO_BIG"
               ELSE Grammar!DocumentedClass(s, Grammar!Lexeme(b))
          /\ Grammar!Departs(start) <=>
               \/ Grammar!TooBig(b) # Grammar!Reported(b)
               \/ /\ ~Grammar!Reported(b)
                  /\ Grammar!Register(s) \/ s = << "-" >> \/ Grammar!MinusPoint(s)
      BY <2>3, <2>4, <2>6 DEF Grammar!TokenAt, Grammar!DocumentedType, Grammar!Departs
    <3>5. Grammar!TooBig(b) \in BOOLEAN /\ Grammar!Reported(b) \in BOOLEAN
      BY DEF Grammar!TooBig, Grammar!Reported
    <3> HIDE DEF b, n, s
    <3>6. CASE Grammar!Reported(b)
      BY <3>4, <3>5, <3>6, NotTooBig
    <3>7. CASE ~Grammar!Reported(b)
      BY <3>3, <3>4, <3>5, <3>7, NotTooBig, DocumentedOrNot
    <3> QED BY <3>6, <3>7
  <2> QED BY <2>5, <2>6
<1> QED BY <1>1, LexerInvariant, PTL

-----------------------------------------------------------------------------
(* The lexer implements the grammar.                                       *)

At == IF has_cache \/ call # "none" THEN start ELSE cursor

LEMMA LookIs ==
  ASSUME UNCHANGED input, At' = At,
         \/ returned' = Grammar!TokenAt(At)
         \/ returned' = [type |-> Grammar!TokenAt(At).type, lexeme |-> << >>]
  PROVE  Grammar!Look
BY DEF Grammar!Look, Grammar!TypeAt, At

LEMMA TakeIs ==
  ASSUME UNCHANGED input, At' = Grammar!After(At), returned' = Grammar!TokenAt(At)
  PROVE  Grammar!Take
BY DEF Grammar!Take, At

LEMMA DropIs ==
  ASSUME UNCHANGED input, At' = Grammar!After(At), UNCHANGED returned
  PROVE  Grammar!Drop
BY DEF Grammar!Drop, At

LEMMA StuttersIs ==
  ASSUME UNCHANGED << input, returned >>, At' = At
  PROVE  UNCHANGED Grammar!gvars
BY DEF Grammar!gvars, At

TokenNext == Grammar!Look \/ Grammar!Take \/ Grammar!Drop

LEMMA FinishImplements ==
  ASSUME LexerInv, Finish
  PROVE  TokenNext
<1>1. Result = Grammar!TokenAt(start) /\ cursor = Grammar!After(start)
  BY FinishKeeps
<1>2. /\ call \in { "peek", "copy", "read", "advance" } /\ ~has_cache
      /\ call' = "none" /\ UNCHANGED << input, cursor, start >>
      /\ call = "advance" => UNCHANGED << has_cache, returned >>
      /\ call # "advance" =>
           /\ has_cache' = (call # "read")
           /\ returned' = IF call = "peek" THEN OnlyType(Result.type) ELSE Result
  BY DEF Finish, LexerInv, TypeOK
<1>3. At = start
  BY <1>2 DEF At
<1>4. CASE call \in { "peek", "copy" }
  <2>1. has_cache' /\ At' = start
    BY <1>2, <1>4 DEF At
  <2>2. \/ returned' = Grammar!TokenAt(At)
        \/ returned' = [type |-> Grammar!TokenAt(At).type, lexeme |-> << >>]
    BY <1>1, <1>2, <1>3, <1>4 DEF OnlyType
  <2>3. At' = At
    BY <1>3, <2>1
  <2> QED BY <1>2, <2>2, <2>3, LookIs DEF TokenNext
<1>5. CASE call = "read"
  <2>1. At' = cursor /\ returned' = Result
    BY <1>2, <1>5 DEF At
  <2>2. At' = Grammar!After(At) /\ returned' = Grammar!TokenAt(At)
    BY <1>1, <1>3, <2>1
  <2> QED BY <1>2, <2>2, TakeIs DEF TokenNext
<1>6. CASE call = "advance"
  <2>1. At' = cursor /\ UNCHANGED returned
    BY <1>2, <1>6 DEF At
  <2>2. At' = Grammar!After(At)
    BY <1>1, <1>3, <2>1
  <2> QED BY <1>2, <2>1, <2>2, DropIs DEF TokenNext
<1> QED BY <1>2, <1>4, <1>5, <1>6

LEMMA CachedImplements ==
  ASSUME LexerInv, call = "none", has_cache, Peek \/ Copy \/ Read \/ Advance
  PROVE  TokenNext
<1>1. Cached = Grammar!TokenAt(start) /\ cursor = Grammar!After(start) /\ At = start
  BY DEF LexerInv, CacheHolds, At
<1>2. UNCHANGED << input, cursor, call, start >>
  BY DEF Peek, Copy, Read, Advance, Starts
<1>3. cache = Grammar!TokenAt(start).type
  <2>1. Cached.type = cache
    BY DEF Cached
  <2> QED BY <1>1, <2>1
<1>4. CASE Peek \/ Copy
  <2>1. /\ UNCHANGED has_cache
        /\ returned' = OnlyType(cache) \/ returned' = Cached
    BY <1>4 DEF Peek, Copy, Starts
  <2>2. At' = At
    BY <1>2, <2>1 DEF At
  <2>3. \/ returned' = Grammar!TokenAt(At)
        \/ returned' = [type |-> Grammar!TokenAt(At).type, lexeme |-> << >>]
    BY <1>1, <1>3, <2>1 DEF OnlyType
  <2> QED BY <1>2, <2>2, <2>3, LookIs DEF TokenNext
<1>5. CASE Read
  <2>1. returned' = Cached /\ ~has_cache'
    BY <1>5 DEF Read, Starts
  <2>2. At' = cursor
    BY <1>2, <2>1 DEF At
  <2>3. At' = Grammar!After(At) /\ returned' = Grammar!TokenAt(At)
    BY <1>1, <2>1, <2>2
  <2> QED BY <1>2, <2>3, TakeIs DEF TokenNext
<1>6. CASE Advance
  <2>1. UNCHANGED returned /\ ~has_cache'
    BY <1>6 DEF Advance, Starts
  <2>2. At' = cursor
    BY <1>2, <2>1 DEF At
  <2>3. At' = Grammar!After(At)
    BY <1>1, <2>2
  <2> QED BY <1>2, <2>1, <2>3, DropIs DEF TokenNext
<1> QED BY <1>4, <1>5, <1>6

LEMMA StepImplements ==
  ASSUME LexerInv, [Next]_vars
  PROVE  TokenNext \/ UNCHANGED Grammar!gvars
<1>1. CASE UNCHANGED vars
  BY <1>1, StuttersIs DEF vars, At
<1>2. CASE Ignore
  <2>1. At' = At /\ UNCHANGED << input, returned >>
    BY <1>2 DEF Ignore, LexerInv, TypeOK, At
  <2> QED BY <2>1, StuttersIs
<1>3. CASE Consume
  <2>1. At' = At /\ UNCHANGED << input, returned >>
    BY <1>3 DEF Consume, LexerInv, TypeOK, At
  <2> QED BY <2>1, StuttersIs
<1>4. CASE Finish
  BY <1>4, FinishImplements
<1>5. CASE Peek \/ Copy \/ Read \/ Advance
  <2>1. call = "none"
    BY <1>5, CallsAre
  <2>2. CASE has_cache
    BY <1>5, <2>1, <2>2, CachedImplements
  <2>3. CASE ~has_cache
    <3>1. PICK function \in { "peek", "copy", "read", "advance" } : Starts(function)
      BY <1>5, <2>3, CallsAre
    <3>2. At = cursor /\ At' = cursor /\ UNCHANGED << input, returned >>
      BY <2>1, <2>3, <3>1 DEF Starts, At
    <3>3. At' = At
      BY <3>2
    <3> QED BY <3>2, <3>3, StuttersIs
  <2> QED BY <2>2, <2>3
<1> QED BY <1>1, <1>2, <1>3, <1>4, <1>5 DEF Next, Scanner

(* Whatever the client calls, in any mix of peeking, copying, reading and  *)
(* advancing, it is given the tokens of TokenGrammar, once each and in     *)
(* order: the state machine of ni_get_next_token with its cut-off store,   *)
(* and the lexer's one token of look-ahead, implement it, with the four    *)
(* departures from the description that TokenGrammar names.                *)
THEOREM LexerImplementsGrammar == Spec => ImplementsTokenGrammar
<1>1. Init => Grammar!TokenInit
  BY DEF Init, Grammar!TokenInit
<1>2. LexerInv /\ [Next]_vars
        => [Grammar!Look \/ Grammar!Take \/ Grammar!Drop]_Grammar!gvars
  BY StepImplements DEF TokenNext
<1> QED BY <1>1, <1>2, LexerInvariant, PTL DEF Spec, ImplementsTokenGrammar, Grammar!TokenSpec
-----------------------------------------------------------------------------
(* Why calls return, but for the fairness: every step of the scanner brings *)
(* it nearer to its return.                                                 *)

Phase ==
  CASE pc = "comment" -> IF Eof THEN 4 ELSE 3
    [] pc = "blank"   -> IF Eof THEN 3 ELSE 4
    [] pc = "token"   -> IF scan.overflow \/ scan.complete THEN 1 ELSE 2
    [] pc = "idle"    -> 0

(* No more steps than this are left of the call.                            *)
Distance == 5 * (Len(input) - cursor) + Phase

ScannerAdvances == [][Scanner => Distance' < Distance]_vars

LEMMA DistanceIsNatural == LexerInv => Distance \in Nat
<1> SUFFICES ASSUME LexerInv PROVE Distance \in Nat
  OBVIOUS
<1>1. Len(input) - cursor \in Nat
  BY InputIsText DEF LexerInv, TypeOK
<1>2. Phase \in Nat
  BY DEF LexerInv, TypeOK, Phase
<1> QED BY <1>1, <1>2 DEF Distance

(* The steps that stay where they are go on to a later phase.               *)
LEMMA ScannerDistance == LexerInv /\ Scanner => Distance' < Distance
<1> SUFFICES ASSUME LexerInv, Scanner PROVE Distance' < Distance
  OBVIOUS
<1> DEFINE left == Len(input) - cursor
<1>1. /\ Len(input) \in Nat /\ cursor \in 0 .. Len(input)
      /\ pc \in { "idle", "blank", "comment", "token" }
  BY InputIsText DEF LexerInv, TypeOK
<1>2. left \in Nat /\ (Eof <=> left = 0)
  BY <1>1 DEF Eof
<1>3. Phase \in 0 .. 4
  BY <1>1 DEF Phase
<1>4. CASE Ignore
  <2>1. input' = input /\ scan' = scan
    BY <1>4 DEF Ignore
  <2>2. CASE pc = "blank" /\ ~Eof /\ cursor' = cursor + 1 /\ pc' = "blank"
    BY <1>1, <1>2, <2>1, <2>2 DEF Distance, Phase, Eof
  <2>3. CASE pc = "blank" /\ ~Eof /\ cursor' = cursor /\ pc' = "comment"
    <3>1. Phase = 4 /\ Phase' = 3
      BY <1>1, <1>2, <2>1, <2>3 DEF Phase, Eof
    <3> QED BY <1>1, <2>1, <2>3, <3>1 DEF Distance
  <2>4. CASE /\ pc = "comment" /\ ~Eof /\ cursor' = cursor + 1
             /\ pc' \in { "blank", "comment" }
    BY <1>1, <1>2, <2>1, <2>4 DEF Distance, Phase, Eof
  <2>5. CASE pc = "comment" /\ Eof /\ cursor' = cursor /\ pc' = "blank"
    BY <1>1, <1>2, <2>1, <2>5 DEF Distance, Phase, Eof
  <2>6. CASE pc = "blank" /\ cursor' = cursor /\ pc' = "token"
    <3>1. Phase \in { 3, 4 }
      BY <2>6 DEF Phase
    <3>2. Phase' \in { 1, 2 }
      BY <2>1, <2>6 DEF Phase
    <3> QED BY <1>1, <1>2, <2>1, <2>6, <3>1, <3>2 DEF Distance
  <2>7. "NUL" \notin Space /\ "NUL" # "#" /\ "NUL" # Newline
    BY DEF Space, Newline
  <2> QED BY <1>4, <2>2, <2>3, <2>4, <2>5, <2>6, <2>7 DEF Ignore, Peeked, Advanced
<1>5. CASE Consume
  <2>1. /\ input' = input /\ pc = "token" /\ pc' = "token" /\ ~Eof
        /\ ~scan.overflow /\ ~scan.complete
    BY <1>5 DEF Consume
  <2>2. CASE Breaks(Peeked)
    <3>1. cursor' = cursor /\ scan'.complete
      BY <1>5, <2>2 DEF Consume
    <3> QED BY <1>1, <1>2, <2>1, <3>1 DEF Distance, Phase
  <2>3. CASE ~Breaks(Peeked)
    <3>1. cursor' = cursor + 1
      BY <1>5, <2>1, <2>3 DEF Consume, Advanced
    <3> QED BY <1>1, <1>2, <2>1, <3>1 DEF Distance, Phase
  <2> QED BY <2>2, <2>3
<1>6. CASE Finish
  <2>1. /\ input' = input /\ cursor' = cursor
        /\ pc = "token" /\ pc' = "idle"
    BY <1>6 DEF Finish
  <2> QED BY <1>1, <1>2, <2>1 DEF Distance, Phase
<1> QED BY <1>4, <1>5, <1>6 DEF Scanner

(* For every text: within a call, Distance is a natural number that every  *)
(* step of the scanner makes smaller, in blanks, comments and tokens alike. *)
(* So no call makes more than five steps for a character left and four.    *)
THEOREM CallsAreBounded == Spec => []( Distance \in Nat ) /\ ScannerAdvances
<1>1. LexerInv /\ [Next]_vars => [Scanner => Distance' < Distance]_vars
  BY ScannerDistance
<1> QED BY <1>1, DistanceIsNatural, LexerInvariant, PTL DEF Spec, ScannerAdvances

(* A token but EOF takes a character at least.                              *)
TokensTakeCharacters == [][Finish => Result.type = "EOF" \/ start < cursor]_vars

(* For every text: a call that scans ends at the end of the text or behind *)
(* where it began, so a client that goes on reading comes to EOF.           *)
THEOREM TokensAdvance == Spec => TokensTakeCharacters
<1>1. LexerInv /\ Finish => Result.type = "EOF" \/ start < cursor
  <2> SUFFICES ASSUME LexerInv, Finish, ~(start < cursor)
               PROVE  Result.type = "EOF"
    OBVIOUS
  <2>1. /\ InToken /\ scan \in ScanType /\ Capacity > 0
        /\ start \in Nat /\ cursor \in Nat
    BY LexerAssumption, InputIsText DEF LexerInv, Finish, TypeOK
  <2>2. scan.consumed_size = 0
    BY <2>1 DEF InToken, First, ScanType
  <2>3. InWord(input, First, 0, scan)
    BY <2>1, <2>2 DEF InToken, Scans, InText, PastText
  <2>4. ~scan.complete /\ ~scan.handling_spaces
    BY <2>3 DEF InWord
  <2>5. ~scan.overflow
    BY <2>1, <2>2, <2>4, LexerAssumption DEF InToken, Stores, Fed
  <2>6. Eof
    BY <2>4, <2>5 DEF Finish, Done
  <2> QED BY <2>2, <2>6 DEF Result
<1>2. LexerInv /\ [Next]_vars => [Finish => Result.type = "EOF" \/ start < cursor]_vars
  BY <1>1
<1> QED BY <1>2, LexerInvariant, PTL DEF Spec, TokensTakeCharacters
=============================================================================
