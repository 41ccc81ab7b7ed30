------------------------------- MODULE Lexer -------------------------------
(***************************************************************************)
(* The lexer of the third experiment: NIStream (src/asm/istreams.c), the   *)
(* scanner ni_get_next_token (src/asm/tokens.c), and NLexer with its one   *)
(* cached token (src/asm/lexer.c).  The client makes any calls; the        *)
(* scanner handles one character per step.                                 *)
(***************************************************************************)
EXTENDS Integers, Sequences, Characters

CONSTANTS
  Inputs,         (* the texts to read, sequences of characters            *)
  OpcodeNames,    (* the names in OPCODE_TABLE                             *)
  KeywordNames,   (* the names in KEYWORD_TABLE                            *)
  Capacity        (* LEXEME_BUFFER_SIZE                                    *)

(* "?" stands for every character the scanner has no use for.              *)
Chars == Alpha \cup Digit \cup Space
           \cup { ".", "-", ":", "@", "#", "?", Quote, Backslash }

ASSUME LexerAssumption ==
  /\ Capacity \in Nat \ {0}
  /\ Inputs \subseteq Seq(Chars)

VARIABLES
  input, cursor,       (* NIStream                                         *)
  has_cache, cache,    (* NLexer: the type of the token that was peeked,   *)
  buffer,              (* and its lexeme                                   *)
  call,                (* the client's call that the scanner works for     *)
  pc,                  (* what the scanner does: ignores blanks, ignores a *)
                       (* comment, or reads a token                        *)
  scan,                (* the variables of ni_get_next_token               *)
  nul,                 (* history: where in its buffer the scanner wrote   *)
                       (* the NUL behind a lexeme; the buffers, char       *)
                       (* [LEXEME_BUFFER_SIZE + 1], have 0 .. Capacity     *)
  returned,            (* what the last call that returns a token returned *)
  start                (* history: the cursor before the last token read   *)

stream == << input, cursor >>
lexer == << has_cache, cache, buffer >>
vars == << input, cursor, has_cache, cache, buffer, call, pc, scan, nul,
           returned, start >>

States ==
  { "S_INIT", "S_DECIMAL_NUMBER", "S_HEXADECIMAL_NUMBER",
    "S_HEXADECIMAL_PREFIX", "S_LEADING_ZERO", "S_REAL_PREFIX", "S_REAL",
    "S_IDENTIFIER", "S_LABEL_LEAD", "S_LABEL_DEFINITION", "S_REGISTER",
    "S_REGISTER_PREFIX", "S_STRING_OPENED", "S_STRING_END",
    "S_STRING_ESCAPE", "S_KEYWORD", "S_UNKNOWN" }

Types ==
  { "EOF", "TOO_BIG", "DEC_INTEGER", "HEX_INTEGER", "REAL",
    "UNRECOGNIZED_OPCODE", "OPCODE", "LABEL", "LABEL_DEF", "REGISTER",
    "STRING", "KEYWORD", "UNRECOGNIZED_KW", "UNKNOWN" }

(* ni_istream_eof, ni_istream_peek and ni_istream_read *)
Eof == cursor = Len(input)
Peeked == IF Eof THEN "NUL" ELSE input[cursor + 1]
Advanced == IF Eof THEN cursor ELSE cursor + 1

(* init_store and the declarations of ni_get_next_token *)
Fresh ==
  [state |-> "S_INIT", store |-> << >>, consumed_size |-> 0,
   handling_spaces |-> FALSE, is_label |-> FALSE,
   overflow |-> FALSE, complete |-> FALSE]

(* ni_new_lexer *)
Init ==
  /\ input \in Inputs /\ cursor = 0
  /\ has_cache = FALSE /\ cache = "UNKNOWN" /\ buffer = << >>
  /\ call = "none" /\ pc = "idle" /\ scan = Fresh /\ nul = Capacity
  /\ returned = [type |-> "UNKNOWN", lexeme |-> << >>]
  /\ start = 0

-----------------------------------------------------------------------------
(* The scanner. *)

(* handle_S_INIT, handle_S_IDENTIFIER, ...: where a character leads from a  *)
(* state; every other character leads to S_UNKNOWN.                         *)
Moves ==
  [S_INIT               |-> { << Alpha, "S_IDENTIFIER" >>,
                              << { "." }, "S_KEYWORD" >>,
                              << { "0" }, "S_LEADING_ZERO" >>,
                              << (Digit \ { "0" }) \cup { "-" }, "S_DECIMAL_NUMBER" >>,
                              << { Quote }, "S_STRING_OPENED" >>,
                              << { "@" }, "S_LABEL_LEAD" >> },
   S_IDENTIFIER         |-> { << Alpha \cup Digit \cup { "-" }, "S_IDENTIFIER" >>,
                              << { ":" }, "S_LABEL_DEFINITION" >> },
   S_LEADING_ZERO       |-> { << Digit, "S_DECIMAL_NUMBER" >>,
                              << { "x" }, "S_HEXADECIMAL_PREFIX" >>,
                              << { "." }, "S_REAL_PREFIX" >> },
   S_DECIMAL_NUMBER     |-> { << { "." }, "S_REAL_PREFIX" >>,
                              << Digit, "S_DECIMAL_NUMBER" >> },
   S_HEXADECIMAL_PREFIX |-> { << HexDigit, "S_HEXADECIMAL_NUMBER" >> },
   S_HEXADECIMAL_NUMBER |-> { << HexDigit, "S_HEXADECIMAL_NUMBER" >> },
   S_REAL_PREFIX        |-> { << Digit, "S_REAL" >> },
   S_REAL               |-> { << Digit, "S_REAL" >> },
   S_KEYWORD            |-> { << Lower \cup Digit \cup { "-" }, "S_KEYWORD" >> },
   S_REGISTER_PREFIX    |-> { << Digit, "S_REGISTER" >> },
   S_REGISTER           |-> { << Digit, "S_REGISTER" >> },
   S_LABEL_LEAD         |-> { << Alpha, "S_IDENTIFIER" >> },
   S_LABEL_DEFINITION   |-> { },
   S_STRING_END         |-> { },
   S_UNKNOWN            |-> { }]

(* Slip: a label reference may end in a colon. *)
FollowingLabel(state, chr, is_label) ==
  CASE state = "S_STRING_ESCAPE" -> "S_STRING_OPENED"
    [] state = "S_STRING_OPENED" ->
         CASE chr = Newline -> "S_UNKNOWN"
           [] chr = Backslash -> "S_STRING_ESCAPE"
           [] chr = Quote -> "S_STRING_END"
           [] OTHER -> "S_STRING_OPENED"
    [] OTHER ->
         LET moves == { move \in Moves[state] : chr \in move[1] }
         IN  IF moves = { } THEN "S_UNKNOWN"
             ELSE (CHOOSE move \in moves : TRUE)[2]

Following(state, chr, is_label) ==
  CASE state = "S_STRING_ESCAPE" -> "S_STRING_OPENED"
    [] state = "S_STRING_OPENED" ->
         CASE chr = Newline -> "S_UNKNOWN"
           [] chr = Backslash -> "S_STRING_ESCAPE"
           [] chr = Quote -> "S_STRING_END"
           [] OTHER -> "S_STRING_OPENED"
    [] OTHER ->
         LET moves == { move \in Moves[state] : chr \in move[1] }
         IN  IF moves = { } \/ (chr = ":" /\ is_label) THEN "S_UNKNOWN"
             ELSE (CHOOSE move \in moves : TRUE)[2]

(* Slip: the end of the input does not end a comment. *)
IgnoreUntilNewline ==
  /\ \/ /\ pc = "blank" /\ Peeked \in Space
        /\ cursor' = Advanced /\ UNCHANGED pc
     \/ /\ pc = "blank" /\ Peeked = "#"
        /\ pc' = "comment" /\ UNCHANGED cursor
     \/ /\ pc = "comment"
        /\ cursor' = Advanced
        /\ pc' = IF Peeked = Newline THEN "blank" ELSE "comment"
     \/ /\ pc = "blank" /\ Peeked \notin Space \cup { "#" }
        /\ pc' = "token" /\ UNCHANGED cursor
  /\ UNCHANGED << input, has_cache, cache, buffer, call, scan, nul, returned,
                  start >>

(* ignore_whitespace and ignore_until_eol, a character at a time *)
Ignore ==
  /\ \/ /\ pc = "blank" /\ Peeked \in Space
        /\ cursor' = Advanced /\ UNCHANGED pc
     \/ /\ pc = "blank" /\ Peeked = "#"
        /\ pc' = "comment" /\ UNCHANGED cursor
     \/ /\ pc = "comment"
        /\ cursor' = Advanced
        /\ pc' = IF Peeked = Newline \/ Eof THEN "blank" ELSE "comment"
     \/ /\ pc = "blank" /\ Peeked \notin Space \cup { "#" }
        /\ pc' = "token" /\ UNCHANGED cursor
  /\ UNCHANGED << input, has_cache, cache, buffer, call, scan, nul, returned,
                  start >>

(* Slip: the store takes one character more. *)
FeedsLate(store) == Len(store) <= Capacity

(* feed_store: whether there is room for a character. *)
Feeds(store) == Len(store) < Capacity

(* Blanks belong to a text from its first quote to its last. *)
HandlesSpaces(chr) ==
  \/ (scan.state = "S_INIT" /\ chr = Quote)
  \/ /\ scan.handling_spaces
     /\ ~(scan.state = "S_STRING_OPENED" /\ chr = Quote)

(* A newline ends a text at once, and is not read. *)
Breaks(chr) == scan.state = "S_STRING_OPENED" /\ chr = Newline

(* The character after the next one. *)
SpaceFollows == cursor + 1 < Len(input) /\ input[cursor + 2] \in Space

(* The loop of ni_get_next_token. *)
Consume ==
  /\ pc = "token" /\ ~Eof /\ ~scan.overflow /\ ~scan.complete
  /\ scan' =
       [state           |-> Following(scan.state, Peeked, scan.is_label),
        store           |-> IF Feeds(scan.store) THEN Append(scan.store, Peeked)
                            ELSE scan.store,
        consumed_size   |-> scan.consumed_size + IF Breaks(Peeked) THEN 0 ELSE 1,
        handling_spaces |-> HandlesSpaces(Peeked),
        is_label        |-> scan.is_label \/ (scan.state = "S_INIT" /\ Peeked = "@"),
        overflow        |-> ~Feeds(scan.store),
        complete        |-> \/ Breaks(Peeked)
                            \/ ~HandlesSpaces(Peeked) /\ SpaceFollows]
  /\ cursor' = IF Breaks(Peeked) THEN cursor ELSE Advanced
  /\ UNCHANGED << input, has_cache, cache, buffer, call, pc, nul, returned, start >>

Done == Eof \/ scan.overflow \/ scan.complete

(* Slip: a token that is too big is ended like any other. *)
NulPlaceUnguarded ==
  IF Eof /\ scan.consumed_size = 0 THEN 0 ELSE scan.consumed_size

(* Where the end of ni_get_next_token writes the NUL: behind the characters *)
(* consumed, at the start for EOF, at the buffer's end for TOO_BIG.         *)
NulPlace ==
  CASE Eof /\ scan.consumed_size = 0 -> 0
    [] ~Eof /\ scan.overflow -> Capacity
    [] OTHER -> scan.consumed_size

(* The string that is then in the buffer: what was consumed of the store.   *)
(* Where the NUL went behind the buffer it ends at Capacity, where there    *)
(* has been a NUL since ni_new_lexer, or the start of the program.          *)
Stored ==
  SubSeq(scan.store, 1, IF scan.consumed_size < Len(scan.store)
                        THEN scan.consumed_size ELSE Len(scan.store))

(* compute_token_type_from_state and the look-up in the tables *)
StateType(stored) ==
  CASE scan.state = "S_IDENTIFIER" ->
         CASE scan.is_label -> "LABEL"
           [] ~scan.is_label /\ stored \in OpcodeNames -> "OPCODE"
           [] OTHER -> "UNRECOGNIZED_OPCODE"
    [] scan.state = "S_KEYWORD" ->
         IF stored \in KeywordNames THEN "KEYWORD" ELSE "UNRECOGNIZED_KW"
    [] scan.state \in { "S_LEADING_ZERO", "S_DECIMAL_NUMBER" } -> "DEC_INTEGER"
    [] scan.state = "S_REAL" -> "REAL"
    [] scan.state = "S_HEXADECIMAL_NUMBER" -> "HEX_INTEGER"
    [] scan.state = "S_LABEL_DEFINITION" -> "LABEL_DEF"
    [] scan.state = "S_STRING_END" -> "STRING"
    [] scan.state = "S_REGISTER" -> "REGISTER"
    [] OTHER -> "UNKNOWN"

(* The end of ni_get_next_token. *)
Result ==
  CASE Eof /\ scan.consumed_size = 0 -> [type |-> "EOF", lexeme |-> << >>]
    [] ~Eof /\ scan.overflow -> [type |-> "TOO_BIG", lexeme |-> scan.store]
    [] OTHER -> [type |-> StateType(Stored), lexeme |-> Stored]

(* What ni_lexer_peek returns is the type only. *)
OnlyType(type) == [type |-> type, lexeme |-> << >>]

(* ni_get_next_token returns to ni_lexer_advance, which discards the token, *)
(* or to ni_lexer_peek, which caches it.  Peeking returns the type, copying *)
(* and reading a copy of the token; reading goes on to advance.             *)
Finish ==
  /\ pc = "token" /\ Done
  /\ nul' = NulPlace
  /\ IF call = "advance"
     THEN UNCHANGED << has_cache, cache, buffer, returned >>
     ELSE /\ has_cache' = (call # "read")
          /\ cache' = Result.type
          /\ buffer' = Result.lexeme
          /\ returned' = IF call = "peek" THEN OnlyType(Result.type) ELSE Result
  /\ call' = "none" /\ pc' = "idle" /\ scan' = Fresh
  /\ UNCHANGED << input, cursor, start >>

-----------------------------------------------------------------------------
(* The client's calls: without a token in the cache the scanner runs first. *)
Starts(function) ==
  /\ ~has_cache
  /\ call' = function /\ pc' = "blank" /\ start' = cursor
  /\ UNCHANGED << input, cursor, has_cache, cache, buffer, scan, nul,
                  returned >>

Cached == [type |-> cache, lexeme |-> buffer]

(* ni_lexer_peek *)
Peek ==
  /\ call = "none"
  /\ \/ Starts("peek")
     \/ /\ has_cache
        /\ returned' = OnlyType(cache)
        /\ UNCHANGED << input, cursor, has_cache, cache, buffer, call, pc, scan, nul,
                       start >>

(* ni_lexer_copy *)
Copy ==
  /\ call = "none"
  /\ \/ Starts("copy")
     \/ /\ has_cache
        /\ returned' = Cached
        /\ UNCHANGED << input, cursor, has_cache, cache, buffer, call, pc, scan, nul,
                       start >>

(* Slip: reading a token that is in the cache leaves it there. *)
ReadKeeping ==
  /\ call = "none"
  /\ \/ Starts("read")
     \/ /\ has_cache
        /\ returned' = Cached
        /\ UNCHANGED << input, cursor, has_cache, cache, buffer, call, pc, scan, nul,
                       start >>

(* ni_lexer_read *)
Read ==
  /\ call = "none"
  /\ \/ Starts("read")
     \/ /\ has_cache
        /\ returned' = Cached
        /\ has_cache' = FALSE
        /\ UNCHANGED << input, cursor, cache, buffer, call, pc, scan, nul,
                       start >>

(* ni_lexer_advance *)
Advance ==
  /\ call = "none"
  /\ \/ Starts("advance")
     \/ /\ has_cache
        /\ has_cache' = FALSE
        /\ UNCHANGED << input, cursor, cache, buffer, call, pc, scan, nul, returned,
                       start >>

Scanner == Ignore \/ Consume \/ Finish

Next == Peek \/ Copy \/ Read \/ Advance \/ Scanner

(* A call goes on until it returns; the client need not make another. *)
Spec == Init /\ [][Next]_vars /\ WF_vars(Scanner)

-----------------------------------------------------------------------------
(* What the lexer keeps, with the exact ranges: up to one character more    *)
(* than the buffer holds is consumed, and the NUL may go behind them.       *)
TypeOK ==
  /\ input \in Inputs /\ cursor \in 0 .. Len(input)
  /\ has_cache \in BOOLEAN /\ cache \in Types
  /\ buffer \in Seq(Chars) /\ Len(buffer) <= Capacity
  /\ call \in { "none", "peek", "copy", "read", "advance" }
  /\ pc \in { "idle", "blank", "comment", "token" }
  /\ pc = "idle" <=> call = "none"
  /\ call # "none" => ~has_cache
  /\ scan.state \in States
  /\ Len(scan.store) <= Capacity
  /\ scan.consumed_size \in 0 .. Capacity + 1
  /\ nul \in 0 .. Capacity + 1
  /\ returned.type \in Types
  /\ start \in 0 .. cursor

(* No write of the scanner is outside its buffer, as lexer.c:7 and :13 and  *)
(* the callers in the tests give it one place for the NUL.  The code breaks *)
(* this: a token of Capacity + 1 characters with nothing behind it.         *)
NulInBuffer == nul <= Capacity

(* How far that goes: the NUL is behind the buffer by one place, only where *)
(* the whole text has been read, and the text is longer than the buffer.    *)
OverrunOnlyAtEnd ==
  nul > Capacity => nul = Capacity + 1 /\ Eof /\ Len(input) > Capacity

(* Whatever the client calls, peeking, copying, reading and advancing in    *)
(* any mix, it gets the tokens the grammar says, once each and in order,    *)
(* and looking at a token does not take it.  A token in the cache, or one   *)
(* the scanner is in, has not been taken.                                   *)
Grammar == INSTANCE TokenGrammar
  WITH text <- input,
       at   <- IF has_cache \/ call # "none" THEN start ELSE cursor,
       out  <- returned

ImplementsTokenGrammar == Grammar!TokenSpec

(* What is about to be returned has the type that the description of the    *)
(* lexer gives it, but for registers, minus signs before no digit, tokens   *)
(* of one character more than the buffer at the end of the input, and texts *)
(* as long as the buffer that a newline breaks: these have another.         *)
DocumentedUnlessDeparts ==
  pc = "token" /\ Done =>
    (Result.type = Grammar!DocumentedType(start) <=> ~Grammar!Departs(start))

(* Every call returns: no text, comment or blank at the end of the input    *)
(* keeps the loops of the scanner going.                                    *)
CallsReturn == call # "none" ~> call = "none"

(* A client that goes on reading gets to the end of the input, as the loops *)
(* of the assembler need: every token but EOF stands for some character.    *)
ReadersReachTheEnd == []<><<Read>>_vars => <>(returned.type = "EOF")
=============================================================================
