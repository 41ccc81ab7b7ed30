------------------------------ MODULE Assembler ------------------------------
(***************************************************************************)
(* The assembler of the third experiment: ni_asm_read_from_istream and     *)
(* what it calls (src/asm/assembler.c), the functions that read one thing  *)
(* each (src/asm/reader.c) and the labels (src/asm/label-manager.c).  The  *)
(* tokens are chosen when they are looked at: any text is read.            *)
(*                                                                         *)
(* head is the keyword or opcode that was read last, todo what must follow *)
(* it, args and label what has followed.  The first problem ends it all.   *)
(* The contents of texts and of real numbers are left out.                 *)
(***************************************************************************)
EXTENDS Integers, Sequences, FiniteSets, AssemblyFormats

CONSTANTS
  Names,            (* label names as they are written                     *)
  Fold,             (* Fold[n] is the name n without its case              *)
  NoLabel,          (* NULL                                                *)
  Literals,         (* the decimal integers of a text                      *)
  Max8, Max16,      (* UINT8_MAX, UINT16_MAX                               *)
  Word,             (* 2^32                                                *)
  Opcodes,          (* the opcodes of a text                               *)
  ConstantKinds,    (* the kinds of its constants                          *)
  MaxItems          (* bound: constants, instructions, label definitions   *)

Undefined == Word - 1

(* More labels than a uint16_t can number would share their numbers (a     *)
(* FIXME of ni_label_manager_get); with more instructions than an int32_t  *)
(* can number offsets would wrap.                                          *)
ASSUME AssemblerAssumption ==
  /\ Max8 \in Nat \ {0} /\ Max16 \in Nat /\ Max8 <= Max16
  /\ Word \in Nat /\ Word % 2 = 0 /\ Max16 < Word \div 2
  /\ Literals \subseteq Int
  /\ NoLabel \notin Names
  /\ Fold \in [Names -> STRING]
  /\ \A S \in SUBSET Names :
       (\A a, b \in S : Fold[a] = Fold[b] => a = b) => Cardinality(S) <= Max16
  /\ Opcodes \subseteq DOMAIN InstructionOperands
  /\ ConstantKinds \subseteq DOMAIN ConstantOperands
  /\ MaxItems \in Nat /\ MaxItems < Word \div 2

VARIABLES
  phase,       (* what ni_asm_read_from_istream does                       *)
  head, todo, args, label,
  program,     (* the header fields of the NProgram                        *)
  labels,      (* the pool of the label manager: names and definitions     *)
  constants,   (* NConstantPool: kinds, arguments, labels                  *)
  found,       (* num_constants_found                                      *)
  code,        (* NCodePool, and how often argument_label was freed        *)
  error,       (* the type of the NError, and of the errors inside it      *)
  result,      (* what the call returned, or "none"                        *)
  istream,     (* "open", or "freed" by the call                           *)
  begun,       (* history: the constants and instructions begun            *)
  defined,     (* history: the label definitions read so far               *)
  used         (* history: the names the constants used                    *)

vars == << phase, head, todo, args, label, program, labels, constants, found,
           code, error, result, istream, begun, defined, used >>

None == "none"

Idle == head' = None /\ todo' = << >> /\ args' = << >> /\ label' = NoLabel

Fresh == [version |-> << 0, 0, 0 >>, entry_point |-> 0, globals_count |-> 0]

Init ==
  /\ phase = "idle"
  /\ head = None /\ todo = << >> /\ args = << >> /\ label = NoLabel
  /\ program = Fresh
  /\ labels = << >> /\ constants = << >> /\ found = 0 /\ code = << >>
  /\ error \in { << >>, << "IOError" >> }
  /\ result = "none" /\ istream = "open"
  /\ begun = 0 /\ defined = << >> /\ used = << >>

-----------------------------------------------------------------------------
(* The label manager.  Numbers count from 1. *)

(* Slip: strcmp. *)
SameExactly(name, other) == name = other

(* strcasecmp *)
Same(name, other) == Fold[name] = Fold[other]

Places(pool, name) == { i \in 1 .. Len(pool) : Same(pool[i].name, name) }

(* Slip: the index in the array. *)
GetIndex(pool, name) ==
  IF Places(pool, name) = { }
  THEN [pool |-> Append(pool, [name |-> name, definition |-> Undefined]),
        id   |-> Len(pool)]
  ELSE [pool |-> pool,
        id   |-> (CHOOSE i \in Places(pool, name) :
                    \A j \in Places(pool, name) : i <= j) - 1]

(* ni_label_manager_get: the pool after it, and the number. *)
Get(pool, name) ==
  IF Places(pool, name) = { }
  THEN [pool |-> Append(pool, [name |-> name, definition |-> Undefined]),
        id   |-> (Len(pool) + 1) % (Max16 + 1)]
  ELSE [pool |-> pool,
        id   |-> (CHOOSE i \in Places(pool, name) :
                    \A j \in Places(pool, name) : i <= j) % (Max16 + 1)]

(* ni_label_manager_define: a definition after another takes its place. *)
Define(pool, name, definition) ==
  LET got == Get(pool, name)
  IN  [got.pool EXCEPT ![got.id].definition = definition]

(* What an int32_t keeps of a number. *)
Int32(n) ==
  IF n % Word < Word \div 2 THEN n % Word ELSE (n % Word) - Word

(* update_instruction_labels and update_constant_labels *)
WithDefinitions(instructions) ==
  [i \in 1 .. Len(instructions) |->
     IF instructions[i].label = NoLabel THEN instructions[i]
     ELSE LET definition == labels[instructions[i].label_id].definition
          IN  [instructions[i] EXCEPT !.definition = definition,
                                      !.offset = Int32(i - 1 - definition)]]

WithPlaces(descriptors) ==
  [i \in 1 .. Len(descriptors) |->
     IF descriptors[i].label_id = 0 THEN descriptors[i]
     ELSE [descriptors[i] EXCEPT
             !.definition = labels[descriptors[i].label_id].definition]]
-----------------------------------------------------------------------------
(* The ends of ni_asm_read_from_istream. *)

(* The label cleanup, with the lexer: the strings of the pools are freed,   *)
(* and the stream.                                                          *)
CleanUp(problem) ==
  /\ error' = problem
  /\ code' = [i \in 1 .. Len(code) |->
                IF code[i].label = NoLabel THEN code[i]
                ELSE [code[i] EXCEPT !.freed = @ + 1]]
  /\ result' = "NULL" /\ istream' = "freed" /\ phase' = "returned"
  /\ UNCHANGED << labels, constants, found >>

(* The program is returned, whatever the error is. *)
Return(problem) ==
  /\ error' = problem
  /\ code' = WithDefinitions(code)
  /\ constants' = WithPlaces(constants)
  /\ result' = "program" /\ phase' = "returned"
  /\ UNCHANGED << labels, found, istream >>

(* Slip: the loop over the code segment looks at the error no more; the     *)
(* next definition of a label resets it.                                    *)
FailGoingOn(problem) ==
  /\ \/ /\ phase = "constants"
        /\ CleanUp(<< "InvalidConstantSyntax", problem >>)
     \/ /\ phase = "code"
        /\ error' = << problem >>
        /\ UNCHANGED << phase, labels, constants, found, code, result, istream >>
     \/ /\ phase \notin { "constants", "code" }
        /\ CleanUp(<< problem >>)
  /\ Idle
  /\ UNCHANGED << program, begun, defined, used >>

(* Slip: a problem in the code cleans up as well. *)
FailCleaning(problem) ==
  /\ CleanUp(CASE phase = "constants" -> << "InvalidConstantSyntax", problem >>
               [] phase = "code" -> << "InvalidCodeSyntax", problem >>
               [] OTHER -> << problem >>)
  /\ Idle
  /\ UNCHANGED << program, begun, defined, used >>

(* A problem in an item, where it leads from the function that reads it. *)
Fail(problem) ==
  /\ \/ /\ phase = "constants"
        /\ CleanUp(<< "InvalidConstantSyntax", problem >>)
     \/ /\ phase = "code"
        /\ Return(<< "InvalidCodeSyntax", problem >>)
     \/ /\ phase \notin { "constants", "code" }
        /\ CleanUp(<< problem >>)
  /\ Idle
  /\ UNCHANGED << program, begun, defined, used >>

(* A call with any NError; construct_label_manager resets it.  There may be *)
(* no memory for the first program, then for the lexer or the second.       *)
Call ==
  /\ phase \in { "idle", "returned" }
  /\ Idle
  /\ program' = Fresh
  /\ labels' = << >> /\ constants' = << >> /\ found' = 0 /\ code' = << >>
  /\ begun' = 0 /\ defined' = << >> /\ used' = << >>
  /\ \/ /\ phase' = "version" /\ error' = << >>
        /\ result' = "none" /\ istream' = "open"
     \/ /\ phase' = "returned" /\ error' = << "BadAllocation" >>
        /\ result' = "NULL" /\ istream' \in { "open", "freed" }

-----------------------------------------------------------------------------
(* One token after a keyword or an opcode. *)

InRange(kind, value) ==
  CASE kind \in { "u8", "reg8" } -> value \in 0 .. Max8
    [] kind \in { "u16", "reg16" } -> value \in 0 .. Max16
    [] kind = "bool" -> value \in 0 .. 1
    [] OTHER -> TRUE

RangeError(kind) ==
  IF kind \in { "u8", "u16" } THEN "NumberOutOfBounds" ELSE "RegisterOutOfRange"

(* consume_label: a copy of the name, or NULL if there is no memory for it, *)
(* which nobody looks at.                                                   *)
ConsumeLabel ==
  /\ todo # << >> /\ Head(todo) = "label"
  /\ label' \in Names \cup { NoLabel }
  /\ todo' = Tail(todo)
  /\ UNCHANGED << phase, head, args, program, labels, constants, found, code,
                  error, result, istream, begun, defined, used >>

(* consume_string and consume_double *)
ConsumeText ==
  /\ todo # << >> /\ Head(todo) \in { "string", "double" }
  /\ todo' = Tail(todo)
  /\ UNCHANGED << phase, head, args, label, program, labels, constants, found,
                  code, error, result, istream, begun, defined, used >>

(* consume_dec_int, consume_dec_int_u8, consume_dec_int_u16, parse_register *)
ConsumeNumber ==
  \E literal \in Literals :
    /\ todo # << >> /\ Head(todo) \notin { "label", "string", "double" }
    /\ IF InRange(Head(todo), Int32(literal))
       THEN /\ args' = Append(args, Int32(literal))
            /\ todo' = Tail(todo)
            /\ UNCHANGED << phase, head, label, program, labels, constants,
                            found, code, error, result, istream, begun,
                            defined, used >>
       ELSE Fail(RangeError(Head(todo)))

(* expect_token_type finds the end of the text, or another token. *)
ConsumeWrong ==
  \E problem \in { "EndOfFile", "UnexpectedToken" } :
    todo # << >> /\ Fail(problem)

(* A token of the right type may still be no number or text: a minus sign   *)
(* alone, a number out of range, a lexeme that was cut.  Then an assertion  *)
(* of parse_dec_integer, parse_string or consume_double fails.  The label   *)
(* manager does not survive a procedure without a name.                     *)
Abort ==
  /\ \/ todo # << >> /\ Head(todo) # "label"
     \/ head = "procedure" /\ todo = << >> /\ label = NoLabel
  /\ phase' = "aborted"
  /\ Idle
  /\ UNCHANGED << program, labels, constants, found, code, error, result,
                  istream, begun, defined, used >>

-----------------------------------------------------------------------------
(* The header: ni_read_version, ni_read_entry_point, ni_read_globals_count. *)
HeaderPhases == DOMAIN HeaderOperands

BeginHeaderItem ==
  /\ phase \in HeaderPhases /\ head = None
  /\ \/ /\ head' = phase /\ todo' = HeaderOperands[phase]
        /\ UNCHANGED << phase, args, label, program, labels, constants, found,
                        code, error, result, istream, begun, defined, used >>
     \/ \E problem \in { "EndOfFile", "UnexpectedToken" } : Fail(problem)

(* set_version, set_entry_point, set_globals_count *)
SetHeaderItem ==
  /\ phase \in HeaderPhases /\ head # None /\ todo = << >>
  /\ program' = [program EXCEPT ![phase] = IF phase = "version" THEN args
                                           ELSE args[1]]
  /\ phase' = CASE phase = "version" -> "entry_point"
                [] phase = "entry_point" -> "globals_count"
                [] OTHER -> "constants_keyword"
  /\ Idle
  /\ UNCHANGED << labels, constants, found, code, error, result, istream, begun,
                  defined, used >>

(* The beginning of consume_constant_list. *)
ConstantsKeyword ==
  /\ phase = "constants_keyword"
  /\ \/ /\ phase' = "constants"
        /\ UNCHANGED << labels, constants, found, code, error, result, istream >>
     \/ CleanUp(<< "ConstantsNotFound" >>)
  /\ UNCHANGED << head, todo, args, label, program, begun, defined, used >>

Items == Len(constants) + Len(code) + Len(defined)

(* consume_constant: ni_read_*_constant takes the keyword. *)
BeginConstant ==
  /\ phase = "constants" /\ head = None
  /\ Items < MaxItems
  /\ \E kind \in ConstantKinds :
       head' = kind /\ todo' = ConstantOperands[kind]
  /\ begun' = begun + 1
  /\ UNCHANGED << phase, args, label, program, labels, constants, found, code,
                  error, result, istream, defined, used >>

(* add_*_constant, and get_label for a procedure *)
AddConstant ==
  /\ phase = "constants" /\ head # None /\ todo = << >>
  /\ head = "procedure" => label # NoLabel
  /\ IF head = "procedure"
     THEN LET got == Get(labels, label)
          IN  /\ labels' = got.pool
              /\ constants' = Append(constants,
                   [kind |-> head, args |-> args, label_id |-> got.id,
                    definition |-> Undefined])
     ELSE /\ constants' = Append(constants,
               [kind |-> head, args |-> args, label_id |-> 0, definition |-> 0])
          /\ UNCHANGED labels
  /\ found' = (found + 1) % (Max16 + 1)
  /\ used' = Append(used, label)
  /\ Idle
  /\ UNCHANGED << phase, program, code, error, result, istream, begun, defined >>

(* The end of consume_constant_list: the next token is another. *)
EndConstants ==
  /\ phase = "constants" /\ head = None
  /\ \/ found = 0 /\ CleanUp(<< "EmptyConstantsList" >>)
     \/ /\ found # 0 /\ found <= program.entry_point
        /\ CleanUp(<< "EntryPointOutOfBounds" >>)
     \/ /\ found > program.entry_point
        /\ phase' = "code_keyword"
        /\ UNCHANGED << labels, constants, found, code, error, result, istream >>
  /\ UNCHANGED << head, todo, args, label, program, begun, defined, used >>

(* The beginning of consume_code_segment: without the keyword the program   *)
(* that is returned has no code.                                            *)
CodeKeyword ==
  /\ phase = "code_keyword"
  /\ \/ /\ phase' = "code"
        /\ UNCHANGED << labels, constants, found, code, error, result, istream >>
     \/ Return(<< "CodeNotFound" >>)
  /\ UNCHANGED << head, todo, args, label, program, begun, defined, used >>

(* consume_code_element with a label definition: define_label. *)
DefineLabel ==
  \E name \in Names :
    /\ phase = "code" /\ head = None
    /\ Items < MaxItems
    /\ labels' = Define(labels, name, Len(code))
    /\ error' = << >>
    /\ defined' = Append(defined, [name |-> name, place |-> Len(code)])
    /\ UNCHANGED << phase, head, todo, args, label, program, constants, found,
                    code, result, istream, begun, used >>

(* consume_code_element with an opcode: ni_read_instruction takes it. *)
BeginInstruction ==
  /\ phase = "code" /\ head = None
  /\ Items < MaxItems
  /\ \E opcode \in Opcodes :
       head' = opcode /\ todo' = InstructionOperands[opcode]
  /\ begun' = begun + 1
  /\ UNCHANGED << phase, args, label, program, labels, constants, found, code,
                  error, result, istream, defined, used >>

(* add_instruction: the label is numbered, the pool gets a copy of the      *)
(* instruction, and ni_asm_instruction_destruct frees the name of both.     *)
AddInstruction ==
  /\ phase = "code" /\ head # None /\ todo = << >>
  /\ LET got == IF label = NoLabel THEN [pool |-> labels, id |-> 0]
                ELSE Get(labels, label)
     IN  /\ labels' = got.pool
         /\ code' = Append(code,
              [opcode |-> head, args |-> args, label |-> label,
               label_id |-> got.id, definition |-> 0, offset |-> 0,
               freed |-> IF label = NoLabel THEN 0 ELSE 1])
  /\ Idle
  /\ UNCHANGED << phase, program, constants, found, error, result, istream,
                  begun, defined, used >>

(* ni_label_manager_get has no memory for the name of a new label that is   *)
(* used or defined.                                                         *)
LabelWithoutMemory ==
  /\ \/ phase \in { "constants", "code" } /\ head # None /\ todo = << >>
        /\ label # NoLabel /\ Places(labels, label) = { }
     \/ phase = "code" /\ head = None
        /\ \E name \in Names : Places(labels, name) = { }
  /\ Fail("BadAllocation")

(* Any other token: consume_code_element. *)
WrongElement == phase = "code" /\ head = None /\ Fail("UnexpectedToken")

(* The text ends. *)
EndCode ==
  /\ phase = "code" /\ head = None
  /\ Return(error)
  /\ UNCHANGED << head, todo, args, label, program, begun, defined, used >>

Next ==
  \/ Call
  \/ ConsumeLabel \/ ConsumeText \/ ConsumeNumber \/ ConsumeWrong \/ Abort
  \/ BeginHeaderItem \/ SetHeaderItem
  \/ ConstantsKeyword \/ BeginConstant \/ AddConstant \/ EndConstants
  \/ CodeKeyword \/ DefineLabel \/ BeginInstruction \/ AddInstruction
  \/ LabelWithoutMemory \/ WrongElement \/ EndCode

Spec == Init /\ [][Next]_vars

-----------------------------------------------------------------------------
Problems ==
  { "EndOfFile", "UnexpectedToken", "NumberOutOfBounds", "RegisterOutOfRange",
    "BadAllocation" }

NErrors ==
  { << >>, << "IOError" >>, << "BadAllocation" >>, << "ConstantsNotFound" >>,
    << "EmptyConstantsList" >>, << "EntryPointOutOfBounds" >>,
    << "CodeNotFound" >> }
    \cup { << problem >> : problem \in Problems }
    \cup { "InvalidConstantSyntax", "InvalidCodeSyntax" } \X Problems

Phases ==
  HeaderPhases \cup { "idle", "constants_keyword", "constants", "code_keyword",
                      "code", "returned", "aborted" }

Numbers == Int32(0 - Word \div 2) .. Int32(Word \div 2 - 1)

(* The number an instruction or a procedure has for its label is one of the *)
(* label manager's: never 0, never of a label still to come.                *)
TypeOK ==
  /\ phase \in Phases
  /\ args \in Seq(Numbers) /\ label \in Names \cup { NoLabel }
  /\ program.entry_point \in 0 .. Max16 /\ program.globals_count \in 0 .. Max16
  /\ \A i \in 1 .. Len(labels) :
       labels[i].name \in Names /\ labels[i].definition \in 0 .. Undefined
  /\ \A i \in 1 .. Len(constants) :
       IF constants[i].kind = "procedure"
       THEN constants[i].label_id \in 1 .. Len(labels)
       ELSE constants[i].label_id = 0
  /\ found \in 0 .. Max16
  /\ \A i \in 1 .. Len(code) :
       IF code[i].label # NoLabel THEN code[i].label_id \in 1 .. Len(labels)
       ELSE code[i].label_id = 0
  /\ error \in NErrors
  /\ result \in { "none", "NULL", "program" }
  /\ istream \in { "open", "freed" }

(* What a name means in the whole text: its last definition, whatever the   *)
(* case and wherever it is used.                                            *)
Definitions(name) ==
  { i \in 1 .. Len(defined) : Fold[defined[i].name] = Fold[name] }

Meaning(name) ==
  IF Definitions(name) = { } THEN Undefined
  ELSE defined[CHOOSE i \in Definitions(name) :
                 \A j \in Definitions(name) : j <= i].place

(* In every program returned, also with an error, each use of a label, made *)
(* before or after any definition, has what the label means in the text     *)
(* read so far.  An instruction goes as far back as that is before it; with *)
(* a label that was never defined, one further than any label is.           *)
LabelsResolve ==
  result = "program" =>
    /\ \A i \in 1 .. Len(code) :
         code[i].label # NoLabel =>
           /\ code[i].definition = Meaning(code[i].label)
           /\ code[i].offset = IF code[i].definition = Undefined THEN i
                               ELSE i - 1 - code[i].definition
    /\ \A i \in 1 .. Len(constants) :
         used[i] # NoLabel => constants[i].definition = Meaning(used[i])

(* A program returned without an error has everything that was read, and    *)
(* its entry point is one of its constants, also when the count of them has *)
(* gone round.  (With an error it may be partial, ni_asm_read_from_istream  *)
(* does not look.)                                                          *)
AcceptedIsWhole ==
  result = "program" /\ error = << >> =>
    /\ begun = Len(constants) + Len(code)
    /\ program.entry_point < Len(constants)

(* The name of a label, which the pool shares with an instruction that is   *)
(* gone, is freed once: no path from the code segment leads to the cleanup. *)
LabelsFreedOnce == \A i \in 1 .. Len(code) : code[i].freed <= 1
=============================================================================
