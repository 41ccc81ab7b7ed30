----------------------------- MODULE CallFrames -----------------------------
(***************************************************************************)
(* The evaluator of the second experiment (evaluator.c): procedures called *)
(* on one array of words, where each frame is six bookkeeping words, the   *)
(* locals and the arguments.  Modules, procedures and primitives are those *)
(* of module.c, objects/procedures.c and objects/primitives.c.             *)
(*                                                                         *)
(* A host sets modules up and runs them, again and again; the code of a    *)
(* module does not change.  The code is well formed: operands name slots   *)
(* of the frame and registers of the module, jumps stay inside the code,   *)
(* and calls pass a procedure the arguments it uses.                       *)
(***************************************************************************)
EXTENDS Integers, Sequences, FiniteSets, InstructionWords

CONSTANTS
  Modules, Procedures, Primitives,
  Data,                     (* values that are none of these:              *)
  Bundles, Symbols,         (* objects, symbols,                           *)
  N_FALSE, N_UNDEFINED,     (* two objects more,                           *)
  NULL,                     (* and what is in the place of one when there  *)
                            (* was no memory                               *)
  GARBAGE,                  (* what malloc leaves in a word                *)
  NO_MODULE,                (* the NULL module                             *)
  ModuleOf, NumLocals, EntryPoint,  (* of each procedure                   *)
  InitialGlobals,           (* the registers of each module                *)
  EntryRegister,            (* the entry point of a module                 *)
  Programs,                 (* the code of all the modules, one of these,  *)
                            (* as a host writes it: a call together with   *)
                            (* the arguments that the words after it name  *)
  StackSize                 (* N_STACK_SIZE                                *)

Values == Procedures \cup Primitives \cup Data

ASSUME FramesAssumption ==
  /\ { N_FALSE, N_UNDEFINED, NULL } \cup Bundles \cup Symbols \subseteq Data
  /\ { N_FALSE, N_UNDEFINED, NULL } \cap (Bundles \cup Symbols) = { }
  /\ GARBAGE \notin Values
  /\ (Procedures \cup Primitives) \cap Data = { }
  /\ NO_MODULE \notin Modules
  /\ DOMAIN InitialGlobals = Modules
  /\ \A m \in Modules :
       /\ InitialGlobals[m] \in [DOMAIN InitialGlobals[m] -> Values]
       /\ EntryRegister[m] \in DOMAIN InitialGlobals[m]
  /\ \A program \in Programs : \A m \in Modules : DOMAIN program[m] \subseteq Nat
  /\ ModuleOf \in [Procedures -> Modules]
  /\ NumLocals \in [Procedures -> 0 .. 255]
  /\ EntryPoint \in [Procedures -> Nat]
  /\ StackSize \in Nat \ { 0 }

CALLER_SLOT        == 0
CODE_POINTER_SLOT  == 1
STACK_POINTER_SLOT == 2
RETURN_SLOT        == 3
NUM_LOCALS_SLOT    == 4
NUM_ARGS_SLOT      == 5
STACK_SLOTS        == 6

VARIABLES
  code,               (* the code of each module                           *)
  registers,          (* the registers of each module                      *)
  stack,              (* the words of the stack                            *)
  current_module, current_procedure, code_pointer, stack_pointer,
  mode,               (* "idle" in the host, "running", or "aborted"       *)
  error,              (* the code in the NError of the run                 *)
  watched,            (* the run was given an NError                       *)
  result              (* what the last run returned                        *)

vars == << code, registers, stack, current_module, current_procedure,
           code_pointer, stack_pointer, mode, error, watched, result >>

(* "garbage" is what an NError nobody set holds when it is not N_E_OK. *)
Errors == { "OK", "UNINITIALIZED_EVALUATOR", "UNKNOWN_OPCODE", "garbage" }

Words == Values \cup { GARBAGE } \cup Nat

Init ==
  /\ code \in Programs
  /\ registers = InitialGlobals
  /\ stack = [ i \in 0 .. StackSize - 1 |-> GARBAGE ]
  /\ current_module = NO_MODULE
  /\ current_procedure = N_UNDEFINED
  /\ code_pointer = 0
  /\ stack_pointer = 0
  /\ mode = "idle"
  /\ error = "OK"
  /\ watched = TRUE
  /\ result = N_UNDEFINED

FrameWord(slot) == stack[stack_pointer + slot]

LocalIndex(i) == stack_pointer + STACK_SLOTS + i

GetLocal(i) == stack[LocalIndex(i)]

SetLocal(i, value) == stack' = [stack EXCEPT ![LocalIndex(i)] = value]

(* The words are stored by n_module_set_instruction. *)
Fetch(place) == Encode(code[current_module][place])

Instruction == Decode(Fetch(code_pointer))

-----------------------------------------------------------------------------
(* The host.                                                               *)

Setup(module) ==
  /\ mode = "idle"
  /\ current_module' = module
  /\ UNCHANGED << code, registers, stack, current_procedure, code_pointer,
                  stack_pointer, mode, error, watched, result >>

Entry == registers[current_module][EntryRegister[current_module]]

(* n_evaluator_run of no module, of a module whose entry is a primitive, and *)
(* of one whose entry is any other value.                                    *)
RunWithoutProcedure(given) ==
  /\ mode = "idle"
  /\ \/ /\ current_module = NO_MODULE
        /\ error' = "UNINITIALIZED_EVALUATOR"
        /\ result' = N_UNDEFINED
     \/ /\ current_module # NO_MODULE
        /\ Entry \notin Procedures
        /\ error' = "OK"
        /\ result' \in IF Entry \in Primitives THEN Data ELSE {Entry}
  /\ watched' = given
  /\ UNCHANGED << code, registers, stack, current_module, current_procedure,
                  code_pointer, stack_pointer, mode >>

(* _run_procedure: the frame goes where the stack pointer is, and its code  *)
(* pointer, stack pointer and return words are not written.  Without an     *)
(* NError of the caller one is used whose code was never set.               *)
RunProcedure(given) ==
  /\ mode = "idle"
  /\ current_module # NO_MODULE
  /\ Entry \in Procedures
  /\ stack_pointer + STACK_SLOTS + NumLocals[Entry] <= StackSize
  /\ mode' = "running"
  /\ watched' = given
  /\ error' \in IF given THEN { "OK" } ELSE { "OK", "garbage" }
  /\ current_module' = ModuleOf[Entry]
  /\ current_procedure' = Entry
  /\ code_pointer' = EntryPoint[Entry]
  /\ stack' = [stack EXCEPT
                 ![stack_pointer + CALLER_SLOT] = N_UNDEFINED,
                 ![stack_pointer + NUM_LOCALS_SLOT] = NumLocals[Entry],
                 ![stack_pointer + NUM_ARGS_SLOT] = 0]
  /\ UNCHANGED << code, registers, stack_pointer, result >>

-----------------------------------------------------------------------------
(* The instructions: each leaves the loop or goes on with it.              *)

(* The loop ends after an instruction that leaves an error, with no result. *)
GoOn ==
  /\ mode' = IF error' = "OK" THEN "running" ELSE "idle"
  /\ result' = IF error' = "OK" THEN result ELSE N_UNDEFINED

Proceed(place) ==
  /\ code_pointer' = place
  /\ UNCHANGED << current_module, current_procedure, stack_pointer, error >>
  /\ GoOn

(* One word for an argument, however many there are. *)
NextStackPointerUnpadded ==
  stack_pointer + FrameWord(NUM_LOCALS_SLOT) + STACK_SLOTS

(* A word for each argument, and still the one for the first. *)
NextStackPointerPastArguments ==
  stack_pointer + FrameWord(NUM_LOCALS_SLOT) + FrameWord(NUM_ARGS_SLOT) + STACK_SLOTS + 1

NextStackPointer ==
  stack_pointer + FrameWord(NUM_LOCALS_SLOT) + STACK_SLOTS + 1

BookkeepingOfMoved(callee, dest, nargs, skip_blocks) ==
  << current_procedure, code_pointer + skip_blocks + 1, NextStackPointer,
     dest, NumLocals[callee], nargs >>

(* The first words of the frame of a call, in the order of their slots. *)
Bookkeeping(callee, dest, nargs, skip_blocks) ==
  << current_procedure, code_pointer + skip_blocks + 1, stack_pointer,
     dest, NumLocals[callee], nargs >>

CallProcedure(callee, dest, args, skip_blocks) ==
  LET sp    == NextStackPointer
      words == Bookkeeping(callee, dest, Len(args), skip_blocks)
      first == sp + STACK_SLOTS + NumLocals[callee]
  IN  /\ first + Len(args) <= StackSize
      /\ stack' = [ i \in DOMAIN stack |->
                      IF i - sp \in 0 .. STACK_SLOTS - 1 THEN words[i - sp + 1]
                      ELSE IF i - first \in 0 .. Len(args) - 1 THEN args[i - first + 1]
                      ELSE stack[i] ]
      /\ stack_pointer' = sp
      /\ current_module' = ModuleOf[callee]
      /\ current_procedure' = callee
      /\ code_pointer' = EntryPoint[callee]
      /\ UNCHANGED error
      /\ GoOn

(* A failed assertion. *)
Abort ==
  /\ mode' = "aborted"
  /\ UNCHANGED << stack, current_module, current_procedure, code_pointer,
                  stack_pointer, error, result >>

(* What _op_call and _op_call_sva do with the callee they find: a value     *)
(* that cannot be called fails an assertion.                                *)
Invoke(callee, dest, args, skip_blocks) ==
  \/ callee \in Procedures /\ CallProcedure(callee, dest, args, skip_blocks)
  \/ /\ callee \in Primitives
     /\ \E value \in Data : SetLocal(dest, value)
     /\ Proceed(code_pointer + 1 + skip_blocks)
  \/ callee \notin Procedures \cup Primitives /\ Abort

OpCallSva ==
  /\ Instruction.op = "call_sva"
  /\ Invoke(GetLocal(Instruction.func), Instruction.dest,
            << GetLocal(Instruction.arg) >>, 0)
  /\ UNCHANGED registers

(* The words after the instruction name four arguments each, the first of  *)
(* them in the byte of the opcode.                                          *)
ArgumentReversed(i) ==
  GetLocal(Fetch(code_pointer + 1 + (i - 1) \div 4)[4 - ((i - 1) % 4)])

Argument(i) ==
  GetLocal(Fetch(code_pointer + 1 + (i - 1) \div 4)[1 + ((i - 1) % 4)])

OpCall ==
  LET nargs == Instruction.nargs
  IN  /\ Instruction.op = "call"
      /\ Invoke(GetLocal(Instruction.func), Instruction.dest,
                [ i \in 1 .. nargs |-> Argument(i) ],
                nargs \div 4 + (IF nargs % 4 > 0 THEN 1 ELSE 0))
      /\ UNCHANGED registers

PopStackFrameOnly ==
  /\ stack_pointer' = FrameWord(STACK_POINTER_SLOT)
  /\ code_pointer' = FrameWord(CODE_POINTER_SLOT)
  /\ current_procedure' = FrameWord(CALLER_SLOT)
  /\ UNCHANGED current_module

PopStackFrame ==
  /\ stack_pointer' = FrameWord(STACK_POINTER_SLOT)
  /\ code_pointer' = FrameWord(CODE_POINTER_SLOT)
  /\ current_procedure' = FrameWord(CALLER_SLOT)
  /\ current_module' = ModuleOf[FrameWord(CALLER_SLOT)]

DeliverBeforePop(output) == SetLocal(FrameWord(RETURN_SLOT), output)

(* The local the call named is one of the frame below. *)
Deliver(output) ==
  stack' = [stack EXCEPT
              ![FrameWord(STACK_POINTER_SLOT) + STACK_SLOTS + FrameWord(RETURN_SLOT)] =
                output]

(* A return from the frame without a caller ends the run and leaves the     *)
(* stack pointer there.                                                     *)
OpReturn ==
  /\ Instruction.op = "return"
  /\ UNCHANGED << registers, error >>
  /\ LET output == GetLocal(Instruction.source)
     IN  IF FrameWord(CALLER_SLOT) = N_UNDEFINED
         THEN /\ mode' = "idle"
              /\ result' = output
              /\ UNCHANGED << stack, current_module, current_procedure,
                              code_pointer, stack_pointer >>
         ELSE PopStackFrame /\ Deliver(output) /\ GoOn

OpGlobalRef ==
  /\ Instruction.op = "global_ref"
  /\ SetLocal(Instruction.dest, registers[current_module][Instruction.source])
  /\ Proceed(code_pointer + 1)
  /\ UNCHANGED registers

OpGlobalSet ==
  /\ Instruction.op = "global_set"
  /\ registers' = [registers EXCEPT
                     ![current_module][Instruction.dest] =
                       GetLocal(Instruction.source)]
  /\ Proceed(code_pointer + 1)
  /\ UNCHANGED stack

OpJump ==
  /\ Instruction.op = "jump"
  /\ Proceed(code_pointer + Instruction.offset)
  /\ UNCHANGED << stack, registers >>

OpJumpIf ==
  /\ Instruction.op = "jump_if"
  /\ Proceed(IF GetLocal(Instruction.cond) # N_FALSE
             THEN code_pointer + Instruction.offset
             ELSE code_pointer + 1)
  /\ UNCHANGED << stack, registers >>

OpJumpUnless ==
  /\ Instruction.op = "jump_unless"
  /\ Proceed(IF GetLocal(Instruction.cond) = N_FALSE
             THEN code_pointer + Instruction.offset
             ELSE code_pointer + 1)
  /\ UNCHANGED << stack, registers >>

(* The string in the code names a library, and there is only one. *)
OpLoad ==
  /\ Instruction.op = "load"
  /\ \E value \in Bundles \cup { N_UNDEFINED } : SetLocal(Instruction.dest, value)
  /\ Proceed(code_pointer + 1)
  /\ UNCHANGED registers

(* The error of a failed allocation is not taken. *)
OpNewBundle ==
  /\ Instruction.op = "new_bundle"
  /\ \E value \in Bundles \cup { NULL } : SetLocal(Instruction.dest, value)
  /\ Proceed(code_pointer + 1)
  /\ UNCHANGED registers

(* What bundles hold is in module Bundles: here they hold anything.  What is *)
(* no bundle or no symbol fails an assertion, NULL before it.                *)
HasBundle == GetLocal(Instruction.bundle) \in Bundles

HasSymbol == GetLocal(Instruction.symbol) \in Symbols

OpBundleGet ==
  /\ Instruction.op = "bundle_get"
  /\ \/ /\ HasBundle /\ HasSymbol
        /\ \E value \in Values : SetLocal(Instruction.dest, value)
        /\ Proceed(code_pointer + 1)
     \/ ~(HasBundle /\ HasSymbol) /\ Abort
  /\ UNCHANGED registers

OpBundleSet ==
  /\ Instruction.op = "bundle_set"
  /\ \/ HasBundle /\ HasSymbol /\ Proceed(code_pointer + 1) /\ UNCHANGED stack
     \/ ~(HasBundle /\ HasSymbol) /\ Abort
  /\ UNCHANGED registers

OpBundleClose ==
  /\ Instruction.op = "bundle_close"
  /\ \/ HasBundle /\ Proceed(code_pointer + 1) /\ UNCHANGED stack
     \/ ~HasBundle /\ Abort
  /\ UNCHANGED registers

(* The place stays; the run ends with no result. *)
UnknownOpcode ==
  /\ Instruction.op = "unknown"
  /\ error' = "UNKNOWN_OPCODE"
  /\ GoOn
  /\ UNCHANGED << registers, stack, current_module, current_procedure,
                  code_pointer, stack_pointer >>

Step ==
  /\ mode = "running"
  /\ \/ OpCallSva \/ OpCall \/ OpReturn
     \/ OpGlobalRef \/ OpGlobalSet
     \/ OpJump \/ OpJumpIf \/ OpJumpUnless
     \/ OpLoad \/ OpNewBundle
     \/ OpBundleGet \/ OpBundleSet \/ OpBundleClose
     \/ UnknownOpcode
  /\ UNCHANGED << code, watched >>

Next ==
  \/ \E module \in Modules : Setup(module)
  \/ \E given \in BOOLEAN : RunWithoutProcedure(given)
  \/ \E given \in BOOLEAN : RunProcedure(given)
  \/ Step

Spec == Init /\ [][Next]_vars
-----------------------------------------------------------------------------
(* The words of each kind stay where they belong: the pointer within the   *)
(* stack, and in the running frame the bookkeeping n_stack_get is cast from. *)
TypeOK ==
  /\ code \in Programs
  /\ \A m \in Modules : registers[m] \in [DOMAIN InitialGlobals[m] -> Values]
  /\ stack \in [0 .. StackSize - 1 -> Words]
  /\ current_module \in Modules \cup { NO_MODULE }
  /\ current_procedure \in Procedures \cup { N_UNDEFINED }
  /\ code_pointer \in Nat
  /\ stack_pointer \in DOMAIN stack
  /\ mode \in { "idle", "running", "aborted" }
  /\ error \in Errors
  /\ watched \in BOOLEAN
  /\ result \in Values
  /\ mode = "running" => /\ current_module = ModuleOf[current_procedure]
                         /\ FrameWord(NUM_LOCALS_SLOT) = NumLocals[current_procedure]
                         /\ FrameWord(CALLER_SLOT) \in Procedures \cup { N_UNDEFINED }

(* Where the frames start, the running one last: from the stack pointer     *)
(* down the saved stack pointers, to the frame that has no caller.          *)
FramesIn(words, top) ==
  LET below[s \in DOMAIN words] ==
        IF words[s + CALLER_SLOT] = N_UNDEFINED THEN << s >>
        ELSE IF words[s + STACK_POINTER_SLOT] \in 0 .. s - 1
        THEN Append(below[words[s + STACK_POINTER_SLOT]], s)
        ELSE << >>
  IN  below[top]

Frames == FramesIn(stack, stack_pointer)

FrameSize(s) == STACK_SLOTS + stack[s + NUM_LOCALS_SLOT] + stack[s + NUM_ARGS_SLOT]

(* The procedure of a waiting frame is the caller the next frame names. *)
ProcedureAt(i) ==
  IF i = Len(Frames) THEN current_procedure ELSE stack[Frames[i + 1] + CALLER_SLOT]

(* A frame read back as an activation; the frame a run starts with has no   *)
(* place to return to.                                                      *)
Record(i) ==
  LET s == Frames[i]
  IN  [ proc   |-> ProcedureAt(i),
        slots  |-> [ j \in 0 .. FrameSize(s) - STACK_SLOTS - 1 |->
                       stack[s + STACK_SLOTS + j] ],
        dest   |-> IF i = 1 THEN 0 ELSE stack[s + RETURN_SLOT],
        resume |-> IF i = 1 THEN 0 ELSE stack[s + CODE_POINTER_SLOT] ]

Records == IF mode = "idle" THEN << >> ELSE [ i \in DOMAIN Frames |-> Record(i) ]

-----------------------------------------------------------------------------
(* What the code has to be like, as the evaluator looks at none of it.     *)

Written == code[current_module][code_pointer]

(* A call as it is written, and a word with an opcode nobody knows.         *)
Calls == [ op : { "call" }, dest : Byte, func : Byte, nargs : Byte, args : Seq(Byte) ]
UnknownWords == [ op : { "unknown" }, opcode : 13 .. 255 ]

(* The arguments of the call are in the words after its place.              *)
Packed(words, place, call) ==
  /\ Len(call.args) = call.nargs
  /\ \A n \in 1 .. call.nargs :
       LET at == place + 1 + (n - 1) \div 4
       IN  /\ at \in DOMAIN words
           /\ words[at].op = "arguments"
           /\ words[at].args[1 + ((n - 1) % 4)] = call.args[n]

(* The word at the place was written by n_op_*, the words of its arguments  *)
(* with it, or has an opcode nobody knows.                                  *)
WellWritten(words, place) ==
  /\ place \in DOMAIN words
  /\ IF words[place].op = "call"
     THEN words[place] \in Calls /\ Packed(words, place, words[place])
     ELSE words[place] \in Instructions \cup UnknownWords

(* The slots of the running frame that an instruction names.                *)
SlotsNamed(i) ==
  CASE i.op = "call" -> { i.dest, i.func } \cup { i.args[n] : n \in DOMAIN i.args }
    [] i.op = "call_sva" -> { i.dest, i.func, i.arg }
    [] i.op \in { "global_set", "return" } -> { i.source }
    [] i.op \in { "global_ref", "load", "new_bundle" } -> { i.dest }
    [] i.op \in { "jump_if", "jump_unless" } -> { i.cond }
    [] i.op = "bundle_get" -> { i.dest, i.bundle, i.symbol }
    [] i.op = "bundle_set" -> { i.bundle, i.symbol, i.value }
    [] i.op = "bundle_close" -> { i.bundle }
    [] i.op \in { "jump", "unknown" } -> { }

(* The instruction to execute was written by n_op_*, names slots of the     *)
(* running frame and registers of the module, jumps to a place in the code, *)
(* and stores or returns no local that nobody wrote.                        *)
CodeFits ==
  LET i == Written
  IN  /\ WellWritten(code[current_module], code_pointer)
      /\ SlotsNamed(i) \subseteq 0 .. FrameSize(stack_pointer) - STACK_SLOTS - 1
      /\ i.op \in { "jump", "jump_if", "jump_unless" } =>
           code_pointer + i.offset \in DOMAIN code[current_module]
      /\ i.op = "global_ref" => i.source \in DOMAIN registers[current_module]
      /\ i.op = "global_set" => i.dest \in DOMAIN registers[current_module]
      /\ i.op \in { "global_set", "return" } => GetLocal(i.source) \in Values

(* Who calls a procedure was given at most one argument: one word is what   *)
(* the frame of a call leaves for them.                                     *)
CallerTakesOne ==
  Written.op \in { "call", "call_sva" } /\ GetLocal(Written.func) \in Procedures =>
    FrameWord(NUM_ARGS_SLOT) <= 1

(* The instances are of code like that: it is what the theorems assume.     *)
CodeWellFormed == mode = "running" => CodeFits /\ CallerTakesOne

(* A frame extends over its bookkeeping, its locals and the arguments it was *)
(* given, and the frame of a procedure it calls starts after all of that     *)
(* (the purpose of the NUM_ARGS word, set by _set_frame_num_args): otherwise *)
(* the call writes its bookkeeping over arguments of the caller.  It holds   *)
(* while procedures take at most one argument.                               *)
FramesDisjoint ==
  mode = "running" =>
    \A i \in 1 .. Len(Frames) - 1 : Frames[i] + FrameSize(Frames[i]) <= Frames[i + 1]

(* The stack that a run takes is what the procedures that wait need, however *)
(* often others were called and returned: nothing is left over between two   *)
(* frames, and _call_procedure, which never looks at the size of the stack,  *)
(* gets to a place that the depth of the calls alone decides.                *)
FramesAdjacent ==
  mode = "running" =>
    \A i \in 1 .. Len(Frames) - 1 :
      Frames[i + 1] = Frames[i] + STACK_SLOTS + NumLocals[ProcedureAt(i)] + 1

(* Whatever is called and returns during a run (_call_procedure and          *)
(* _pop_stack_frame), the frame the run began in stays at the bottom, where  *)
(* it was: a run that ends by returning ends with the stack pointer it began *)
(* with.                                                                     *)
RunKeepsItsBase ==
  [][ mode = "running" /\ mode' = "running" =>
        Frames # << >> /\ Frames' # << >> /\ Frames'[1] = Frames[1] ]_vars

(* The words of the stack, with the pointers saved in them, are a way to     *)
(* keep activations, and the words of the code to write instructions: what   *)
(* _step and its _op_ functions do with what they decode is what the         *)
(* abstract evaluator does with records and the instructions as they were    *)
(* written, so no call, return or error makes one activation see, lose or    *)
(* write another's locals, and no operand changes on its way.                *)
Activation == INSTANCE Activations
                WITH Fresh   <- Values,
                     globals <- registers,
                     records <- Records,
                     at      <- code_pointer,
                     aborted <- (mode = "aborted")

ImplementsActivations == Activation!ActSpec
=============================================================================
