---------------------------- MODULE Activations ----------------------------
(***************************************************************************)
(* What the evaluator of the second experiment promises the code it runs:  *)
(* procedures are activated one inside the other, each activation has its  *)
(* own locals and arguments, nobody but the activation itself writes them  *)
(* (a return writes the one local the call named), and a return resumes    *)
(* the caller, in its own module, after the call.                          *)
(*                                                                         *)
(* An activation is a record: the procedure, its slots (locals first, then *)
(* arguments), and where its result goes: the slot and the place in the    *)
(* caller.  There is no stack of words and no stack pointer here.          *)
(***************************************************************************)
EXTENDS Integers, Sequences

CONSTANTS
  Procedures, Primitives,   (* what can be called                          *)
  Bundles, Symbols,         (* what the operations on bundles work on      *)
  Fresh,                    (* what a primitive or an object operation may *)
                            (* come back with                              *)
  N_FALSE, N_UNDEFINED,     (* values                                      *)
  ModuleOf, NumLocals, EntryPoint   (* of each procedure                   *)

VARIABLES
  code,       (* the instructions of each module                           *)
  records,    (* the activations, the running one last                     *)
  globals,    (* the registers of each module                              *)
  at,         (* the place of the instruction to execute                   *)
  result,     (* what the last run returned                                *)
  watched,    (* the caller of the run takes errors                        *)
  aborted     (* an assertion has failed                                   *)

actVars == << code, records, globals, at, result, watched, aborted >>

Top == records[Len(records)]

Instruction == code[ModuleOf[Top.proc]][at]

Slot(i) == Top.slots[i]

(* The words that follow a call instruction with this many arguments. *)
ArgumentWords(n) == (n + 3) \div 4

NextPlace ==
  IF Instruction.op = "call"
  THEN at + 1 + ArgumentWords(Len(Instruction.args))
  ELSE at + 1

SetSlot(i, value) ==
  records' = [records EXCEPT ![Len(records)].slots[i] = value]

Begin ==
  /\ records = << >>
  /\ \E proc \in Procedures :
       /\ at' = EntryPoint[proc]
       /\ Len(records') = 1
       /\ records'[1].proc = proc
       /\ DOMAIN records'[1].slots = 0 .. NumLocals[proc] - 1
  /\ UNCHANGED << code, globals, result, aborted >>

(* A run that executes nothing: the module's entry is no procedure. *)
Answer ==
  /\ records = << >>
  /\ UNCHANGED << code, records, globals, at, aborted >>

(* The running activation waits for a new one, whose locals hold anything. *)
Push(callee, args, dest) ==
  /\ Len(records') = Len(records) + 1
  /\ SubSeq(records', 1, Len(records)) = records
  /\ LET new == records'[Len(records')]
     IN  /\ new.proc = callee
         /\ DOMAIN new.slots = 0 .. NumLocals[callee] + Len(args) - 1
         /\ \A i \in DOMAIN args : new.slots[NumLocals[callee] + i - 1] = args[i]
         /\ new.dest = dest
         /\ new.resume = NextPlace
  /\ at' = EntryPoint[callee]
  /\ UNCHANGED << globals, result, aborted >>

Invoke(callee, args, dest) ==
  \/ callee \in Procedures /\ Push(callee, args, dest)
  \/ /\ callee \in Primitives
     /\ \E value \in Fresh : SetSlot(dest, value)
     /\ at' = NextPlace
     /\ UNCHANGED << globals, result, aborted >>
  \/ /\ callee \notin Procedures \cup Primitives
     /\ aborted' = TRUE
     /\ UNCHANGED << records, globals, at, result >>

Call ==
  \/ /\ Instruction.op = "call_sva"
     /\ Invoke(Slot(Instruction.func), << Slot(Instruction.arg) >>,
               Instruction.dest)
  \/ /\ Instruction.op = "call"
     /\ Invoke(Slot(Instruction.func),
               [i \in DOMAIN Instruction.args |-> Slot(Instruction.args[i])],
               Instruction.dest)

Return ==
  LET value  == Slot(Instruction.source)
      caller == Len(records) - 1
  IN  /\ Instruction.op = "return"
      /\ IF caller = 0
         THEN /\ records' = << >>
              /\ result' = value
              /\ UNCHANGED at
         ELSE /\ records' = [ SubSeq(records, 1, caller)
                                EXCEPT ![caller].slots[Top.dest] = value ]
              /\ at' = Top.resume
              /\ UNCHANGED result
      /\ UNCHANGED << globals, aborted >>

GetGlobal ==
  /\ Instruction.op = "global_ref"
  /\ SetSlot(Instruction.dest, globals[ModuleOf[Top.proc]][Instruction.source])

SetGlobal ==
  /\ Instruction.op = "global_set"
  /\ globals' = [globals EXCEPT ![ModuleOf[Top.proc]][Instruction.dest] =
                   Slot(Instruction.source)]

Jumps ==
  \/ Instruction.op = "jump"
  \/ Instruction.op = "jump_if" /\ Slot(Instruction.cond) # N_FALSE
  \/ Instruction.op = "jump_unless" /\ Slot(Instruction.cond) = N_FALSE

BundleOp == Instruction.op \in { "bundle_get", "bundle_set", "bundle_close" }

Sound ==
  /\ Slot(Instruction.bundle) \in Bundles
  /\ Instruction.op # "bundle_close" => Slot(Instruction.symbol) \in Symbols

Fail ==
  /\ BundleOp /\ ~Sound
  /\ aborted' = TRUE
  /\ UNCHANGED << records, globals, at, result >>

Continue ==
  \/ /\ Jumps
     /\ at' = at + Instruction.offset
     /\ UNCHANGED << records, globals >>
  \/ /\ Instruction.op \in { "jump_if", "jump_unless" } /\ ~Jumps
     /\ at' = NextPlace
     /\ UNCHANGED << records, globals >>
  \/ /\ \/ Instruction.op \in { "load", "new_bundle" }
        \/ Instruction.op = "bundle_get" /\ Sound
     /\ \E value \in Fresh : SetSlot(Instruction.dest, value)
     /\ at' = NextPlace
     /\ UNCHANGED globals
  \/ /\ Instruction.op \in { "bundle_set", "bundle_close" } /\ Sound
     /\ at' = NextPlace
     /\ UNCHANGED << records, globals >>
  \/ GetGlobal /\ at' = NextPlace /\ UNCHANGED globals
  \/ SetGlobal /\ at' = NextPlace /\ UNCHANGED records

Execute ==
  /\ records # << >>
  /\ ~aborted
  /\ \/ Call
     \/ Return
     \/ Fail
     \/ Continue /\ UNCHANGED << result, aborted >>
  /\ UNCHANGED << code, watched >>

(* An error ends the run, whatever was active, with no result.  Where the   *)
(* caller takes errors, that is an instruction nobody knows; where it does  *)
(* not, it may be any, after what it does to the globals.                   *)
Break ==
  /\ records # << >> /\ ~aborted
  /\ watched => Instruction.op = "unknown"
  /\ records' = << >>
  /\ result' = N_UNDEFINED
  /\ UNCHANGED globals \/ SetGlobal
  /\ UNCHANGED << code, watched, aborted >>

ActInit == records = << >> /\ aborted = FALSE

ActNext == Begin \/ Answer \/ Execute \/ Break

ActSpec == ActInit /\ [][ActNext]_actVars
=============================================================================
