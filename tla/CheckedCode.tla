---------------------------- MODULE CheckedCode ----------------------------
(***************************************************************************)
(* What a host has to know of its code to rely on the evaluator of the     *)
(* second experiment, which looks at nothing in the code it runs: facts    *)
(* about the slots at each place, that every instruction hands on to the   *)
(* next.  Whether code passes is decided before it runs; code that passes  *)
(* is well formed whenever the evaluator gets to it (CodeWellFormed).      *)
(*                                                                         *)
(* The facts about the code of all modules are a record of functions:      *)
(*   known[procedure][place][slot]   the values that the slot can hold     *)
(*        when the procedure gets to the place, for some slots,            *)
(*   holds[module][register]         the values the register can hold,     *)
(*   least[procedure], most[procedure]   how many arguments it is given.   *)
(***************************************************************************)
EXTENDS CallFrames

(* Whoever comes to the place brings what is known there.                   *)
GoesTo(facts, procedure, place, known) ==
  /\ place \in DOMAIN facts.known[procedure]
  /\ \A slot \in DOMAIN facts.known[procedure][place] :
       /\ slot \in DOMAIN known
       /\ known[slot] \subseteq facts.known[procedure][place][slot]

(* A slot is written with one of the values.                                *)
Learns(known, dest, values) ==
  [ slot \in DOMAIN known \cup { dest } |->
      IF slot = dest THEN values ELSE known[slot] ]

(* What the callee knows when it starts: its locals hold anything.          *)
Passed(callee, known, args) ==
  LET at(k) == NumLocals[callee] + k - 1
  IN  [ slot \in { at(k) : k \in { n \in DOMAIN args : args[n] \in DOMAIN known } } |->
          known[args[slot - NumLocals[callee] + 1]] ]

CanBeGiven(facts, callee, known, args) ==
  /\ Len(args) \in facts.least[callee] .. facts.most[callee]
  /\ GoesTo(facts, callee, EntryPoint[callee], Passed(callee, known, args))

(* Every procedure that the slot can hold takes the arguments, and the      *)
(* caller has at most one of its own.                                       *)
CallPasses(facts, procedure, known, call, args, next) ==
  /\ call.func \in DOMAIN known
  /\ \A callee \in known[call.func] \cap Procedures :
       /\ facts.most[procedure] <= 1
       /\ CanBeGiven(facts, callee, known, args)
  /\ GoesTo(facts, procedure, next, Learns(known, call.dest, Values))

StoresValue(known, slot, values) ==
  slot \in DOMAIN known /\ known[slot] \subseteq values

InstructionPasses(facts, procedure, place, i) ==
  LET known == facts.known[procedure][place]
      holds == facts.holds[ModuleOf[procedure]]
      Goes(next, now) == GoesTo(facts, procedure, next, now)
  IN  /\ SlotsNamed(i) \subseteq 0 .. NumLocals[procedure] + facts.least[procedure] - 1
      /\ i.op = "call_sva" =>
           CallPasses(facts, procedure, known, i, << i.arg >>, place + 1)
      /\ i.op = "call" =>
           CallPasses(facts, procedure, known, i, i.args,
                      place + 1 + (i.nargs + 3) \div 4)
      /\ i.op = "return" => StoresValue(known, i.source, Values)
      /\ i.op = "global_ref" =>
           /\ i.source \in DOMAIN holds
           /\ Goes(place + 1, Learns(known, i.dest, holds[i.source]))
      /\ i.op = "global_set" =>
           /\ i.dest \in DOMAIN holds
           /\ StoresValue(known, i.source, holds[i.dest])
           /\ Goes(place + 1, known)
      /\ i.op \in { "jump", "jump_if", "jump_unless" } =>
           Goes(place + i.offset, known)
      /\ i.op \in { "jump_if", "jump_unless", "bundle_set", "bundle_close" } =>
           Goes(place + 1, known)
      /\ i.op \in { "load", "new_bundle", "bundle_get" } =>
           Goes(place + 1, Learns(known, i.dest, Values))

(* The registers hold what they start with, and a module's entry point is   *)
(* always one that can be called without arguments.                         *)
RegistersPass(facts) ==
  \A module \in Modules :
    /\ DOMAIN facts.holds[module] = DOMAIN InitialGlobals[module]
    /\ \A register \in DOMAIN InitialGlobals[module] :
         /\ InitialGlobals[module][register] \in facts.holds[module][register]
         /\ facts.holds[module][register] \subseteq Values
    /\ \A procedure \in facts.holds[module][EntryRegister[module]] \cap Procedures :
         CanBeGiven(facts, procedure, << >>, << >>)

CodePasses(program, facts) ==
  /\ RegistersPass(facts)
  /\ \A procedure \in Procedures :
       /\ facts.least[procedure] \in Nat /\ facts.most[procedure] \in Nat
       /\ \A place \in DOMAIN facts.known[procedure] :
            /\ WellWritten(program[ModuleOf[procedure]], place)
            /\ InstructionPasses(facts, procedure, place,
                                 program[ModuleOf[procedure]][place])

(* All the programs pass, with some facts.                                  *)
ProgramsPass == \A program \in Programs : \E facts : CodePasses(program, facts)

=============================================================================
