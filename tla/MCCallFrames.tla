---------------------------- MODULE MCCallFrames ----------------------------
(* Small instances of CallFrames: main, in module m1, calls p or a primitive; *)
(* p, in module m2, may call itself, and finds its arguments in the slots     *)
(* after its two locals.  The number of a register takes two bytes.           *)
EXTENDS CheckedCode, TLC

CONSTANTS m1, m2, main, p, prim, bundle, symbol

MCModuleOf       == (main :> m1) @@ (p :> m2)
MCNumLocals      == (main :> 3) @@ (p :> 2)
MCEntryPoint     == (main :> 0) @@ (p :> 0)
MCInitialGlobals == (m1 :> (0 :> main @@ 1 :> p @@ 256 :> symbol))
                    @@ (m2 :> (0 :> prim @@ 1 :> p @@ 2 :> prim))
MCEntryRegister  == (m1 :> 0) @@ (m2 :> 0)

Load(dest, string)      == [ op |-> "load", dest |-> dest, string |-> string ]
NewBundle(dest, size)   == [ op |-> "new_bundle", dest |-> dest, size |-> size ]
BundleGet(dest, object, name) ==
  [ op |-> "bundle_get", dest |-> dest, bundle |-> object, symbol |-> name ]
BundleSet(object, name, value) ==
  [ op |-> "bundle_set", bundle |-> object, symbol |-> name, value |-> value ]
BundleClose(object)     == [ op |-> "bundle_close", bundle |-> object ]
GlobalRef(dest, source) == [ op |-> "global_ref", dest |-> dest, source |-> source ]
GlobalSet(dest, source) == [ op |-> "global_set", dest |-> dest, source |-> source ]
CallSva(dest, func, arg) ==
  [ op |-> "call_sva", dest |-> dest, func |-> func, arg |-> arg ]
Call(dest, func, args)  ==
  [ op |-> "call", dest |-> dest, func |-> func, nargs |-> Len(args), args |-> args ]
Arguments(args)         == [ op |-> "arguments", args |-> args ]
Return(source)          == [ op |-> "return", source |-> source ]
Jump(offset)            == [ op |-> "jump", offset |-> offset ]
JumpIf(cond, offset)    == [ op |-> "jump_if", cond |-> cond, offset |-> offset ]
JumpUnless(cond, offset) == [ op |-> "jump_unless", cond |-> cond, offset |-> offset ]
Unknown                 == [ op |-> "unknown", opcode |-> 13 ]

(* A procedure from its instructions, the first one at place 0. *)
Code(instructions) ==
  [ i \in 0 .. Len(instructions) - 1 |-> instructions[i + 1] ]

MainCode ==
  { << GlobalRef(0, 1), Load(1, 2), GlobalRef(2, 256), BundleGet(1, 1, 2),
       CallSva(0, 0, 1), Return(last) >> : last \in {0, 1} }
  \cup
  { << GlobalRef(1, 1), NewBundle(0, 300), BundleClose(0), GlobalRef(2, 256),
       BundleSet(0, 2, 1), Call(0, 1, << 0 >>), Arguments(<< 0, 0, 0, 0 >>),
       GlobalSet(256, 1), Return(0) >> }

(* Slot 2 is the argument; each p reads it after a call it makes.  One that *)
(* calls itself ends when the primitive returns something false, or true.   *)
CalleeCode ==
  { << Return(2) >>,
    << GlobalRef(0, 0), CallSva(0, 0, 2), GlobalSet(2, 2), Return(0) >>,
    << GlobalRef(0, 0), Call(0, 0, << >>), Jump(2), Unknown, Return(2) >>,
    << JumpIf(2, 2), Unknown, CallSva(2, 2, 2), Return(2) >>,
    << Jump(2), Return(2), JumpUnless(2, 2), JumpIf(2, -2), Jump(-3) >>,
    << JumpUnless(2, 5), GlobalRef(0, 0), CallSva(1, 0, 2), GlobalRef(0, 1),
       CallSva(0, 0, 1), Return(2) >>,
    << JumpIf(2, 8), GlobalRef(0, 0), CallSva(1, 0, 2), GlobalRef(0, 1),
       Call(0, 0, << 1 >>), Arguments(<< 1, 0, 0, 0 >>), JumpUnless(0, 2),
       GlobalSet(2, 0), Return(2) >> }

OneArgument ==
  { (m1 :> Code(caller)) @@ (m2 :> Code(callee)) :
      caller \in MainCode, callee \in CalleeCode }

(* Five arguments, in two words, for a p that calls nobody. *)
FiveArguments ==
  { (m1 :> Code(<< GlobalRef(0, 1), NewBundle(1, 1), GlobalRef(2, 256),
                   Call(1, 0, << 1, 2, 2, 0, 1 >>), Arguments(<< 1, 2, 2, 0 >>),
                   Arguments(<< 1, 0, 0, 0 >>), Return(1) >>))
      @@ (m2 :> Code(<< Return(last) >>)) : last \in {3, 5, 6} }

AtMostOneOrLeaf == OneArgument \cup FiveArguments

(* p is given two arguments, and calls a procedure of its own. *)
TwoArguments ==
  { (m1 :> Code(<< GlobalRef(0, 1), NewBundle(1, 1), Call(0, 0, << 1, 1 >>),
                   Arguments(<< 1, 1, 0, 0 >>), Return(0) >>))
      @@
    (m2 :> Code(<< JumpUnless(2, 4), GlobalRef(0, 1), Call(0, 0, << 2, 3 >>),
                   Arguments(<< 2, 3, 0, 0 >>), Return(3) >>)) }
-----------------------------------------------------------------------------
(* Facts about the code of these instances: p is given its arguments, main  *)
(* one or none, and what a slot holds is known from the places before, back *)
(* to where the procedure begins or a jump leads.                           *)
MCHolds == (m1 :> (0 :> {main} @@ 1 :> {p} @@ 256 :> Values))
           @@ (m2 :> (0 :> {prim} @@ 1 :> {p} @@ 2 :> Values))

(* What is known after an instruction of the procedure. *)
KnownAfter(procedure, known, i) ==
  CASE i.op = "global_ref" ->
         Learns(known, i.dest, MCHolds[ModuleOf[procedure]][i.source])
    [] i.op \in { "call", "call_sva", "load", "new_bundle", "bundle_get" } ->
         Learns(known, i.dest, Values)
    [] OTHER -> known

KnownIn(words, procedure, given) ==
  LET ledTo == { place + words[place].offset :
                   place \in { at \in DOMAIN words : words[at].op \in
                                 { "jump", "jump_if", "jump_unless" } } }
      at[place \in DOMAIN words] ==
        IF place = EntryPoint[procedure] \/ place \in ledTo THEN given
        ELSE KnownAfter(procedure, at[place - 1], words[place - 1])
  IN  [ place \in { k \in DOMAIN words : words[k].op # "arguments" } |-> at[place] ]

FactsAbout(program, nargs) ==
  [ known |-> (main :> KnownIn(program[m1], main, << >>))
              @@ (p :> KnownIn(program[m2], p,
                               [ slot \in 2 .. nargs + 1 |-> Values ])),
    holds |-> MCHolds,
    least |-> (main :> 0) @@ (p :> nargs),
    most  |-> (main :> 1) @@ (p :> nargs) ]

(* Every program passes; the one that gives a caller two arguments does not *)
(* with facts like these.                                                   *)
ASSUME ProgramsOfOneArgumentPass ==
  /\ \A program \in OneArgument : CodePasses(program, FactsAbout(program, 1))
  /\ \A program \in FiveArguments : CodePasses(program, FactsAbout(program, 5))

ASSUME TwoArgumentsDoNotPass ==
  \A program \in TwoArguments : ~CodePasses(program, FactsAbout(program, 2))
=============================================================================
