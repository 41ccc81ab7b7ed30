--------------------------- MODULE RegisterMachine ---------------------------
(***************************************************************************)
(* The register machine of the fourth experiment (eval/evaluator.c with    *)
(* the tagged values of eval/values.c): one instruction per step, either   *)
(* from the loop of n_evaluator_run or from a host that calls              *)
(* n_evaluator_step itself, whether the machine is halted or not.          *)
(*                                                                         *)
(* A register holds an NValue: four times the number for a fixnum (tag     *)
(* 00), 6 or 2 for a boolean (tag 10).  Operations do not look at the tag. *)
(* Arithmetic is done in a C int, far wider than fixnums (IntMax).        *)
(*                                                                         *)
(* There are no jumps, so the instruction at the program counter is chosen *)
(* when the counter gets there.  The code is well formed: a HALT at        *)
(* LastPc, and no instruction before it that reaches over it.              *)
(***************************************************************************)
EXTENDS InstructionFormats

CONSTANTS
  FixnumMin, FixnumMax,  (* N_FIXNUM_MIN and N_FIXNUM_MAX                 *)
  IntMax,                (* the greatest C int (NFixnum)                  *)
  NumRegisters,          (* registers of the machine                      *)
  InitialValues,         (* the NValues the host puts in them             *)
  LastPc,                (* where the code ends, with a HALT              *)
  Program                (* the encoded instructions code is made of      *)

Fixnums == FixnumMin .. FixnumMax

IntValues == (-IntMax - 1) .. IntMax

Op == [ NOP |-> 0, HALT |-> 1, LOAD_INT4 |-> 2, LOAD_INT16 |-> 3,
        ADD |-> 4, SUB |-> 5, MUL |-> 6, DIV |-> 7, LOAD_BOOL |-> 8,
        NOT |-> 9, AND |-> 10, OR |-> 11, XOR |-> 12, EQ |-> 14,
        NEQ |-> 15, LT |-> 16, LTE |-> 17, GT |-> 18, GTE |-> 19 ]

HaltCode == EncodeInstruction8(Op.HALT, 0)

(* The opcodes whose instructions take two words; the others take one. *)
TwoWordOps ==
  { Op.ADD, Op.SUB, Op.MUL, Op.DIV, Op.EQ, Op.NEQ, Op.LT, Op.LTE, Op.GT,
    Op.GTE, Op.AND, Op.OR, Op.XOR, Op.LOAD_INT16 }

(* Fixnums and their tag fit an int, whose width is two bits at least.      *)
ASSUME MachineAssumption ==
  /\ FixnumMax \in Nat
  /\ FixnumMin = -FixnumMax - 1
  /\ IntMax \in Nat
  /\ 4 * FixnumMax + 3 <= IntMax
  /\ IntMax >= 7 /\ (IntMax + 1) % 4 = 0
  /\ NumRegisters \in 1 .. 256
  /\ LastPc \in Nat

(* The instructions are whole. *)
ASSUME ProgramAssumption ==
  \A bytes \in Program :
    /\ bytes \in Seq(UInt8)
    /\ Len(bytes) \in {2, 4}
    /\ Len(bytes) = 4 <=> bytes[1] \in TwoWordOps

-----------------------------------------------------------------------------
(* NValues.                                                                *)

TRUE_VALUE == 6

FALSE_VALUE == 2

(* What a 32-bit int keeps of a result. *)
IntWrap(x) == ((x + IntMax + 1) % (2 * (IntMax + 1))) - (IntMax + 1)

(* Slip: no int is that wide. *)
WrapFixnumUnbounded(n) == 4 * n

WrapFixnum(n) == IntWrap(4 * n)

UnwrapFixnum(value) == value \div 4

(* Slip: the truth value of C, without a tag. *)
WrapBooleanUntagged(b) == IF b THEN 1 ELSE 0

WrapBoolean(b) == IF b THEN TRUE_VALUE ELSE FALSE_VALUE

UnwrapBoolean(value) == value = TRUE_VALUE

IsFixnum(value) == value % 4 = 0

ASSUME InitialValuesAssumption ==
  \A value \in InitialValues :
    value \in IntValues /\ (IsFixnum(value) \/ value \in {TRUE_VALUE, FALSE_VALUE})

-----------------------------------------------------------------------------
(* The overflow checks, on C ints, with C's division towards zero.         *)

Magnitude(n) == IF n < 0 THEN -n ELSE n

Quotient(a, b) ==
  IF (a < 0) = (b < 0)
  THEN Magnitude(a) \div Magnitude(b)
  ELSE -(Magnitude(a) \div Magnitude(b))

(* Slip: >= for > where the numbers are not negative. *)
AdditionWouldOverflowEarly(left, right) ==
  IF left >= 0 THEN right >= FixnumMax - left ELSE right < FixnumMin - left

AdditionWouldOverflow(left, right) ==
  IF left >= 0 THEN right > FixnumMax - left ELSE right < FixnumMin - left

SubtractionWouldOverflow(left, right) ==
  IF right = FixnumMin THEN left >= 0 ELSE AdditionWouldOverflow(left, -right)

MultiplicationWouldOverflow(left, right) ==
  /\ left # 0 /\ right # 0
  /\ \/ left < 0 /\ right < 0 /\ left < Quotient(FixnumMax, right)
     \/ left > 0 /\ right > 0 /\ left > Quotient(FixnumMax, right)
     \/ /\ (left < 0) # (right < 0)
        /\ right = -1 \/ left < Quotient(FixnumMin, right)

DivisionWouldOverflow(left, right) == left = FixnumMin /\ right = -1

-----------------------------------------------------------------------------
VARIABLES
  registers,  (* the NValue of each register                              *)
  pc,         (* the word the next instruction starts at                  *)
  code,       (* the instruction there, as bytes                          *)
  halted,     (* the halted flag                                          *)
  error,      (* the NError passed to every call: "none" or what it holds *)
  running     (* inside the loop of n_evaluator_run                       *)

vars == << registers, pc, code, halted, error, running >>

Errors == { "none", "IndexOutOfBounds", "Overflow", "DivisionByZero" }

(* What well-formed code can hold at a place. *)
CodeAt(place) ==
  IF place < LastPc
  THEN { bytes \in Program : place + WordCount(bytes) <= LastPc }
  ELSE { HaltCode }

Init ==
  /\ registers \in [0 .. NumRegisters - 1 -> InitialValues]
  /\ pc = 0
  /\ code \in CodeAt(0)
  /\ halted = FALSE
  /\ error = "none"
  /\ running = FALSE

(* n_evaluator_get_register and set_register look at the upper bound only;  *)
(* register operands are unsigned bytes.                                    *)
Addressable(index) == index < NumRegisters

Advance(words) ==
  /\ pc' = pc + words
  /\ code' \in CodeAt(pc + words)

(* The operation gives up: nothing is written and the counter stays. *)
GiveUp(reason) ==
  /\ error' = reason
  /\ UNCHANGED << registers, pc, code >>

(* set_register reports a bad index, but the counter moves on all the same. *)
Store(dest, value) ==
  /\ Advance(WordCount(code))
  /\ IF Addressable(dest)
     THEN registers' = [registers EXCEPT ![dest] = value] /\ UNCHANGED error
     ELSE error' = "IndexOutOfBounds" /\ UNCHANGED registers

(* The error after reading the two operands in turn.  An operation finds an *)
(* error that was there before it, and takes it for its own.                *)
ReadError(arg1, arg2) ==
  IF ~Addressable(arg1) THEN "IndexOutOfBounds"
  ELSE IF error # "none" THEN error
  ELSE IF ~Addressable(arg2) THEN "IndexOutOfBounds"
  ELSE "none"

Operands == DecodeInstruction888(code)

Dest  == Operands[1]
Left  == registers[Operands[2]]
Right == registers[Operands[3]]

ReadsOperands(op) ==
  /\ Opcode(code) = op
  /\ ReadError(Operands[2], Operands[3]) = "none"

(* An operation of two operands that cannot read them. *)
UnreadableOperands ==
  LET reason == ReadError(Operands[2], Operands[3])
  IN  /\ Opcode(code) \in { Op.ADD, Op.SUB, Op.MUL, Op.DIV, Op.EQ, Op.NEQ,
                            Op.LT, Op.LTE, Op.GT, Op.GTE, Op.AND, Op.OR,
                            Op.XOR }
      /\ reason # "none"
      /\ GiveUp(reason)

(* Slip: the return after raising the overflow is missing. *)
DoAddWithoutReturn ==
  LET sum == UnwrapFixnum(Left) + UnwrapFixnum(Right)
  IN  /\ ReadsOperands(Op.ADD)
      /\ IF sum \in Fixnums
         THEN Store(Dest, WrapFixnum(sum))
         ELSE /\ Advance(WordCount(code))
              /\ error' = "Overflow"
              /\ registers' = [registers EXCEPT ![Dest] = WrapFixnum(sum)]

DoAdd ==
  LET l == UnwrapFixnum(Left)
      r == UnwrapFixnum(Right)
  IN  /\ ReadsOperands(Op.ADD)
      /\ IF AdditionWouldOverflow(l, r)
         THEN GiveUp("Overflow")
         ELSE Store(Dest, WrapFixnum(l + r))

DoSub ==
  LET l == UnwrapFixnum(Left)
      r == UnwrapFixnum(Right)
  IN  /\ ReadsOperands(Op.SUB)
      /\ IF SubtractionWouldOverflow(l, r)
         THEN GiveUp("Overflow")
         ELSE Store(Dest, WrapFixnum(l - r))

(* The product of two fixnums may not fit a C int: the checks let it pass,  *)
(* and the int keeps its low bits.                                          *)
DoMul ==
  LET l == UnwrapFixnum(Left)
      r == UnwrapFixnum(Right)
  IN  /\ ReadsOperands(Op.MUL)
      /\ IF MultiplicationWouldOverflow(l, r)
         THEN GiveUp("Overflow")
         ELSE Store(Dest, WrapFixnum(l * r))

DoDiv ==
  LET l == UnwrapFixnum(Left)
      r == UnwrapFixnum(Right)
  IN  /\ ReadsOperands(Op.DIV)
      /\ IF r = 0
         THEN GiveUp("DivisionByZero")
         ELSE IF DivisionWouldOverflow(l, r)
         THEN GiveUp("Overflow")
         ELSE Store(Dest, WrapFixnum(Quotient(l, r)))

(* n_eq_values compares the tagged values, the orders compare the numbers. *)
DoCompare(op, holds) == ReadsOperands(op) /\ Store(Dest, WrapBoolean(holds))

DoEq  == DoCompare(Op.EQ,  Left = Right)
DoNeq == DoCompare(Op.NEQ, Left # Right)
DoLt  == DoCompare(Op.LT,  UnwrapFixnum(Left) < UnwrapFixnum(Right))
DoLte == DoCompare(Op.LTE, UnwrapFixnum(Left) <= UnwrapFixnum(Right))
DoGt  == DoCompare(Op.GT,  UnwrapFixnum(Left) > UnwrapFixnum(Right))
DoGte == DoCompare(Op.GTE, UnwrapFixnum(Left) >= UnwrapFixnum(Right))

DoAnd == DoCompare(Op.AND, UnwrapBoolean(Left) /\ UnwrapBoolean(Right))
DoOr  == DoCompare(Op.OR,  UnwrapBoolean(Left) \/ UnwrapBoolean(Right))
DoXor == DoCompare(Op.XOR, UnwrapBoolean(Left) # UnwrapBoolean(Right))

(* Everything but the true value is false to NOT. *)
DoNot ==
  LET dest == DecodeInstruction44(code)[1]
      arg  == DecodeInstruction44(code)[2]
      read == ReadError(arg, arg)
  IN  /\ Opcode(code) = Op.NOT
      /\ IF read # "none"
         THEN GiveUp(read)
         ELSE Store(dest, WrapBoolean(registers[arg] # TRUE_VALUE))

(* The loads read no register, and do not look at the error. *)
DoLoadInt4 ==
  /\ Opcode(code) = Op.LOAD_INT4
  /\ Store(DecodeLoadInt4(code)[1], WrapFixnum(DecodeLoadInt4(code)[2]))

DoLoadInt16 ==
  /\ Opcode(code) = Op.LOAD_INT16
  /\ Store(DecodeLoadInt16(code)[1], WrapFixnum(DecodeLoadInt16(code)[2]))

DoLoadBool ==
  /\ Opcode(code) = Op.LOAD_BOOL
  /\ Store(DecodeInstruction44(code)[1],
           WrapBoolean(DecodeInstruction44(code)[2] # 0))

DoNop ==
  /\ Opcode(code) = Op.NOP
  /\ Advance(1)
  /\ UNCHANGED << registers, error >>

(* HALT, and every byte that is no opcode. *)
Halts ==
  \/ Opcode(code) = Op.HALT
  \/ \A name \in DOMAIN Op : Opcode(code) # Op[name]

(* Slip: HALT steps over itself, as NOP does. *)
DoHaltAdvancing ==
  Halts /\ pc' = pc + 1 /\ UNCHANGED << registers, code, error >>

DoHalt == Halts /\ UNCHANGED << registers, pc, code, error >>

(* The body of n_evaluator_step but for the halted flag. *)
Execute ==
  \/ UnreadableOperands
  \/ DoAdd \/ DoSub \/ DoMul \/ DoDiv
  \/ DoEq \/ DoNeq \/ DoLt \/ DoLte \/ DoGt \/ DoGte
  \/ DoAnd \/ DoOr \/ DoXor \/ DoNot
  \/ DoLoadInt4 \/ DoLoadInt16 \/ DoLoadBool
  \/ DoNop \/ DoHalt

-----------------------------------------------------------------------------
(* A host steps the machine itself: the halted flag is not looked at. *)
HostStep ==
  /\ ~running
  /\ Execute
  /\ halted' = (halted \/ Halts)
  /\ UNCHANGED running

(* n_evaluator_run is entered, iterates, and returns. *)
RunStarts ==
  /\ ~running
  /\ running' = TRUE
  /\ UNCHANGED << registers, pc, code, halted, error >>

(* Slip: the loop does not look at the error. *)
RunStepIgnoringErrors ==
  /\ running /\ ~halted
  /\ Execute
  /\ halted' = Halts
  /\ UNCHANGED running

RunStep ==
  /\ running /\ ~halted
  /\ Execute
  /\ halted' = (Halts \/ error' # "none")
  /\ UNCHANGED running

RunReturns ==
  /\ running /\ halted
  /\ running' = FALSE
  /\ UNCHANGED << registers, pc, code, halted, error >>

(* The host passes a fresh NError to its next call. *)
HostClearsError ==
  /\ ~running /\ error # "none"
  /\ error' = "none"
  /\ UNCHANGED << registers, pc, code, halted, running >>

Next ==
  \/ HostStep
  \/ RunStarts
  \/ RunStep
  \/ RunReturns
  \/ HostClearsError

(* The loop of n_evaluator_run is not interrupted. *)
Fairness == WF_vars(RunStep) /\ WF_vars(RunReturns)

Spec == Init /\ [][Next]_vars /\ Fairness

-----------------------------------------------------------------------------
TypeOK ==
  /\ registers \in [0 .. NumRegisters - 1 -> IntValues]
  /\ pc \in Nat
  /\ code \in Program \cup { HaltCode }
  /\ halted \in BOOLEAN
  /\ error \in Errors
  /\ running \in BOOLEAN

(* Operations unwrap whatever they find: a boolean is a number to ADD and a *)
(* fixnum is false to AND.  Yet no program forges a value that n_type_of    *)
(* would not know, nor a third boolean.                                     *)
ValuesWellTagged ==
  \A i \in DOMAIN registers :
    IsFixnum(registers[i]) \/ registers[i] \in { TRUE_VALUE, FALSE_VALUE }

(* The program counter, which step does not compare with code_size, never   *)
(* leaves well-formed code, however the host mixes runs and steps, and      *)
(* steps after errors and halts: what gives up stays where it is, and HALT  *)
(* stays on itself.                                                         *)
PcInCode ==
  /\ pc <= LastPc
  /\ code \in CodeAt(pc)

Executes == HostStep \/ RunStep

FixnumIn(value) == IsFixnum(value) /\ UnwrapFixnum(value) \in Fixnums

(* An arithmetic instruction on two fixnums, without an error before it.    *)
Computes(op) ==
  /\ Executes
  /\ error = "none"
  /\ Opcode(code) = op
  /\ \A k \in 1 .. 3 : Addressable(Operands[k])
  /\ FixnumIn(Left)
  /\ FixnumIn(Right)

(* The step stores the exact result when it is a fixnum, and is an error    *)
(* that stores nothing otherwise.                                           *)
ExactOrError(result) ==
  IF result \in Fixnums
  THEN error' = "none" /\ registers' = [registers EXCEPT ![Dest] = 4 * result]
  ELSE error' # "none" /\ registers' = registers

(* On fixnums, ADD, SUB and DIV give the exact result when it is a fixnum   *)
(* and an error otherwise, at every boundary the checks have a case for;    *)
(* so does MUL unless a positive number is multiplied by a negative one.    *)
ArithmeticStep ==
  LET l == UnwrapFixnum(Left)
      r == UnwrapFixnum(Right)
  IN  /\ Computes(Op.ADD) => ExactOrError(l + r)
      /\ Computes(Op.SUB) => ExactOrError(l - r)
      /\ Computes(Op.DIV) =>
           ExactOrError(IF r = 0 THEN FixnumMax + 1 ELSE Quotient(l, r))
      /\ Computes(Op.MUL) =>
           (l > 0 /\ r < 0) \/ ExactOrError(l * r)

ArithmeticExact == [][ArithmeticStep]_vars

(* A step that raises an error has written no register, whichever of its    *)
(* operands or its result the error is about.                               *)
FailedStepWritesNothing ==
  [][ Executes /\ error = "none" /\ error' # "none" =>
        registers' = registers ]_vars

(* Every run of well-formed code ends, with or without an error, also when  *)
(* it is started on a machine left with an error by a step.                 *)
RunsEnd == running ~> ~running

(* The comment in multiplication_would_overflow: "if right == -1, [...] we  *)
(* know the multiplication wouldn't overflow because left would then have   *)
(* to be positive, and any positive number can be made negative without     *)
(* overflowing."                                                            *)
NegatingNeverOverflows ==
  [][ Computes(Op.MUL) /\ UnwrapFixnum(Left) > 0 /\ UnwrapFixnum(Right) = -1
        => error' = "none" ]_vars
=============================================================================
