------------------------ MODULE RegisterMachineProofs ------------------------
(***************************************************************************)
(* Proofs about RegisterMachine, for every width of fixnum and int, every  *)
(* number of registers and every well-formed program.                      *)
(***************************************************************************)
EXTENDS RegisterMachine, TLAPS

-----------------------------------------------------------------------------
(* Integer arithmetic the overflow checks rest on.                         *)

(* Remainders, as the solver does not know them with a divisor that is no   *)
(* number.                                                                  *)
LEMMA ModBounds ==
  ASSUME NEW x \in Int, NEW m \in Nat, m > 0
  PROVE  x % m \in 0 .. m - 1
  OBVIOUS

(* Quotient and remainder make up the number. *)
LEMMA DivMod ==
  ASSUME NEW x \in Int, NEW m \in Nat, m > 0
  PROVE  /\ x \div m \in Int
         /\ x = (m * (x \div m)) + (x % m)
  OBVIOUS

(* A quotient is no greater than what is divided. *)
LEMMA DivBounds ==
  ASSUME NEW a \in Nat, NEW b \in Nat, b > 0
  PROVE  /\ a \div b \in 0 .. a
         /\ a > 0 /\ b > 1 => a \div b < a
  OBVIOUS

(* A division decides whether a product exceeds a bound. *)
LEMMA ProductExceeds ==
  ASSUME NEW a \in Nat, NEW b \in Nat, b > 0, NEW bound \in Nat
  PROVE  a > bound \div b <=> a * b > bound
<1> DEFINE q == bound \div b
           r == bound % b
<1>1. q \in Int /\ bound = (b * q) + r /\ r \in 0 .. b - 1
  BY DivMod, ModBounds
<1>. HIDE DEF q, r
<1>2. CASE a <= q
  <2>1. a * b <= q * b
    BY <1>1, <1>2
  <2>. QED
    BY <2>1, <1>1, <1>2 DEF q
<1>3. CASE a >= q + 1
  <2>1. a * b >= (q + 1) * b
    BY <1>1, <1>3
  <2>2. (q + 1) * b = (b * q) + b
    BY <1>1
  <2>. QED
    BY <2>1, <2>2, <1>1, <1>3 DEF q
<1>. QED
  BY <1>1, <1>2, <1>3

(* Cutting a multiple of four to the width of an int leaves its tag alone. *)
LEMMA WrapKeepsTag ==
  ASSUME NEW n \in Int, NEW q \in Nat, q > 0
  PROVE  (((4 * n + 4 * q) % (8 * q)) - 4 * q) % 4 = 0
<1> DEFINE m == 8 * q
           k == (4 * n + 4 * q) \div m
           r == (4 * n + 4 * q) % m
<1>1. m \in Nat /\ m > 0 /\ 4 * n + 4 * q \in Int
  OBVIOUS
<1>. HIDE DEF m
<1>2. k \in Int /\ 4 * n + 4 * q = (m * k) + r
  BY <1>1, DivMod
<1>3. r \in Int
  BY <1>1, ModBounds
<1>. HIDE DEF k, r
<1> DEFINE z == q * k
<1>4. z \in Int
  BY <1>2
<1>5. m * k = 8 * z
  BY <1>2 DEF m
<1>. HIDE DEF z
<1>6. r - 4 * q = 4 * (n - 2 * z)
  BY <1>2, <1>3, <1>4, <1>5
<1>7. (4 * (n - 2 * z)) % 4 = 0
  BY <1>4
<1>. QED
  BY <1>6, <1>7 DEF r, m

-----------------------------------------------------------------------------
(* Values.                                                                 *)

(* What ValuesWellTagged says of one register, with its width. *)
Value == { v \in IntValues : IsFixnum(v) \/ v \in { TRUE_VALUE, FALSE_VALUE } }

(* An int keeps the numbers it can hold, and makes ints of the others. *)
LEMMA IntWrapInRange ==
  ASSUME NEW x \in Int
  PROVE  /\ IntWrap(x) \in IntValues
         /\ x \in IntValues => IntWrap(x) = x
<1>1. 2 * (IntMax + 1) \in Nat /\ 2 * (IntMax + 1) > 0 /\ IntMax \in Nat
  BY MachineAssumption
<1>2. (x + IntMax + 1) % (2 * (IntMax + 1)) \in 0 .. 2 * (IntMax + 1) - 1
  BY <1>1, ModBounds
<1>3. IntWrap(x) \in IntValues
  BY <1>1, <1>2 DEF IntWrap, IntValues
<1>4. ASSUME x \in IntValues
      PROVE  IntWrap(x) = x
  <2>1. x + IntMax + 1 \in 0 .. 2 * (IntMax + 1) - 1
    BY <1>1, <1>4 DEF IntValues
  <2>2. \A y \in 0 .. 2 * (IntMax + 1) - 1 : y % (2 * (IntMax + 1)) = y
    BY <1>1
  <2>. QED
    BY <1>1, <2>1, <2>2 DEF IntWrap
<1>. QED
  BY <1>3, <1>4

(* n_wrap_fixnum makes a value of any number, and shifts the fixnums. *)
LEMMA WrapFixnumIsValue ==
  ASSUME NEW n \in Int
  PROVE  /\ WrapFixnum(n) \in Value
         /\ n \in Fixnums => WrapFixnum(n) = 4 * n
<1>1. WrapFixnum(n) \in IntValues
  BY IntWrapInRange DEF WrapFixnum
<1>2. IsFixnum(WrapFixnum(n))
  <2>1. PICK q \in Nat : q > 0 /\ IntMax + 1 = 4 * q
    BY MachineAssumption
  <2>2. IntMax = 4 * q - 1 /\ IntMax \in Nat
    BY <2>1, MachineAssumption
  <2>3. 4 * n + IntMax + 1 = 4 * n + 4 * q /\ 2 * (IntMax + 1) = 8 * q
    BY <2>2
  <2>. QED
    BY <2>1, <2>3, WrapKeepsTag DEF WrapFixnum, IntWrap, IsFixnum
<1>3. n \in Fixnums => 4 * n \in IntValues
  BY MachineAssumption DEF Fixnums, IntValues
<1>. QED
  BY <1>1, <1>2, <1>3, IntWrapInRange DEF Value, WrapFixnum

(* N_TRUE and N_FALSE fit an int. *)
LEMMA WrapBooleanIsValue ==
  ASSUME NEW b
  PROVE  WrapBoolean(b) \in Value
  BY MachineAssumption
  DEF WrapBoolean, Value, IntValues, TRUE_VALUE, FALSE_VALUE

(* C's division is defined for every divisor but zero. *)
LEMMA QuotientIsInt ==
  ASSUME NEW a \in Int, NEW b \in Int, b # 0
  PROVE  Quotient(a, b) \in Int
<1>1. Magnitude(a) \in Nat /\ Magnitude(b) \in Nat /\ Magnitude(b) > 0
  BY DEF Magnitude
<1>2. Magnitude(a) \div Magnitude(b) \in Int
  BY <1>1, DivMod
<1>. QED
  BY <1>2 DEF Quotient

-----------------------------------------------------------------------------
(* The invariant and the steps.                                            *)

Inv == TypeOK /\ ValuesWellTagged /\ PcInCode

BinaryOps == { Op.ADD, Op.SUB, Op.MUL, Op.DIV, Op.EQ, Op.NEQ, Op.LT, Op.LTE,
               Op.GT, Op.GTE, Op.AND, Op.OR, Op.XOR }

(* Under the invariant a register that can be addressed holds a value. *)
LEMMA RegistersHoldValues ==
  ASSUME Inv
  PROVE  \A i \in 0 .. NumRegisters - 1 : registers[i] \in Value
  BY DEF Inv, TypeOK, ValuesWellTagged, Value

(* The operands of an instruction of two words are bytes. *)
LEMMA FourBytes ==
  ASSUME NEW bytes \in Seq(UInt8), Len(bytes) = 4
  PROVE  /\ bytes[2] \in 0 .. 255
         /\ bytes[3] \in 0 .. 255
         /\ bytes[4] \in 0 .. 255
<1>1. \A k \in 1 .. 4 : bytes[k] \in UInt8
  OBVIOUS
<1>. QED
  BY <1>1 DEF UInt8

(* A three-operand instruction has its three operands. *)
LEMMA OperandsOfBinary ==
  ASSUME TypeOK, Opcode(code) \in BinaryOps
  PROVE  /\ Len(code) = 4
         /\ \A k \in 1 .. 3 : Operands[k] \in UInt8
<1>1. Opcode(code) # Op.HALT /\ Opcode(code) \in TwoWordOps
  BY DEF BinaryOps, TwoWordOps, Op
<1>2. code \in Program
  BY <1>1 DEF TypeOK, HaltCode, EncodeInstruction8, Opcode
<1>3. code \in Seq(UInt8) /\ Len(code) = 4
  BY <1>1, <1>2, ProgramAssumption DEF Opcode
<1>4. /\ Operands[1] = code[2]
      /\ Operands[2] = code[3]
      /\ Operands[3] = code[4]
  BY DEF Operands, DecodeInstruction888
<1>5. \A k \in 1 .. 3 : k = 1 \/ k = 2 \/ k = 3
  OBVIOUS
<1>6. code[2] \in UInt8 /\ code[3] \in UInt8 /\ code[4] \in UInt8
  BY <1>3, FourBytes DEF UInt8
<1>. QED
  BY <1>3, <1>4, <1>5, <1>6

(* What an operation of two operands has read are values. *)
LEMMA ReadOperandsAreValues ==
  ASSUME Inv, NEW op \in BinaryOps, ReadsOperands(op)
  PROVE  Left \in Value /\ Right \in Value
<1>1. Operands[2] \in UInt8 /\ Operands[3] \in UInt8
  BY OperandsOfBinary DEF Inv, ReadsOperands
<1>2. Operands[2] < NumRegisters /\ Operands[3] < NumRegisters
  BY DEF ReadsOperands, ReadError, Addressable
<1>3. Operands[2] \in 0 .. NumRegisters - 1 /\ Operands[3] \in 0 .. NumRegisters - 1
  BY <1>1, <1>2, MachineAssumption DEF UInt8
<1>. QED
  BY <1>3, RegistersHoldValues DEF Left, Right

(* Whatever is not HALT advances to a place in the code. *)
LEMMA AdvanceStaysInCode ==
  ASSUME TypeOK, PcInCode, Opcode(code) # Op.HALT, Advance(WordCount(code))
  PROVE  /\ pc' \in Nat
         /\ code' \in Program \cup { HaltCode }
         /\ PcInCode'
<1>1. pc < LastPc
  <2>1. pc = LastPc => code = HaltCode
    BY MachineAssumption DEF PcInCode, CodeAt
  <2>. QED
    BY <2>1, MachineAssumption
    DEF TypeOK, PcInCode, HaltCode, EncodeInstruction8, Opcode
<1>2. code \in Program /\ pc + WordCount(code) <= LastPc
  BY <1>1 DEF PcInCode, CodeAt
<1>3. Len(code) \in {2, 4}
  BY <1>2, ProgramAssumption
<1>4. WordCount(code) \in Nat
  BY <1>3 DEF WordCount
<1>5. pc' \in Nat /\ pc' <= LastPc /\ code' \in CodeAt(pc')
  BY <1>2, <1>4 DEF Advance, TypeOK
<1>. QED
  BY <1>5 DEF CodeAt, PcInCode

(* What a step has to show of the machine; halted and running are easy. *)
Kept ==
  /\ registers' \in [0 .. NumRegisters - 1 -> IntValues]
  /\ ValuesWellTagged'
  /\ pc' \in Nat
  /\ code' \in Program \cup { HaltCode }
  /\ PcInCode'
  /\ error' \in Errors

(* set_register keeps the invariant, whether it stores or reports. *)
LEMMA StoreKeeps ==
  ASSUME Inv, NEW dest, NEW value \in Value, Store(dest, value),
         Opcode(code) # Op.HALT
  PROVE  Kept
<1>1. pc' \in Nat /\ code' \in Program \cup { HaltCode } /\ PcInCode'
  BY AdvanceStaysInCode DEF Inv, Store
<1>2. CASE Addressable(dest)
  <2>1. registers' = [registers EXCEPT ![dest] = value] /\ error' = error
    BY <1>2 DEF Store
  <2>2. registers' \in [0 .. NumRegisters - 1 -> IntValues] /\ ValuesWellTagged'
    BY <2>1 DEF Inv, TypeOK, ValuesWellTagged, Value
  <2>. QED
    BY <1>1, <2>1, <2>2 DEF Kept, Inv, TypeOK
<1>3. CASE ~Addressable(dest)
  <2>1. registers' = registers /\ error' = "IndexOutOfBounds"
    BY <1>3 DEF Store
  <2>. QED
    BY <1>1, <2>1 DEF Kept, Inv, TypeOK, ValuesWellTagged, Errors
<1>. QED
  BY <1>2, <1>3

(* So does an operation that gives up. *)
LEMMA GiveUpKeeps ==
  ASSUME Inv, NEW reason \in Errors, GiveUp(reason)
  PROVE  Kept
  BY DEF Inv, TypeOK, ValuesWellTagged, PcInCode, GiveUp, Kept, CodeAt

(* What reading operands reports is an error there is. *)
LEMMA ReadErrorIsError ==
  ASSUME TypeOK, NEW arg1, NEW arg2
  PROVE  ReadError(arg1, arg2) \in Errors
  BY DEF TypeOK, ReadError, Errors

(* The four arithmetic operations keep the invariant. *)
LEMMA ArithmeticKeeps ==
  ASSUME Inv, DoAdd \/ DoSub \/ DoMul \/ DoDiv
  PROVE  Kept
<1> DEFINE l == UnwrapFixnum(Left)
           r == UnwrapFixnum(Right)
<1>1. \A op \in BinaryOps : ReadsOperands(op) => l \in Int /\ r \in Int
  BY ReadOperandsAreValues, MachineAssumption DEF Value, IntValues, UnwrapFixnum
<1>2. { Op.ADD, Op.SUB, Op.MUL, Op.DIV } \subseteq BinaryOps
  BY DEF BinaryOps
<1>3. \A op \in BinaryOps : ReadsOperands(op) => Opcode(code) # Op.HALT
  BY DEF ReadsOperands, BinaryOps, Op
<1>4. "Overflow" \in Errors /\ "DivisionByZero" \in Errors
  BY DEF Errors
<1>5. CASE DoAdd
  <2>1. l \in Int /\ r \in Int /\ Opcode(code) # Op.HALT
    BY <1>1, <1>2, <1>3, <1>5 DEF DoAdd
  <2>2. WrapFixnum(l + r) \in Value
    BY <2>1, WrapFixnumIsValue
  <2>3. GiveUp("Overflow") \/ Store(Dest, WrapFixnum(l + r))
    BY <1>5 DEF DoAdd
  <2>. QED
    BY <1>4, <2>1, <2>2, <2>3, StoreKeeps, GiveUpKeeps
<1>6. CASE DoSub
  <2>1. l \in Int /\ r \in Int /\ Opcode(code) # Op.HALT
    BY <1>1, <1>2, <1>3, <1>6 DEF DoSub
  <2>2. WrapFixnum(l - r) \in Value
    BY <2>1, WrapFixnumIsValue
  <2>3. GiveUp("Overflow") \/ Store(Dest, WrapFixnum(l - r))
    BY <1>6 DEF DoSub
  <2>. QED
    BY <1>4, <2>1, <2>2, <2>3, StoreKeeps, GiveUpKeeps
<1>7. CASE DoMul
  <2>1. l \in Int /\ r \in Int /\ Opcode(code) # Op.HALT
    BY <1>1, <1>2, <1>3, <1>7 DEF DoMul
  <2>2. WrapFixnum(l * r) \in Value
    BY <2>1, WrapFixnumIsValue
  <2>3. GiveUp("Overflow") \/ Store(Dest, WrapFixnum(l * r))
    BY <1>7 DEF DoMul
  <2>. QED
    BY <1>4, <2>1, <2>2, <2>3, StoreKeeps, GiveUpKeeps
<1>8. CASE DoDiv
  <2>1. l \in Int /\ r \in Int /\ Opcode(code) # Op.HALT
    BY <1>1, <1>2, <1>3, <1>8 DEF DoDiv
  <2>2. r # 0 => WrapFixnum(Quotient(l, r)) \in Value
    BY <2>1, WrapFixnumIsValue, QuotientIsInt
  <2>3. \/ GiveUp("DivisionByZero")
        \/ GiveUp("Overflow")
        \/ r # 0 /\ Store(Dest, WrapFixnum(Quotient(l, r)))
    BY <1>8 DEF DoDiv
  <2>. QED
    BY <1>4, <2>1, <2>2, <2>3, StoreKeeps, GiveUpKeeps
<1>. QED
  BY <1>5, <1>6, <1>7, <1>8

(* A comparison stores a boolean. *)
LEMMA CompareKeeps ==
  ASSUME Inv, NEW op \in BinaryOps, NEW holds, DoCompare(op, holds)
  PROVE  Kept
<1>1. Opcode(code) # Op.HALT
  BY DEF DoCompare, ReadsOperands, BinaryOps, Op
<1>2. Store(Dest, WrapBoolean(holds))
  BY DEF DoCompare
<1>. QED
  BY <1>1, <1>2, StoreKeeps, WrapBooleanIsValue

(* Every comparison and boolean operation of two operands is one of those. *)
LEMMA ComparisonsKeep ==
  ASSUME Inv,
         \/ DoEq \/ DoNeq \/ DoLt \/ DoLte \/ DoGt \/ DoGte
         \/ DoAnd \/ DoOr \/ DoXor
  PROVE  Kept
<1>1. PICK op \in BinaryOps : \E holds : DoCompare(op, holds)
  <2>1. { Op.EQ, Op.NEQ, Op.LT, Op.LTE, Op.GT, Op.GTE, Op.AND, Op.OR, Op.XOR }
          \subseteq BinaryOps
    BY DEF BinaryOps
  <2>. QED
    BY <2>1 DEF DoEq, DoNeq, DoLt, DoLte, DoGt, DoGte, DoAnd, DoOr, DoXor
<1>. QED
  BY <1>1, CompareKeeps

(* So do the operations that do not read two operands. *)
LEMMA OthersKeep ==
  ASSUME Inv,
         \/ UnreadableOperands \/ DoNot
         \/ DoLoadInt4 \/ DoLoadInt16 \/ DoLoadBool \/ DoNop \/ DoHalt
  PROVE  Kept
<1>1. CASE UnreadableOperands
  BY <1>1, GiveUpKeeps, ReadErrorIsError DEF UnreadableOperands, Inv
<1>2. CASE DoNot
  <2>1. Opcode(code) # Op.HALT
    BY <1>2 DEF DoNot, Op
  <2>2. \/ \E reason \in Errors : GiveUp(reason)
        \/ \E dest, b : Store(dest, WrapBoolean(b))
    BY <1>2, ReadErrorIsError DEF DoNot, Inv
  <2>. QED
    BY <2>1, <2>2, StoreKeeps, GiveUpKeeps, WrapBooleanIsValue
<1>3. CASE DoLoadInt4 \/ DoLoadInt16
  <2>1. Opcode(code) # Op.HALT
    BY <1>3 DEF DoLoadInt4, DoLoadInt16, Op
  <2>2. code \in Seq(UInt8) /\ Len(code) \in {2, 4}
    BY <2>1, ProgramAssumption
    DEF Inv, TypeOK, HaltCode, EncodeInstruction8, Opcode
  <2>3. code[2] \in UInt8
    BY <2>2
  <2>4. CASE DoLoadInt4
    <3>1. DecodeLoadInt4(code)[2] \in Int
      <4>1. code[2] % 16 \in Int
        BY <2>3 DEF UInt8
      <4>. QED
        BY <4>1 DEF DecodeLoadInt4, DecodeInstruction44, ToInt8
    <3>2. Store(DecodeLoadInt4(code)[1], WrapFixnum(DecodeLoadInt4(code)[2]))
      BY <2>4 DEF DoLoadInt4
    <3>. QED
      BY <2>1, <3>1, <3>2, StoreKeeps, WrapFixnumIsValue
  <2>5. CASE DoLoadInt16
    <3>1. DecodeLoadInt16(code)[2] \in Int
      <4>1. Len(code) = 4
        BY <2>1, <2>5, ProgramAssumption
        DEF Inv, TypeOK, HaltCode, EncodeInstruction8, Opcode, DoLoadInt16,
            TwoWordOps
      <4>2. code[3] \in 0 .. 255 /\ code[4] \in 0 .. 255
        BY <2>2, <4>1, FourBytes
      <4>3. \A high, low \in 0 .. 255 : 256 * high + low \in Int
        OBVIOUS
      <4>4. 256 * code[3] + code[4] \in Int
        BY <4>2, <4>3
      <4>. QED
        BY <4>4 DEF DecodeLoadInt16, DecodeInstruction816, ToInt16
    <3>2. Store(DecodeLoadInt16(code)[1], WrapFixnum(DecodeLoadInt16(code)[2]))
      BY <2>5 DEF DoLoadInt16
    <3>. QED
      BY <2>1, <3>1, <3>2, StoreKeeps, WrapFixnumIsValue
  <2>. QED
    BY <1>3, <2>4, <2>5
<1>4. CASE DoLoadBool
  <2>1. Opcode(code) # Op.HALT
    BY <1>4 DEF DoLoadBool, Op
  <2>2. \E dest, b : Store(dest, WrapBoolean(b))
    BY <1>4 DEF DoLoadBool
  <2>. QED
    BY <2>1, <2>2, StoreKeeps, WrapBooleanIsValue
<1>5. CASE DoNop
  <2>1. Opcode(code) # Op.HALT /\ Opcode(code) \notin TwoWordOps
    BY <1>5 DEF DoNop, Op, TwoWordOps
  <2>2. code \in Program
    BY <2>1 DEF Inv, TypeOK, HaltCode, EncodeInstruction8, Opcode
  <2>3. Len(code) = 2
    BY <2>1, <2>2, ProgramAssumption DEF Opcode
  <2>4. Advance(WordCount(code))
    <3>1. WordCount(code) = 1
      BY <2>3 DEF WordCount
    <3>. QED
      BY <1>5, <3>1 DEF DoNop
  <2>5. pc' \in Nat /\ code' \in Program \cup { HaltCode } /\ PcInCode'
    BY <2>1, <2>4, AdvanceStaysInCode DEF Inv
  <2>. QED
    BY <1>5, <2>5 DEF DoNop, Kept, Inv, TypeOK, ValuesWellTagged
<1>6. CASE DoHalt
  BY <1>6 DEF DoHalt, Inv, TypeOK, ValuesWellTagged, PcInCode, Kept, CodeAt
<1>. QED
  BY <1>1, <1>2, <1>3, <1>4, <1>5, <1>6

(* No instruction breaks the invariant. *)
LEMMA ExecuteKeeps ==
  ASSUME Inv, Execute
  PROVE  Kept
  BY ArithmeticKeeps, ComparisonsKeep, OthersKeep DEF Execute

-----------------------------------------------------------------------------
(* The registers start with values, the counter at the first instruction. *)
LEMMA InvInit == Init => Inv
<1>. SUFFICES ASSUME Init PROVE Inv
  OBVIOUS
<1>1. \A i \in 0 .. NumRegisters - 1 : registers[i] \in Value
  BY InitialValuesAssumption DEF Init, Value
<1>2. registers \in [0 .. NumRegisters - 1 -> IntValues]
  BY <1>1 DEF Init, Value
<1>3. ValuesWellTagged
  BY <1>1, <1>2 DEF ValuesWellTagged, Value
<1>4. PcInCode /\ code \in Program \cup { HaltCode }
  BY MachineAssumption DEF Init, PcInCode, CodeAt
<1>. QED
  BY <1>2, <1>3, <1>4 DEF Init, Inv, TypeOK, Errors

(* Neither the host nor the loop of n_evaluator_run adds anything to what    *)
(* the instructions do.                                                     *)
LEMMA InvNext == Inv /\ [Next]_vars => Inv'
<1>. SUFFICES ASSUME Inv, [Next]_vars PROVE Inv'
  OBVIOUS
<1>1. CASE HostStep
  <2>1. Kept
    BY <1>1, ExecuteKeeps DEF HostStep
  <2>2. halted' \in BOOLEAN /\ running' \in BOOLEAN
    BY <1>1 DEF HostStep, Inv, TypeOK
  <2>. QED
    BY <2>1, <2>2 DEF Kept, Inv, TypeOK
<1>2. CASE RunStep
  <2>1. Kept
    BY <1>2, ExecuteKeeps DEF RunStep
  <2>2. halted' \in BOOLEAN /\ running' \in BOOLEAN
    BY <1>2 DEF RunStep, Inv, TypeOK
  <2>. QED
    BY <2>1, <2>2 DEF Kept, Inv, TypeOK
<1>3. CASE RunStarts \/ RunReturns \/ HostClearsError \/ UNCHANGED vars
  <2>1. /\ UNCHANGED << registers, pc, code, halted >>
        /\ error' \in Errors
        /\ running' \in BOOLEAN
    BY <1>3 DEF RunStarts, RunReturns, HostClearsError, vars, Inv, TypeOK, Errors
  <2>. QED
    BY <2>1 DEF Inv, TypeOK, ValuesWellTagged, PcInCode, CodeAt
<1>. QED
  BY <1>1, <1>2, <1>3 DEF Next

(* Whatever instructions well-formed code holds, whatever the registers     *)
(* start with and however the host steps and runs the machine, the counter  *)
(* stays in the code and every register holds a fixnum or a boolean.        *)
THEOREM MachineStaysSane == Spec => [](TypeOK /\ ValuesWellTagged /\ PcInCode)
<1>1. Inv => TypeOK /\ ValuesWellTagged /\ PcInCode
  BY DEF Inv
<1>. QED
  BY InvInit, InvNext, <1>1, PTL DEF Spec

-----------------------------------------------------------------------------
(* The overflow checks raise an overflow when and only when there is one.  *)

(* addition_would_overflow is exact. *)
LEMMA AdditionCheckExact ==
  ASSUME NEW l \in Fixnums, NEW r \in Fixnums
  PROVE  AdditionWouldOverflow(l, r) <=> l + r \notin Fixnums
  BY MachineAssumption DEF Fixnums, AdditionWouldOverflow

(* subtraction_would_overflow is exact, though -r is no fixnum when r is    *)
(* the least one.                                                           *)
LEMMA SubtractionCheckExact ==
  ASSUME NEW l \in Fixnums, NEW r \in Fixnums
  PROVE  SubtractionWouldOverflow(l, r) <=> l - r \notin Fixnums
  BY MachineAssumption
  DEF Fixnums, SubtractionWouldOverflow, AdditionWouldOverflow

(* division_would_overflow is exact: only the least number over -1.         *)
LEMMA DivisionCheckExact ==
  ASSUME NEW l \in Fixnums, NEW r \in Fixnums, r # 0
  PROVE  DivisionWouldOverflow(l, r) <=> Quotient(l, r) \notin Fixnums
<1> DEFINE a == Magnitude(l)
           b == Magnitude(r)
           q == a \div b
<1>1. /\ a \in 0 .. FixnumMax + 1
      /\ b \in 1 .. FixnumMax + 1
      /\ a = FixnumMax + 1 <=> l = FixnumMin
      /\ b = 1 <=> r = 1 \/ r = -1
      /\ l < 0 => a > 0
  BY MachineAssumption DEF Magnitude, Fixnums
<1>2. q \in 0 .. a /\ (a > 0 /\ b > 1 => q < a)
  BY <1>1, DivBounds, MachineAssumption
<1>3. b = 1 => q = a
  BY <1>1, MachineAssumption
<1>4. Quotient(l, r) = IF (l < 0) = (r < 0) THEN q ELSE -q
  BY DEF Quotient
<1>. HIDE DEF a, b, q
<1>5. CASE l = FixnumMin /\ r = -1
  BY <1>1, <1>3, <1>4, <1>5, MachineAssumption DEF DivisionWouldOverflow, Fixnums
<1>6. CASE l = FixnumMin /\ r # -1
  <2>1. CASE r = 1
    BY <1>1, <1>3, <1>4, <1>6, <2>1, MachineAssumption
    DEF DivisionWouldOverflow, Fixnums
  <2>2. CASE r # 1
    BY <1>1, <1>2, <1>4, <1>6, <2>2, MachineAssumption
    DEF DivisionWouldOverflow, Fixnums
  <2>. QED
    BY <2>1, <2>2
<1>7. CASE l # FixnumMin
  BY <1>1, <1>2, <1>4, <1>7, MachineAssumption DEF DivisionWouldOverflow, Fixnums
<1>. QED
  BY <1>5, <1>6, <1>7

(* multiplication_would_overflow is exact but for a positive number times a *)
(* negative one.                                                            *)
LEMMA MultiplicationCheckExact ==
  ASSUME NEW l \in Fixnums, NEW r \in Fixnums, ~(l > 0 /\ r < 0)
  PROVE  MultiplicationWouldOverflow(l, r) <=> l * r \notin Fixnums
<1> DEFINE a == Magnitude(l)
           b == Magnitude(r)
<1>1. l \in Int /\ r \in Int /\ a \in Nat /\ b \in Nat /\ FixnumMax \in Nat
  BY MachineAssumption DEF Magnitude, Fixnums
<1>2. CASE l = 0 \/ r = 0
  <2>1. l * r = 0
    BY <1>1, <1>2
  <2>. QED
    BY <1>2, <2>1, MachineAssumption DEF MultiplicationWouldOverflow, Fixnums
<1>3. CASE l > 0 /\ r > 0
  <2>1. a = l /\ b = r /\ Magnitude(FixnumMax) = FixnumMax
    BY <1>1, <1>3 DEF Magnitude
  <2>2. Quotient(FixnumMax, r) = FixnumMax \div r
    BY <1>1, <1>3, <2>1 DEF Quotient
  <2>3. l > FixnumMax \div r <=> l * r > FixnumMax
    BY <1>1, <1>3, ProductExceeds
  <2>4. l * r > 0 /\ l * r \in Int
    BY <1>1, <1>3
  <2>. QED
    BY <1>1, <1>3, <2>2, <2>3, <2>4, MachineAssumption
    DEF MultiplicationWouldOverflow, Fixnums
<1>4. CASE l < 0 /\ r < 0
  <2>1. a = -l /\ b = -r /\ Magnitude(FixnumMax) = FixnumMax /\ b > 0
    BY <1>1, <1>4 DEF Magnitude
  <2> DEFINE q == FixnumMax \div b
  <2>2. Quotient(FixnumMax, r) = -q /\ q \in Int
    BY <1>1, <1>4, <2>1, DivMod DEF Quotient
  <2>3. a > q <=> a * b > FixnumMax
    BY <1>1, <2>1, ProductExceeds
  <2>4. a * b = l * r /\ l * r > 0 /\ l * r \in Int
    BY <1>1, <1>4, <2>1
  <2>. HIDE DEF q
  <2>5. l < -q <=> a > q
    BY <1>1, <2>1, <2>2
  <2>. QED
    BY <1>1, <1>4, <2>2, <2>3, <2>4, <2>5, MachineAssumption
    DEF MultiplicationWouldOverflow, Fixnums
<1>5. CASE l < 0 /\ r > 0
  <2>1. a = -l /\ b = r /\ Magnitude(FixnumMin) = FixnumMax + 1 /\ b > 0
    BY <1>1, <1>5, MachineAssumption DEF Magnitude
  <2> DEFINE q == (FixnumMax + 1) \div b
  <2>2. Quotient(FixnumMin, r) = -q /\ q \in Int
    BY <1>1, <1>5, <2>1, DivMod, MachineAssumption DEF Quotient
  <2>3. a > q <=> a * b > FixnumMax + 1
    BY <1>1, <2>1, ProductExceeds
  <2>4. a * b = -(l * r) /\ l * r < 0 /\ l * r \in Int
    BY <1>1, <1>5, <2>1
  <2>. HIDE DEF q
  <2>5. l < -q <=> a > q
    BY <1>1, <2>1, <2>2
  <2>. QED
    BY <1>1, <1>5, <2>2, <2>3, <2>4, <2>5, MachineAssumption
    DEF MultiplicationWouldOverflow, Fixnums
<1>. QED
  BY <1>1, <1>2, <1>3, <1>4, <1>5

(* A computing step runs the operation of its opcode. *)
LEMMA ComputesRuns ==
  ASSUME NEW op, Computes(op)
  PROVE  /\ op = Op.ADD => DoAdd
         /\ op = Op.SUB => DoSub
         /\ op = Op.MUL => DoMul
         /\ op = Op.DIV => DoDiv
<1>1. Execute /\ Opcode(code) = op
  BY DEF Computes, Executes, HostStep, RunStep
<1>2. ~UnreadableOperands
  BY DEF Computes, UnreadableOperands, ReadError
<1>. QED
  BY <1>1, <1>2
  DEF Execute, Op, Halts, DoAdd, DoSub, DoMul, DoDiv, DoEq, DoNeq, DoLt, DoLte,
      DoGt, DoGte, DoAnd, DoOr, DoXor, DoCompare, ReadsOperands, DoNot,
      DoLoadInt4, DoLoadInt16, DoLoadBool, DoNop, DoHalt

(* A result that is a fixnum is stored as it is. *)
LEMMA StoreIsExact ==
  ASSUME NEW op, Computes(op), NEW result \in Int,
         \/ result \in Fixnums /\ Store(Dest, WrapFixnum(result))
         \/ result \notin Fixnums /\ \E reason \in Errors \ {"none"} : GiveUp(reason)
  PROVE  ExactOrError(result)
<1>1. error = "none" /\ Addressable(Dest)
  BY DEF Computes, Dest
<1>2. CASE result \in Fixnums /\ Store(Dest, WrapFixnum(result))
  BY <1>1, <1>2, WrapFixnumIsValue DEF Store, ExactOrError
<1>3. CASE result \notin Fixnums /\ \E reason \in Errors \ {"none"} : GiveUp(reason)
  BY <1>3 DEF GiveUp, ExactOrError
<1>. QED
  BY <1>2, <1>3

(* Every ADD, SUB and DIV of two fixnums, and every MUL but a positive one  *)
(* times a negative one, stores the exact result or raises an error and     *)
(* stores nothing, for every width of fixnum.                               *)
THEOREM ArithmeticIsExact == Spec => ArithmeticExact
<1>1. ASSUME Next
      PROVE  ArithmeticStep
  <2> DEFINE l == UnwrapFixnum(Left)
             r == UnwrapFixnum(Right)
  <2>1. \A op : Computes(op) => l \in Fixnums /\ r \in Fixnums
    BY DEF Computes, FixnumIn
  <2>2. Fixnums \subseteq Int
    BY MachineAssumption DEF Fixnums
  <2>20. \A x, y \in Int : x + y \in Int /\ x - y \in Int /\ x * y \in Int
    OBVIOUS
  <2>21. \A op : Computes(op) => l + r \in Int /\ l - r \in Int /\ l * r \in Int
    BY <2>1, <2>2, <2>20
  <2>3. "Overflow" \in Errors \ {"none"} /\ "DivisionByZero" \in Errors \ {"none"}
    BY DEF Errors
  <2>4. ASSUME Computes(Op.ADD)
        PROVE  ExactOrError(l + r)
    <3>1. IF AdditionWouldOverflow(l, r)
          THEN GiveUp("Overflow")
          ELSE Store(Dest, WrapFixnum(l + r))
      BY <2>4, ComputesRuns DEF DoAdd
    <3>. HIDE DEF l, r
    <3>. QED
      BY <2>1, <2>21, <2>3, <2>4, <3>1, AdditionCheckExact, StoreIsExact
  <2>5. ASSUME Computes(Op.SUB)
        PROVE  ExactOrError(l - r)
    <3>1. IF SubtractionWouldOverflow(l, r)
          THEN GiveUp("Overflow")
          ELSE Store(Dest, WrapFixnum(l - r))
      BY <2>5, ComputesRuns DEF DoSub
    <3>. HIDE DEF l, r
    <3>. QED
      BY <2>1, <2>21, <2>3, <2>5, <3>1, SubtractionCheckExact, StoreIsExact
  <2>6. ASSUME Computes(Op.DIV)
        PROVE  ExactOrError(IF r = 0 THEN FixnumMax + 1 ELSE Quotient(l, r))
    <3>1. IF r = 0
          THEN GiveUp("DivisionByZero")
          ELSE IF DivisionWouldOverflow(l, r)
          THEN GiveUp("Overflow")
          ELSE Store(Dest, WrapFixnum(Quotient(l, r)))
      BY <2>6, ComputesRuns DEF DoDiv
    <3>2. CASE r = 0
      <4>1. FixnumMax + 1 \in Int /\ FixnumMax + 1 \notin Fixnums
        BY MachineAssumption DEF Fixnums
      <4>. QED
        BY <2>3, <2>6, <3>1, <3>2, <4>1, StoreIsExact
    <3>3. CASE r # 0
      <4>1. Quotient(l, r) \in Int
        BY <2>1, <2>2, <2>6, <3>3, QuotientIsInt
      <4>. QED
        BY <2>1, <2>3, <2>6, <3>1, <3>3, <4>1, DivisionCheckExact, StoreIsExact
    <3>. QED
      BY <3>2, <3>3
  <2>7. ASSUME Computes(Op.MUL), ~(l > 0 /\ r < 0)
        PROVE  ExactOrError(l * r)
    <3>1. IF MultiplicationWouldOverflow(l, r)
          THEN GiveUp("Overflow")
          ELSE Store(Dest, WrapFixnum(l * r))
      BY <2>7, ComputesRuns DEF DoMul
    <3>. HIDE DEF l, r
    <3>. QED
      BY <2>1, <2>21, <2>3, <2>7, <3>1, MultiplicationCheckExact, StoreIsExact
  <2>. QED
    BY <2>4, <2>5, <2>6, <2>7 DEF ArithmeticStep
<1>2. [Next]_vars => [ArithmeticStep]_vars
  BY <1>1
<1>. QED
  BY <1>2, PTL DEF Spec, ArithmeticExact

(* An operation writes a register or raises an error, never both.           *)
THEOREM FailuresWriteNothing == Spec => FailedStepWritesNothing
<1> DEFINE Failed == Executes /\ error = "none" /\ error' # "none"
<1>1. ASSUME Failed
      PROVE  registers' = registers
  <2>1. ASSUME NEW dest, NEW value, Store(dest, value)
        PROVE  registers' = registers
    BY <1>1, <2>1 DEF Store
  <2>2. ASSUME NEW op, NEW holds, DoCompare(op, holds)
        PROVE  registers' = registers
    BY <2>1, <2>2 DEF DoCompare
  <2>3. CASE DoAdd \/ DoSub \/ DoMul \/ DoDiv
    BY <2>1, <2>3 DEF DoAdd, DoSub, DoMul, DoDiv, GiveUp
  <2>4. CASE DoEq \/ DoNeq \/ DoLt \/ DoLte \/ DoGt \/ DoGte
    BY <2>2, <2>4 DEF DoEq, DoNeq, DoLt, DoLte, DoGt, DoGte
  <2>5. CASE DoAnd \/ DoOr \/ DoXor
    BY <2>2, <2>5 DEF DoAnd, DoOr, DoXor
  <2>6. CASE UnreadableOperands \/ DoNot
    BY <2>1, <2>6 DEF UnreadableOperands, DoNot, GiveUp
  <2>7. CASE DoLoadInt4 \/ DoLoadInt16 \/ DoLoadBool
    BY <2>1, <2>7 DEF DoLoadInt4, DoLoadInt16, DoLoadBool
  <2>8. CASE DoNop \/ DoHalt
    BY <2>8 DEF DoNop, DoHalt
  <2>9. Execute
    BY <1>1 DEF Executes, HostStep, RunStep
  <2>. QED
    BY <2>3, <2>4, <2>5, <2>6, <2>7, <2>8, <2>9 DEF Execute
<1>2. [Next]_vars => [Failed => registers' = registers]_vars
  BY <1>1
<1>. QED
  BY <1>2, PTL DEF Spec, FailedStepWritesNothing

-----------------------------------------------------------------------------
(* A remainder of what is at most one modulus off. *)
LEMMA ModWraps ==
  ASSUME NEW m \in Nat, m > 0, NEW x \in Int
  PROVE  /\ 0 <= x /\ x < m => x % m = x
         /\ -m <= x /\ x < 0 => x % m = x + m
         /\ m <= x /\ x < 2 * m => x % m = x - m
<1>1. 0 <= x /\ x < m => x % m = x
  OBVIOUS
<1>2. -m <= x /\ x < 0 => x % m = x + m
  OBVIOUS
<1>3. m <= x /\ x < 2 * m => x % m = x - m
  OBVIOUS
<1>. QED
  BY <1>1, <1>2, <1>3

(* What the decoder of load_int4 gives back is what its encoder was given,  *)
(* for every destination and immediate that have four bits.                 *)
THEOREM LoadInt4RoundTrip ==
  ASSUME NEW op, NEW dest \in 0 .. 15, NEW arg \in -8 .. 7
  PROVE  DecodeLoadInt4(EncodeLoadInt4(op, dest, arg)) = << dest, arg >>
<1> DEFINE stored == (arg + 8) % 256
           byte   == 16 * (dest % 16) + (stored % 16)
<1>1. stored % 16 = arg + 8 /\ dest % 16 = dest
  OBVIOUS
<1>2. byte \div 16 = dest /\ byte % 16 = arg + 8
  BY <1>1
<1>3. EncodeLoadInt4(op, dest, arg) = << op, byte >>
  BY DEF EncodeLoadInt4, EncodeInstruction44, ToUInt8
<1>4. ToInt8(arg + 8 - 8) = arg
  BY DEF ToInt8
<1>. HIDE DEF byte, stored
<1>5. DecodeInstruction44(<< op, byte >>) = << dest, arg + 8 >>
  BY <1>2 DEF DecodeInstruction44
<1>6. DecodeLoadInt4(<< op, byte >>) = << dest, ToInt8(arg + 8 - 8) >>
  BY <1>5 DEF DecodeLoadInt4
<1>. QED
  BY <1>3, <1>4, <1>6

(* What becomes of operands that have more bits: the 4-4 format keeps the   *)
(* low four of each, so another register is named and another int loaded.   *)
THEOREM LoadInt4Truncates ==
  ASSUME NEW op, NEW dest \in 0 .. 255, NEW arg \in -128 .. 127
  PROVE  DecodeLoadInt4(EncodeLoadInt4(op, dest, arg))
           = << dest % 16, ((arg + 8) % 16) - 8 >>
<1> DEFINE stored == (arg + 8) % 256
           low    == (arg + 8) % 16
           reg    == dest % 16
<1>1. stored % 16 = low
  OBVIOUS
<1>2. low \in 0 .. 15 /\ reg \in 0 .. 15
  OBVIOUS
<1>3. EncodeLoadInt4(op, dest, arg) = << op, 16 * reg + low >>
  BY <1>1 DEF EncodeLoadInt4, EncodeInstruction44, ToUInt8
<1>. HIDE DEF low, reg
<1>4. (16 * reg + low) \div 16 = reg /\ (16 * reg + low) % 16 = low
  BY <1>2
<1>5. DecodeInstruction44(<< op, 16 * reg + low >>) = << reg, low >>
  BY <1>4 DEF DecodeInstruction44
<1>6. ToInt8(low - 8) = low - 8
  BY <1>2 DEF ToInt8
<1>7. DecodeLoadInt4(<< op, 16 * reg + low >>) = << reg, low - 8 >>
  BY <1>5, <1>6 DEF DecodeLoadInt4
<1>. QED
  BY <1>3, <1>7 DEF reg, low

(* The same of load_int16, for every 16-bit immediate: the offset of the    *)
(* encoder may wrap around the unsigned field, and wraps back.              *)
THEOREM LoadInt16RoundTrip ==
  ASSUME NEW op, NEW dest, NEW arg \in Int, -32768 <= arg, arg <= 32767
  PROVE  DecodeLoadInt16(EncodeLoadInt16(op, dest, arg)) = << dest, arg >>
<1> DEFINE stored == (arg + 16384) % 65536
<1>1. stored = IF arg < -16384 THEN arg + 81920 ELSE arg + 16384
  BY ModWraps
<1>2. EncodeLoadInt16(op, dest, arg)
        = << op, dest, stored \div 256, stored % 256 >>
  BY DEF EncodeLoadInt16, EncodeInstruction816, ToUInt16
<1>. HIDE DEF stored
<1>3. ToInt16(stored - 16384) = arg
  BY <1>1, ModWraps DEF ToInt16
<1>4. stored \in Int
  BY <1>1
<1>5. 256 * (stored \div 256) + (stored % 256) = stored
  BY <1>4
<1>6. DecodeInstruction816(EncodeLoadInt16(op, dest, arg)) = << dest, stored >>
  BY <1>2, <1>5 DEF DecodeInstruction816
<1>7. DecodeLoadInt16(EncodeLoadInt16(op, dest, arg))
        = << dest, ToInt16(stored - 16384) >>
  BY <1>6 DEF DecodeLoadInt16
<1>. QED
  BY <1>3, <1>7
-----------------------------------------------------------------------------
(* Why runs end, but for the fairness: the loop of n_evaluator_run stops or *)
(* comes nearer to the end of the code.                                     *)

Progresses == halted' \/ (pc < pc' /\ pc' <= LastPc)

LEMMA AdvanceProgresses ==
  ASSUME Inv, Opcode(code) # Op.HALT, Advance(WordCount(code))
  PROVE  pc < pc'
<1>1. code \in Program /\ pc \in Nat
  BY DEF Inv, TypeOK, HaltCode, EncodeInstruction8, Opcode
<1>2. Len(code) \in {2, 4}
  BY <1>1, ProgramAssumption
<1>3. 2 \div 2 = 1 /\ 4 \div 2 = 2
  OBVIOUS
<1>4. WordCount(code) \in { 1, 2 }
  BY <1>2, <1>3, Zenon DEF WordCount
<1> QED BY <1>1, <1>4 DEF Advance

(* An instruction that gives up leaves an error; so does one before which   *)
(* there was one, as far as it reads operands.                              *)
LEMMA ExecuteProgresses ==
  ASSUME Inv, Execute
  PROVE  pc < pc' \/ Halts \/ error' # "none"
<1>1. CASE DoAdd \/ DoSub \/ DoMul \/ DoDiv
  <2>1. PICK op \in BinaryOps : ReadsOperands(op)
    BY <1>1 DEF DoAdd, DoSub, DoMul, DoDiv, BinaryOps
  <2>2. Opcode(code) # Op.HALT
    BY <2>1 DEF ReadsOperands, BinaryOps, Op
  <2>3. \/ \E reason \in { "Overflow", "DivisionByZero" } : GiveUp(reason)
        \/ \E dest, value : Store(dest, value)
    BY <1>1 DEF DoAdd, DoSub, DoMul, DoDiv
  <2> QED BY <2>2, <2>3, AdvanceProgresses DEF GiveUp, Store
<1>2. CASE \/ DoEq \/ DoNeq \/ DoLt \/ DoLte \/ DoGt \/ DoGte
           \/ DoAnd \/ DoOr \/ DoXor
  <2>1. PICK op \in BinaryOps : \E holds : DoCompare(op, holds)
    <3>1. { Op.EQ, Op.NEQ, Op.LT, Op.LTE, Op.GT, Op.GTE, Op.AND, Op.OR, Op.XOR }
            \subseteq BinaryOps
      BY DEF BinaryOps
    <3> QED
      BY <1>2, <3>1 DEF DoEq, DoNeq, DoLt, DoLte, DoGt, DoGte, DoAnd, DoOr, DoXor
  <2>2. Opcode(code) # Op.HALT
    BY <2>1 DEF DoCompare, ReadsOperands, BinaryOps, Op
  <2> QED BY <2>1, <2>2, AdvanceProgresses DEF DoCompare, Store
<1>3. CASE UnreadableOperands
  BY <1>3 DEF UnreadableOperands, GiveUp
<1>4. CASE DoNot
  <2>1. Opcode(code) # Op.HALT
    BY <1>4 DEF DoNot, Op
  <2> QED BY <1>4, <2>1, AdvanceProgresses DEF DoNot, GiveUp, Store
<1>5. CASE DoLoadInt4 \/ DoLoadInt16 \/ DoLoadBool
  <2>1. Opcode(code) # Op.HALT
    BY <1>5 DEF DoLoadInt4, DoLoadInt16, DoLoadBool, Op
  <2> QED BY <1>5, <2>1, AdvanceProgresses DEF DoLoadInt4, DoLoadInt16, DoLoadBool, Store
<1>6. CASE DoNop
  BY <1>6 DEF DoNop, Advance, Inv, TypeOK
<1>7. CASE DoHalt
  BY <1>7 DEF DoHalt
<1> QED BY <1>1, <1>2, <1>3, <1>4, <1>5, <1>6, <1>7 DEF Execute

(* Whatever the program and the registers: each step of a run sets the      *)
(* halted flag, for a HALT or an error, or moves on in the code; so a run   *)
(* has no more steps than there are words from where it starts.             *)
THEOREM RunsAreBounded == Spec => [][RunStep => Progresses]_vars
<1>1. Inv /\ Inv' /\ RunStep => Progresses
  <2> SUFFICES ASSUME Inv, Inv', RunStep PROVE Progresses
    OBVIOUS
  <2>1. pc < pc' \/ Halts \/ error' # "none"
    BY ExecuteProgresses DEF RunStep
  <2>2. pc' <= LastPc
    BY DEF Inv, PcInCode
  <2> QED BY <2>1, <2>2 DEF RunStep, Progresses
<1>2. Inv /\ Inv' /\ [Next]_vars => [RunStep => Progresses]_vars
  BY <1>1
<1> QED BY <1>2, InvInit, InvNext, PTL DEF Spec
=============================================================================
