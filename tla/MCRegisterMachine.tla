-------------------------- MODULE MCRegisterMachine --------------------------
(* Fixnums of six bits in an int of ten: the product of two fixnums can     *)
(* exceed the int, and a wrapped fixnum keeps two bits more than a fixnum   *)
(* has, as with the 17 and 32 bits of the code.  Two registers start with   *)
(* every pair of boundary numbers and booleans; operand 2 is no register;   *)
(* programs have up to three instructions in four words before their HALT.  *)
EXTENDS RegisterMachine

MCFixnumMin == -32

MCInitialValues ==
  { 4 * n : n \in { FixnumMin, -1, 0, 2, FixnumMax } }
    \cup { TRUE_VALUE, FALSE_VALUE }

BinaryOps == { Op.ADD, Op.SUB, Op.MUL, Op.DIV, Op.EQ, Op.NEQ, Op.LT, Op.LTE,
               Op.GT, Op.GTE, Op.AND, Op.OR, Op.XOR }

MCProgram ==
  { EncodeInstruction888(op, 0, arg, 1) : op \in BinaryOps, arg \in {0, 2} }
    \cup { EncodeInstruction888(op, 2, 1, 0) : op \in {Op.SUB, Op.DIV} }
    \cup { EncodeInstruction888(Op.MUL, 1, 1, 2) }
    \cup { EncodeInstruction44(Op.NOT, 0, arg) : arg \in {0, 2} }
    \cup { EncodeLoadInt4(Op.LOAD_INT4, dest, -8) : dest \in {0, 2} }
    \cup { EncodeLoadInt16(Op.LOAD_INT16, 1, arg) : arg \in {-32, 31} }
    \cup { EncodeInstruction44(Op.LOAD_BOOL, 1, 1) }
    \cup { EncodeInstruction8(Op.NOP, 0), HaltCode,
           EncodeInstruction8(13, 0) }
=============================================================================
