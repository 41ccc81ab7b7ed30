------------------------- MODULE InstructionFormats -------------------------
(***************************************************************************)
(* How the fourth experiment puts an instruction into 16-bit words and     *)
(* takes it out again (common/instructions.c, instruction-formats.c and    *)
(* the two decoder headers).  Encoded instructions are sequences of bytes, *)
(* two to a word: the opcode first, then the operands in the format of     *)
(* that opcode.  Operands are C integers of 8 or 16 bits.                  *)
(***************************************************************************)
EXTENDS Integers, Sequences

UInt8 == 0 .. 255

ToUInt8(x)  == x % 256
ToUInt16(x) == x % 65536
ToInt8(x)   == ((x + 128) % 256) - 128
ToInt16(x)  == ((x + 32768) % 65536) - 32768

EncodeInstruction44(op, arg1, arg2) ==
  << op, 16 * (arg1 % 16) + (arg2 % 16) >>

EncodeInstruction8(op, arg) == << op, arg >>

EncodeInstruction888(op, arg1, arg2, arg3) == << op, arg1, arg2, arg3 >>

(* The 16-bit operand goes in with its high byte first. *)
EncodeInstruction816(op, arg1, arg2) ==
  << op, arg1, arg2 \div 256, arg2 % 256 >>

Opcode(bytes) == bytes[1]

DecodeInstruction44(bytes) == << bytes[2] \div 16, bytes[2] % 16 >>

DecodeInstruction888(bytes) == << bytes[2], bytes[3], bytes[4] >>

DecodeInstruction816(bytes) == << bytes[2], 256 * bytes[3] + bytes[4] >>

(* The immediate operands are stored with an offset that makes them         *)
(* non-negative, computed in the unsigned type of the field.                *)
EncodeLoadInt4(op, dest, arg) ==
  EncodeInstruction44(op, dest, ToUInt8(arg + 8))

EncodeLoadInt16(op, dest, arg) ==
  EncodeInstruction816(op, dest, ToUInt16(arg + 16384))

DecodeLoadInt4(bytes) ==
  << DecodeInstruction44(bytes)[1], ToInt8(DecodeInstruction44(bytes)[2] - 8) >>

DecodeLoadInt16(bytes) ==
  << DecodeInstruction816(bytes)[1],
     ToInt16(DecodeInstruction816(bytes)[2] - 16384) >>

(* Two bytes to a word: what an encoder or a decoder returns, by which the  *)
(* program counter moves.                                                   *)
WordCount(bytes) == Len(bytes) \div 2
=============================================================================
