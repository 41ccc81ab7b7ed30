-------------------------- MODULE InstructionWords --------------------------
(***************************************************************************)
(* The instruction words of the second experiment (instruction.c): four    *)
(* bytes, the opcode and three operands, or the four operands of a word    *)
(* that follows a call.  A word is the sequence of its bytes, the highest  *)
(* first: base.opcode and extra.arg1 of the union are the same byte.       *)
(***************************************************************************)
EXTENDS Integers, Sequences

Byte  == 0 .. 255
Short == 0 .. 65535
Int24 == { n \in Int : -8388608 <= n /\ n <= 8388607 }
Int16 == { n \in Int : -32768 <= n /\ n <= 32767 }

N_OP == [ bundle_close |-> 0, bundle_get |-> 1, bundle_set |-> 2, call |-> 3,
          call_sva |-> 4, global_ref |-> 5, global_set |-> 6, jump |-> 7,
          jump_if |-> 8, jump_unless |-> 9, load |-> 10, new_bundle |-> 11,
          return |-> 12 ]

(* What the operands can hold: a call is followed by words naming its       *)
(* arguments, four in each.                                                 *)
Instructions ==
  [ op : { "bundle_close" }, bundle : Byte ]
  \cup [ op : { "bundle_get" }, dest : Byte, bundle : Byte, symbol : Byte ]
  \cup [ op : { "bundle_set" }, bundle : Byte, symbol : Byte, value : Byte ]
  \cup [ op : { "call" }, dest : Byte, func : Byte, nargs : Byte ]
  \cup [ op : { "call_sva" }, dest : Byte, func : Byte, arg : Byte ]
  \cup [ op : { "global_ref" }, dest : Byte, source : Short ]
  \cup [ op : { "global_set" }, dest : Short, source : Byte ]
  \cup [ op : { "jump" }, offset : Int24 ]
  \cup [ op : { "jump_if" }, cond : Byte, offset : Int16 ]
  \cup [ op : { "jump_unless" }, cond : Byte, offset : Int16 ]
  \cup [ op : { "load" }, dest : Byte, string : Byte ]
  \cup [ op : { "new_bundle" }, dest : Byte, size : Short ]
  \cup [ op : { "return" }, source : Byte ]

-----------------------------------------------------------------------------
(* Numbers in bytes, in two's complement.                                  *)

Upper(whole) == whole \div 256
Lower(whole) == whole % 256

Pack(upper, lower) == upper * 256 + lower

AsInt16(whole) == IF whole >= 32768 THEN whole - 65536 ELSE whole

(* An offset that does not fit is not refused: it becomes the nearest one. *)
Clamped(offset) ==
  IF offset > 8388607 THEN 8388607
  ELSE IF offset < -8388608 THEN -8388608
  ELSE offset

Word(opcode, arg1, arg2, arg3) == << opcode, arg1, arg2, arg3 >>

EncodeJump(offset) ==
  LET bits == Clamped(offset) % 16777216
  IN  Word(N_OP.jump, bits \div 65536, (bits \div 256) % 256, bits % 256)

(* The sign is not carried into the upper byte of the result. *)
DecodeJumpUnsigned(word) ==
  [ op |-> "jump", offset |-> word[2] * 65536 + word[3] * 256 + word[4] ]

DecodeJump(word) ==
  LET bits == word[2] * 65536 + word[3] * 256 + word[4]
  IN  [ op     |-> "jump",
        offset |-> IF bits >= 8388608 THEN bits - 16777216 ELSE bits ]

-----------------------------------------------------------------------------
(* n_op_*, and n_pack_op_arguments for the words after a call.  A word with *)
(* any other opcode is set as it is.                                        *)
Encode(i) ==
  CASE i.op = "bundle_close" -> Word(N_OP.bundle_close, i.bundle, 0, 0)
    [] i.op = "bundle_get" -> Word(N_OP.bundle_get, i.dest, i.bundle, i.symbol)
    [] i.op = "bundle_set" -> Word(N_OP.bundle_set, i.bundle, i.symbol, i.value)
    [] i.op = "call" -> Word(N_OP.call, i.dest, i.func, i.nargs)
    [] i.op = "call_sva" -> Word(N_OP.call_sva, i.dest, i.func, i.arg)
    [] i.op = "global_ref" ->
         Word(N_OP.global_ref, i.dest, Upper(i.source), Lower(i.source))
    [] i.op = "global_set" ->
         Word(N_OP.global_set, Upper(i.dest), Lower(i.dest), i.source)
    [] i.op = "jump" -> EncodeJump(i.offset)
    [] i.op = "jump_if" ->
         Word(N_OP.jump_if, i.cond, Upper(i.offset % 65536), Lower(i.offset % 65536))
    [] i.op = "jump_unless" ->
         Word(N_OP.jump_unless, i.cond, Upper(i.offset % 65536),
              Lower(i.offset % 65536))
    [] i.op = "load" -> Word(N_OP.load, i.dest, i.string, 0)
    [] i.op = "new_bundle" ->
         Word(N_OP.new_bundle, i.dest, Upper(i.size), Lower(i.size))
    [] i.op = "return" -> Word(N_OP.return, i.source, 0, 0)
    [] i.op = "arguments" -> i.args
    [] i.op = "unknown" -> Word(i.opcode, 0, 0, 0)

(* n_decode_*, for the opcodes _step looks for. *)
Decode(word) ==
  CASE word[1] = N_OP.bundle_close -> [ op |-> "bundle_close", bundle |-> word[2] ]
    [] word[1] = N_OP.bundle_get ->
         [ op |-> "bundle_get", dest |-> word[2], bundle |-> word[3], symbol |-> word[4] ]
    [] word[1] = N_OP.bundle_set ->
         [ op |-> "bundle_set", bundle |-> word[2], symbol |-> word[3], value |-> word[4] ]
    [] word[1] = N_OP.call ->
         [ op |-> "call", dest |-> word[2], func |-> word[3], nargs |-> word[4] ]
    [] word[1] = N_OP.call_sva ->
         [ op |-> "call_sva", dest |-> word[2], func |-> word[3], arg |-> word[4] ]
    [] word[1] = N_OP.global_ref ->
         [ op |-> "global_ref", dest |-> word[2], source |-> Pack(word[3], word[4]) ]
    [] word[1] = N_OP.global_set ->
         [ op |-> "global_set", dest |-> Pack(word[2], word[3]), source |-> word[4] ]
    [] word[1] = N_OP.jump -> DecodeJump(word)
    [] word[1] = N_OP.jump_if ->
         [ op |-> "jump_if", cond |-> word[2], offset |-> AsInt16(Pack(word[3], word[4])) ]
    [] word[1] = N_OP.jump_unless ->
         [ op |-> "jump_unless", cond |-> word[2],
           offset |-> AsInt16(Pack(word[3], word[4])) ]
    [] word[1] = N_OP.load -> [ op |-> "load", dest |-> word[2], string |-> word[3] ]
    [] word[1] = N_OP.new_bundle ->
         [ op |-> "new_bundle", dest |-> word[2], size |-> Pack(word[3], word[4]) ]
    [] word[1] = N_OP.return -> [ op |-> "return", source |-> word[2] ]
    [] OTHER -> [ op |-> "unknown" ]
=============================================================================
