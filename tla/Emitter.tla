------------------------------- MODULE Emitter -------------------------------
(***************************************************************************)
(* The emitter of the third experiment (src/asm/emitter.c): a client makes *)
(* a stream, ni_emit_program writes a program to it, piece after piece,    *)
(* until all is written or a piece is refused, and the client closes the   *)
(* stream, or tries again.  A client may also write bytes of its own; one  *)
(* that does emits no program.  Of a program only what decides how much is *)
(* written is kept: kinds of constants, lengths of texts, opcodes.         *)
(***************************************************************************)
EXTENDS OutputStream

CONSTANTS
  Programs,        (* [constants, code]: the programs to emit              *)
  MaxOwn           (* bound: the bytes a client writes itself              *)

Kinds == { "string", "character", "double", "int32", "procedure" }

Opcodes ==
  { "move_in", "move_out", "global_ref", "global_set", "const_ref", "jump",
    "jump_if", "eq", "lt", "le", "gt", "ge", "add", "sub", "mul", "div", "or",
    "and", "not", "load_bool", "return" }

ASSUME EmitterAssumption ==
  /\ MaxOwn \in Nat
  /\ \A program \in Programs :
       /\ program.constants \in Seq([kind : Kinds, length : Nat])
       /\ program.code \in Seq(Opcodes)

VARIABLES
  pieces,     (* the sizes of what is still to be written: a sequence for  *)
              (* the header, each constant and each instruction            *)
  emission,   (* "none", "going_on", "emitted" or "refused"                *)
  emitted,    (* history: the program of the last emission                 *)
  base,       (* history: what had been offered to the stream before it,   *)
  from        (* and accepted                                              *)

emission_vars == << pieces, emission, emitted, base, from >>
emitter_vars == << vars, emission_vars >>

-----------------------------------------------------------------------------
(* What is written, as the sizes of the calls of ni_ostream_write_*. *)

(* emit_magic_number, emit_impl_flags and emit_headers *)
HeaderPieces == << 8, 8, 2, 2, 4, 4 >>

(* emit_constant *)
ConstantPieces(constant) ==
  CASE constant.kind \in { "string", "character" } -> << 1, 2, constant.length >>
    [] constant.kind = "double" -> << 1, 8 >>
    [] constant.kind = "int32" -> << 1, 4 >>
    [] OTHER -> << 1, 4, 2 >>

(* emit_instruction: opcode and operands, of which those of a global_set   *)
(* take a byte more than all others.                                        *)
InstructionPieces(opcode) ==
  CASE opcode = "jump" -> << 1, 3 >>
    [] opcode \in { "move_out", "return" } -> << 1, 2, 1 >>
    [] opcode = "global_set" -> << 1, 2, 2 >>
    [] opcode \in { "move_in", "global_ref", "const_ref", "jump_if", "not",
                    "load_bool" } -> << 1, 1, 2 >>
    [] OTHER -> << 1, 1, 1, 1 >>

(* emit_constants_segment and emit_code_segment *)
ProgramPieces(program) ==
  << HeaderPieces >>
    \o [i \in 1 .. Len(program.constants) |-> ConstantPieces(program.constants[i])]
    \o [i \in 1 .. Len(program.code) |-> InstructionPieces(program.code[i])]

Total(sizes) ==
  LET sum[i \in 0 .. Len(sizes)] == IF i = 0 THEN 0 ELSE sum[i - 1] + sizes[i]
  IN  sum[Len(sizes)]

(* Of sequences of sizes *)
GroupTotal(groups) == Total([i \in 1 .. Len(groups) |-> Total(groups[i])])

(* compute_constant_size: without the type, and without texts *)
ConstantSize(constant) ==
  CASE constant.kind = "double" -> 8
    [] constant.kind = "int32" -> 4
    [] constant.kind = "procedure" -> 6
    [] OTHER -> 0

(* compute_constants_segment_size *)
ConstantsSize(program) ==
  Total([i \in 1 .. Len(program.constants) |-> ConstantSize(program.constants[i])])

(* The size of the code that emit_headers writes. *)
CodeSize(program) == 4 * Len(program.code)

-----------------------------------------------------------------------------
EmitterInit ==
  /\ Init
  /\ pieces = << >> /\ emission = "none"
  /\ emitted = [constants |-> << >>, code |-> << >>]
  /\ base = 0 /\ from = 0

(* Slip: an error from before is not reset. *)
BeginUnreset ==
  \E program \in Programs :
    /\ created /\ pieces = << >>
    /\ emission = "none" => offered = 0
    /\ offered + GroupTotal(ProgramPieces(program)) <= MaxBytes
    /\ pieces' = ProgramPieces(program)
    /\ emission' = "going_on" /\ emitted' = program
    /\ base' = offered /\ from' = Len(accepted)
    /\ UNCHANGED vars

(* ni_emit_program is called. *)
Begin ==
  \E program \in Programs :
    /\ created /\ pieces = << >>
    /\ emission = "none" => offered = 0
    /\ offered + GroupTotal(ProgramPieces(program)) <= MaxBytes
    /\ error' = "Ok"
    /\ pieces' = ProgramPieces(program)
    /\ emission' = "going_on" /\ emitted' = program
    /\ base' = offered /\ from' = Len(accepted)
    /\ UNCHANGED << created, size, buffer, file, disk, offered, accepted,
                    failures >>

Piece == Head(Head(pieces))

(* What is left after it. *)
Rest ==
  IF Len(Head(pieces)) = 1 THEN Tail(pieces)
  ELSE << Tail(Head(pieces)) >> \o Tail(pieces)

(* Slip: RETURN_ON_ERROR is missing after the bytes of a text. *)
EmitPieceUnchecked ==
  /\ pieces # << >>
  /\ Write(Piece)
  /\ offered' = offered + Piece
  /\ pieces' = IF error' # "Ok" /\ Piece <= 8 THEN << >> ELSE Rest
  /\ emission' = IF error' # "Ok" /\ Piece <= 8 THEN "refused"
                 ELSE IF Rest = << >> THEN "emitted" ELSE "going_on"
  /\ UNCHANGED << created, size, file, emitted, base, from >>

(* One ni_ostream_write_* and its RETURN_ON_ERROR, in whichever function:   *)
(* each returns at once, and so do its callers.                             *)
EmitPiece ==
  /\ pieces # << >>
  /\ Write(Piece)
  /\ offered' = offered + Piece
  /\ \/ /\ error' # "Ok" /\ pieces' = << >> /\ emission' = "refused"
     \/ /\ error' = "Ok" /\ pieces' = Rest
        /\ emission' = IF Rest = << >> THEN "emitted" ELSE "going_on"
  /\ UNCHANGED << created, size, file, emitted, base, from >>

(* What the client does with the stream before and after. *)
Client ==
  /\ pieces = << >>
  /\ NewOnBuffer \/ NewMemory \/ NewFile \/ Flush \/ Close \/ ClientResetsError
  /\ UNCHANGED emission_vars

(* The client calls ni_ostream_write_* itself. *)
OwnWrite ==
  /\ emission = "none"
  /\ WriteData
  /\ offered' <= MaxOwn
  /\ UNCHANGED emission_vars

EmitterNext == Begin \/ EmitPiece \/ Client \/ OwnWrite

EmitterSpec == EmitterInit /\ [][EmitterNext]_emitter_vars

-----------------------------------------------------------------------------
(* While a program is written there is no error. *)
EmitterTypeOK ==
  /\ TypeOK
  /\ pieces \in Seq(Seq(Nat) \ { << >> })
  /\ emission \in { "none", "going_on", "emitted", "refused" }
  /\ emission = "going_on" <=> pieces # << >>
  /\ emission = "going_on" => created /\ error = "Ok"
  /\ base \in 0 .. offered /\ from \in 0 .. Len(accepted)

(* The bytes of the last emission that the stream has taken. *)
Taken == Len(accepted) - from

(* Where a piece is refused the stream is not written to any more, also if  *)
(* a smaller piece would fit: what it has accepted is the beginning of the  *)
(* program, without a gap, and all of it unless the emission was refused.   *)
AcceptedIsPrefix ==
  emission # "none" =>
    /\ \A i \in 1 .. Taken : accepted[from + i] = base + i
    /\ emission # "refused" => base + Taken = offered

(* The bytes that are written for the constants and for the code. *)
ConstantsBytes(program) ==
  GroupTotal([i \in 1 .. Len(program.constants) |-> ConstantPieces(program.constants[i])])

CodeBytes(program) ==
  GroupTotal([i \in 1 .. Len(program.code) |-> InstructionPieces(program.code[i])])

(* The header holds the size of the constants description segment in bytes, *)
(* which has the type and the data of every constant (docs/binary-format):  *)
(* in what was emitted, the code begins that far behind the header.  The    *)
(* code breaks this for every constant.                                     *)
CodeWhereAnnounced ==
  emission = "emitted" => Taken - CodeBytes(emitted) = 28 + ConstantsSize(emitted)
=============================================================================
