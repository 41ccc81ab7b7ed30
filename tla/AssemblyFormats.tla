--------------------------- MODULE AssemblyFormats ---------------------------
(* What follows the keywords and opcodes of an assembly file, as the        *)
(* functions of src/asm/reader.c expect it.                                 *)

(* ni_read_instruction and ni_read_*_instruction *)
InstructionOperands ==
  [eq |-> << "reg8", "reg8", "reg8" >>,  ge |-> << "reg8", "reg8", "reg8" >>,
   gt |-> << "reg8", "reg8", "reg8" >>,  le |-> << "reg8", "reg8", "reg8" >>,
   lt |-> << "reg8", "reg8", "reg8" >>,  add |-> << "reg8", "reg8", "reg8" >>,
   div |-> << "reg8", "reg8", "reg8" >>, mul |-> << "reg8", "reg8", "reg8" >>,
   sub |-> << "reg8", "reg8", "reg8" >>, and |-> << "reg8", "reg8", "reg8" >>,
   or |-> << "reg8", "reg8", "reg8" >>,
   move_in |-> << "reg8", "reg16" >>,    move_out |-> << "reg16", "reg8" >>,
   global_ref |-> << "reg8", "reg16" >>, global_set |-> << "reg16", "reg8" >>,
   const_ref |-> << "reg8", "reg16" >>,  not |-> << "reg8", "reg16" >>,
   load_bool |-> << "reg8", "bool" >>,   return |-> << "reg16" >>,
   jump |-> << "label" >>,               jump_if |-> << "reg8", "label" >>]

(* ni_read_*_constant *)
ConstantOperands ==
  [string |-> << "string" >>, character |-> << "string" >>,
   double |-> << "double" >>, int32 |-> << "int32" >>,
   procedure |-> << "label", "u16" >>]

(* ni_read_version, ni_read_entry_point and ni_read_globals_count *)
HeaderOperands ==
  [version |-> << "u8", "u8", "u8" >>, entry_point |-> << "u16" >>,
   globals_count |-> << "u16" >>]
=============================================================================
