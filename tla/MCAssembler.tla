----------------------------- MODULE MCAssembler -----------------------------
(* Integers of 1, 2 and 4 bits for 8, 16 and 32: literals that fit all of   *)
(* them, only the wider ones, none of the unsigned ones, or wrap to fit.    *)
(* The count of the constants goes round at the fourth.  Two labels, one of *)
(* them in two spellings.                                                   *)
EXTENDS Assembler

MCLiterals == { -1, 0, 2, 4, 16 }
MCFold == [n \in Names |-> IF n = "Loop" THEN "loop" ELSE n]
=============================================================================
