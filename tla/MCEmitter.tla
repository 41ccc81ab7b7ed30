------------------------------ MODULE MCEmitter ------------------------------
(* One program with every kind of constant, with a text longer than the     *)
(* buffer of a file, one with every layout of an instruction, and one so    *)
(* short that there is room for a second emission to the same stream.  A    *)
(* buffer of 40 bytes refuses the text and has room for what follows it;    *)
(* one of 16 cannot hold the header; a file's takes it in flushes.          *)
(*                                                                          *)
(* For a client that writes its own bytes there are buffers of two and      *)
(* three bytes, or of one where it brings its own buffer; writes from none  *)
(* to four bytes, so that some fit only after a flush and some never do;    *)
(* bytes to fill the buffer of three twice; and two failures, so that a     *)
(* repeated flush can fail again.                                           *)
EXTENDS Emitter

Constants ==
  << [kind |-> "int32", length |-> 0], [kind |-> "string", length |-> 18],
     [kind |-> "procedure", length |-> 0], [kind |-> "double", length |-> 0],
     [kind |-> "character", length |-> 1] >>

MCPrograms ==
  { [constants |-> Constants, code |-> << "jump", "return" >>],
    [constants |-> << Constants[3] >>,
     code |-> << "global_set", "move_in", "add", "move_out", "return" >>],
    [constants |-> << >>, code |-> << "return" >>] }

MCSizes == { 1, 3, 16, 40 }
MCLengths == { 0, 1, 2, 4 }
=============================================================================
