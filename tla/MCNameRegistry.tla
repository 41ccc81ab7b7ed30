--------------------------- MODULE MCNameRegistry ---------------------------
(* Three names over two objects: enough to double a pool of one twice and a *)
(* pool of two once, and to repeat a name on a pool that is full.           *)
EXTENDS NameRegistry

MCInitialSizes == -1 .. 2
=============================================================================
