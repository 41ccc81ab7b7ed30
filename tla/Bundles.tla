------------------------------- MODULE Bundles -------------------------------
(***************************************************************************)
(* The bundles of the second experiment (src/objects/bundles.c over         *)
(* src/util/array.h): a record that is filled while it is open and read     *)
(* once it is closed.  The arrays come from malloc and are not initialised: *)
(* they hold what the memory held before.  Stacks and registers full of     *)
(* values are freed as well, so that may be symbols.                        *)
(***************************************************************************)
EXTENDS Integers, Sequences

CONSTANTS
  Symbols,      (* the NValues that are symbols                            *)
  Values,       (* the NValues a client stores                             *)
  Undefined,    (* N_UNDEFINED                                             *)
  NoSymbol,     (* no NValue                                               *)
  Garbage,      (* the NValues that memory which was never written holds   *)
  Sizes         (* the sizes clients ask for, in uint16_t                  *)

VARIABLES
  created,      (* the client holds a bundle                               *)
  closed, next_slot, slots, mapper,
  error,        (* the code of the client's NError                         *)
  answer,       (* what the last call of n_bundle_get returned             *)
  asked,        (* history: for which symbol, if it reported no error      *)
  record        (* history: what was set and reported no error             *)

vars == << created, closed, next_slot, slots, mapper, error, answer, asked,
           record >>

Empty == [symbol \in Symbols |-> Undefined]

Init ==
  /\ created = FALSE /\ closed = FALSE /\ next_slot = 0
  /\ slots = << >> /\ mapper = << >>
  /\ error = "OK" /\ answer = Undefined
  /\ asked = NoSymbol /\ record = Empty

(* n_bundle_new: three allocations; the client keeps no bundle it had. *)
New ==
  \E size \in Sizes :
    /\ closed' = FALSE /\ next_slot' = 0
    /\ asked' = NoSymbol /\ record' = Empty
    /\ \/ /\ size > 0
          /\ created' = TRUE /\ error' = "OK"
          /\ slots' \in [1 .. size -> Garbage]
          /\ mapper' \in [1 .. size -> Garbage]
       \/ /\ created' = FALSE
          /\ error' = IF size = 0 THEN "INVALID_ARGUMENT" ELSE "BAD_ALLOCATION"
          /\ slots' = << >> /\ mapper' = << >>
    /\ UNCHANGED answer

(* n_bundle_close *)
Close ==
  /\ created
  /\ closed' = TRUE
  /\ UNCHANGED << created, next_slot, slots, mapper, error, answer, asked, record >>

(* The loop of _find_slot looks at every slot, written or not. *)
Places(symbol) == { i \in 1 .. Len(slots) : mapper[i] = symbol }

First(places) == CHOOSE i \in places : \A j \in places : i <= j

(* n_bundle_get *)
Get(symbol) ==
  /\ created
  /\ \/ /\ ~closed
        /\ error' = "INVALID_STATE" /\ answer' = Undefined /\ asked' = NoSymbol
     \/ /\ closed
        /\ error' = "OK" /\ asked' = symbol
        /\ answer' = IF Places(symbol) = { } THEN Undefined
                     ELSE slots[First(Places(symbol))]
  /\ UNCHANGED << created, closed, next_slot, slots, mapper, record >>

(* Both arrays are written at the slot, which a symbol that was found keeps.*)
Store(slot, symbol, value) ==
  /\ slots' = [slots EXCEPT ![slot] = value]
  /\ mapper' = [mapper EXCEPT ![slot] = symbol]
  /\ record' = [record EXCEPT ![symbol] = value]
  /\ error' = "OK"

(* n_bundle_set *)
Set(symbol, value) ==
  /\ created
  /\ asked' = NoSymbol
  /\ \/ /\ ~closed /\ Places(symbol) # { }
        /\ Store(First(Places(symbol)), symbol, value)
        /\ UNCHANGED next_slot
     \/ /\ ~closed /\ Places(symbol) = { } /\ next_slot < Len(slots)
        /\ Store(next_slot + 1, symbol, value)
        /\ next_slot' = next_slot + 1
     \/ /\ closed \/ (Places(symbol) = { } /\ next_slot >= Len(slots))
        /\ error' = "INVALID_STATE"
        /\ UNCHANGED << next_slot, slots, mapper, record >>
  /\ UNCHANGED << created, closed, answer >>

Next ==
  \/ New
  \/ Close
  \/ \E symbol \in Symbols : Get(symbol)
  \/ \E symbol \in Symbols, value \in Values : Set(symbol, value)

Spec == Init /\ [][Next]_vars

-----------------------------------------------------------------------------
(* A closed bundle is the record that was set: a symbol has the value that  *)
(* was set for it last, and N_UNDEFINED if none was.                        *)
ReadsRecord == asked # NoSymbol => answer = record[asked]

(* What the tests of the repository expect of it: a value that was set is   *)
(* what is got.  But the search looks at slots nobody wrote: the symbol may *)
(* be found where the next one is going to be put, and be lost.             *)
GetsWhatWasSet ==
  asked # NoSymbol /\ record[asked] # Undefined => answer = record[asked]
=============================================================================
