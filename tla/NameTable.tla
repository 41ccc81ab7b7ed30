----------------------------- MODULE NameTable -----------------------------
(***************************************************************************)
(* The NNameRegistry structure of the fourth experiment                    *)
(* (src/common/name-registry.c) and the functions over it, as pure         *)
(* operators: what a call returns and what it leaves in the structure.     *)
(*                                                                         *)
(* A table is a record [pool_size, pool].  pool holds the entries          *)
(* pool[0] .. pool[num_objects - 1] of the C array, so num_objects is      *)
(* Len(pool); pool_size is the capacity the last malloc or realloc of the  *)
(* array was asked for.  Whether an allocation succeeds is a parameter     *)
(* ("mem") of the calls that allocate.                                     *)
(***************************************************************************)
EXTENDS Integers, Sequences

CONSTANTS
  Names,      (* non-empty names made of valid characters only           *)
  BadNames,   (* NULL, the empty name and names with an invalid character *)
  Objects,    (* the objects a caller registers                          *)
  NULL        (* the null object pointer                                 *)

ASSUME NameTableAssumption ==
  /\ Names \cap BadNames = {}
  /\ NULL \notin Objects

Entry == [name : Names, object : Objects]

Table == [pool_size : Nat, pool : Seq(Entry)]

(* The N_NAMED_REG_* status codes. *)
Status == { "SUCCESS", "INVALID_SIZE", "BAD_ALLOCATION", "INVALID_NAME",
            "REPEATED_NAME", "INVALID_OBJECT" }

(* A registry in zeroed static storage, before it was constructed. *)
ZeroedTable == [pool_size |-> 0, pool |-> << >>]

(* The pool entries that carry the name. *)
Hits(t, name) == { i \in DOMAIN t.pool : t.pool[i].name = name }

(* Slip: a scan that stops before the last entry. *)
FindMissingLast(t, name) ==
  IF Hits(t, name) \ {Len(t.pool)} = {}
  THEN NULL
  ELSE t.pool[CHOOSE i \in Hits(t, name) : TRUE].object

(* The linear scan: the object of the first entry with this name. *)
Find(t, name) ==
  IF Hits(t, name) = {}
  THEN NULL
  ELSE t.pool[CHOOSE i \in Hits(t, name) :
                \A j \in Hits(t, name) : i <= j].object

(* Slip: the size is not looked at. *)
ConstructUnchecked(t, initial_size, mem) ==
  IF ~mem
  THEN [status |-> "BAD_ALLOCATION", table |-> t]
  ELSE [status |-> "SUCCESS",
        table  |-> [pool_size |-> initial_size, pool |-> << >>]]

(* A failed construction leaves the structure alone. *)
Construct(t, initial_size, mem) ==
  IF initial_size <= 0
  THEN [status |-> "INVALID_SIZE", table |-> t]
  ELSE IF ~mem
  THEN [status |-> "BAD_ALLOCATION", table |-> t]
  ELSE [status |-> "SUCCESS",
        table  |-> [pool_size |-> initial_size, pool |-> << >>]]

(* Slip: > for >=. *)
MustGrowLate(t) == Len(t.pool) > t.pool_size

MustGrow(t) == Len(t.pool) >= t.pool_size

(* Slips: growing whether the pool is full or not; malloc for realloc. *)
GrownAlways(t) == [t EXCEPT !.pool_size = 2 * @]

GrownByMalloc(t) ==
  IF MustGrow(t) THEN [pool_size |-> 2 * t.pool_size, pool |-> << >>] ELSE t

(* grow_pool when the pool is full: twice the size, the entries kept. *)
Grown(t) ==
  IF MustGrow(t) THEN [t EXCEPT !.pool_size = 2 * @] ELSE t

(* The pool grows before the name is looked up: a repeated name on a full
   pool is reported only after growing it, and not at all without memory. *)
Register(t, name, object, mem) ==
  IF name \notin Names
  THEN [status |-> "INVALID_NAME", table |-> t]
  ELSE IF object = NULL
  THEN [status |-> "INVALID_OBJECT", table |-> t]
  ELSE IF MustGrow(t) /\ ~mem
  THEN [status |-> "BAD_ALLOCATION", table |-> t]
  ELSE IF Find(Grown(t), name) # NULL
  THEN [status |-> "REPEATED_NAME", table |-> Grown(t)]
  ELSE [status |-> "SUCCESS",
        table  |-> [Grown(t) EXCEPT
                      !.pool = Append(@, [name |-> name, object |-> object])]]

(* No entry lies beyond the memory of the pool. *)
WithinPool(t) == Len(t.pool) <= t.pool_size

(* No two entries carry the same name. *)
DistinctNames(t) ==
  \A i, j \in DOMAIN t.pool : t.pool[i].name = t.pool[j].name => i = j
=============================================================================
