---------------------------- MODULE NameRegistry ----------------------------
(***************************************************************************)
(* One name registry of the fourth experiment and its client: any sequence *)
(* of construct, register, find and destruct calls, each allocation of     *)
(* which may fail.  The error registry and the type registry are two       *)
(* instances of this structure (see RuntimeInit).                          *)
(***************************************************************************)
EXTENDS NameTable

CONSTANT InitialSizes   (* the sizes a client asks a construction for *)

ASSUME InitialSizesAssumption == InitialSizes \subseteq Int

VARIABLES
  registry,      (* the NNameRegistry structure                           *)
  live,          (* constructed and not yet destructed                    *)
  initial_size,  (* the size the live registry was constructed with       *)
  status         (* the status of the last call                           *)

vars == << registry, live, initial_size, status >>

Init ==
  /\ registry = ZeroedTable
  /\ live = FALSE
  /\ initial_size = 0
  /\ status = "SUCCESS"

ConstructRegistry(size, mem) ==
  LET result == Construct(registry, size, mem)
  IN  /\ ~live
      /\ registry' = result.table
      /\ status' = result.status
      /\ live' = (result.status = "SUCCESS")
      /\ initial_size' = IF live' THEN size ELSE initial_size

(* Only the memory of the pool is released: the sizes stay as they were. *)
DestructRegistry ==
  /\ live
  /\ live' = FALSE
  /\ UNCHANGED << registry, initial_size, status >>

RegisterNamedObject(name, object, mem) ==
  LET result == Register(registry, name, object, mem)
  IN  /\ live
      /\ registry' = result.table
      /\ status' = result.status
      /\ UNCHANGED << live, initial_size >>

Next ==
  \/ \E size \in InitialSizes, mem \in BOOLEAN : ConstructRegistry(size, mem)
  \/ \E name \in Names \cup BadNames, object \in Objects \cup {NULL},
        mem \in BOOLEAN : RegisterNamedObject(name, object, mem)
  \/ DestructRegistry

Spec == Init /\ [][Next]_vars

-----------------------------------------------------------------------------
(* The structure holds a size and entries, the flags what they should. *)
TypeOK ==
  /\ registry \in Table
  /\ live \in BOOLEAN
  /\ initial_size \in Nat
  /\ status \in Status

(* A live registry never writes an entry beyond its pool: the growth check  *)
(* of register leaves room for the entry it appends.                        *)
PoolInBounds == live => WithinPool(registry)

(* A name is in a live registry once: what find returns does not depend on  *)
(* where the scan starts.                                                   *)
NamesUnique == live => DistinctNames(registry)

(* Growing before the duplicate check costs at most one doubling: calls     *)
(* that are refused as repeated names never push the pool past twice what   *)
(* is registered in it (or past the size it was constructed with).          *)
NoRunawayGrowth ==
  live => \/ registry.pool_size = initial_size
          \/ registry.pool_size <= 2 * Len(registry.pool)

(* The registry as its client sees it: the found names and their objects.  *)
Found == { name \in Names : Find(registry, name) # NULL }

Map == INSTANCE NameMap WITH
  bindings <- [ name \in (IF live THEN Found ELSE {}) |->
                  Find(registry, name) ],
  open <- live,
  answer <- status

(* The registry implements the map: no duplicate is ever accepted, none is  *)
(* refused as one unless the name is bound, and a failed allocation or a    *)
(* bad argument changes nothing a client can see.                           *)
ImplementsNameMap == Map!MapSpec
=============================================================================
