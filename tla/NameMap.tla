------------------------------ MODULE NameMap ------------------------------
(***************************************************************************)
(* What a name registry promises its client, with no pool, no capacity and *)
(* no order of entries: a partial function from names to objects that only *)
(* grows while it is open.  A call to bind a name answers "SUCCESS" when   *)
(* and only when it added the binding, and "REPEATED_NAME" only for a name *)
(* that is bound; every other answer leaves the map alone.                 *)
(***************************************************************************)
CONSTANTS Names, Objects

VARIABLES
  bindings,   (* a function from the bound names to their objects *)
  open,       (* between construction and destruction             *)
  answer      (* what the last call answered                      *)

Failures == { "INVALID_SIZE", "BAD_ALLOCATION", "INVALID_NAME",
              "INVALID_OBJECT" }

mapVars == << bindings, open, answer >>

MapInit ==
  /\ bindings = << >>
  /\ open = FALSE
  /\ answer = "SUCCESS"

Open ==
  /\ ~open
  /\ open' = TRUE
  /\ bindings' = << >>
  /\ answer' = "SUCCESS"

Close ==
  /\ open
  /\ open' = FALSE
  /\ bindings' = << >>
  /\ UNCHANGED answer

Bind(name, object) ==
  /\ open
  /\ name \notin DOMAIN bindings
  /\ bindings' = [ n \in DOMAIN bindings \cup {name} |->
                     IF n = name THEN object ELSE bindings[n] ]
  /\ answer' = "SUCCESS"
  /\ UNCHANGED open

Refuse(name) ==
  /\ open
  /\ name \in DOMAIN bindings
  /\ answer' = "REPEATED_NAME"
  /\ UNCHANGED << bindings, open >>

(* Out of memory, or a call with an argument that is not acceptable. *)
Fail ==
  /\ answer' \in Failures
  /\ UNCHANGED << bindings, open >>

MapNext ==
  \/ Open
  \/ Close
  \/ \E name \in Names, object \in Objects : Bind(name, object)
  \/ \E name \in Names : Refuse(name)
  \/ Fail

MapSpec == MapInit /\ [][MapNext]_mapVars
=============================================================================
