---------------------------- MODULE RuntimeInit ----------------------------
(***************************************************************************)
(* Start-up of the fourth experiment: the two global name registries       *)
(* (error types and value types), the four init functions that fill them,  *)
(* each calling the ones below it, and host code that registers its own    *)
(* error types and types in between.  Any allocation may fail in any call, *)
(* and any init function may be called in any order, again and again.      *)
(*                                                                         *)
(* Sources: common/errors.c, eval/types.c, eval/values.c, eval/evaluator.c *)
(***************************************************************************)
EXTENDS NameTable

CONSTANTS
  ErrorPoolSize,   (* N_ERROR_REGISTRY_INITIAL_SIZE                       *)
  TypePoolSize,    (* N_TYPE_REGISTRY_INITIAL_SIZE                        *)
  HostErrors,      (* names of the error types host code registers        *)
  HostTypes        (* names of the types host code registers              *)

CoreErrors == << "nuvm.BadAllocation", "nuvm.IllegalArgument",
                 "nuvm.error.InvalidName", "nuvm.error.RepeatedName",
                 "nuvm.error.UnknownErrorType" >>

TypeErrors == << "nuvm.types.InvalidName", "nuvm.types.RepeatedName",
                 "nuvm.types.UnknownType" >>

ValueTypes == << "nuvm.Fixnum", "nuvm.Boolean", "nuvm.Unknown" >>

EvaluatorErrors == << "nuvm.evaluator.IndexOutOfBounds",
                      "nuvm.math.Overflow", "nuvm.math.DivisionByZero" >>

NamesOf(seq) == { seq[i] : i \in DOMAIN seq }

RuntimeNames == NamesOf(CoreErrors) \cup NamesOf(TypeErrors)
                  \cup NamesOf(ValueTypes) \cup NamesOf(EvaluatorErrors)

(* All names of the runtime are valid, and name objects of its own. *)
ASSUME RuntimeAssumption ==
  /\ ErrorPoolSize \in Nat \ {0}
  /\ TypePoolSize \in Nat \ {0}
  /\ RuntimeNames \cup HostErrors \cup HostTypes \subseteq Names
  /\ RuntimeNames \cup {"host"} \subseteq Objects

Calls == { "errors", "types", "values", "evaluator" }

VARIABLES
  rt,     (* the registries and their INITIALIZED flags                    *)
  last,   (* the last call and the value it returned                       *)
  done    (* the init functions that have returned success at some time    *)

vars == << rt, last, done >>

(* The places where memory is asked for: the malloc of a pool, written as a *)
(* growth from -1, and its realloc from each size it can be full at.        *)
Sites ==
  ({"errors"} \X {-1, ErrorPoolSize, 2 * ErrorPoolSize})
    \cup ({"types"} \X {-1, 0, TypePoolSize, 2 * TypePoolSize})

(* Which of them fail during one call: no more than one and the malloc of   *)
(* the type pool, since every other failure ends the call.                  *)
FailingSites ==
  { one \cup pool : one \in { {} } \cup { {site} : site \in Sites },
                    pool \in SUBSET { << "types", -1 >> } }

(* The next registration of a series, after what the ones before it left.   *)
RegisterNext(kind, before, name, failing) ==
  Register(before.table, name, name,
           << kind, before.table.pool_size >> \notin failing)

(* A registration of a series and the place of the series it has, which is  *)
(* that of the first failure if it is refused.                              *)
RegisterAt(kind, before, names, i, failing) ==
  LET r == RegisterNext(kind, before, names[i], failing)
  IN  [table |-> r.table, failed |-> IF r.status = "SUCCESS" THEN 0 ELSE i]

(* Slip in RegisterAll: the error of each registration is ignored. *)
RegisterAllUnchecked(kind, table, names, failing) ==
  LET Ignored(r) == [table |-> r.table, failed |-> 0]
      after[i \in 0 .. Len(names)] ==
        IF i = 0
        THEN [table |-> table, failed |-> 0]
        ELSE Ignored(RegisterAt(kind, after[i - 1], names, i, failing))
  IN  after[Len(names)]

(* Once a registration has failed there are no more of the series.          *)
RegisterUnlessFailed(kind, before, names, i, failing) ==
  IF before.failed # 0
  THEN before
  ELSE RegisterAt(kind, before, names, i, failing)

(* Slip in RegisterAll: a name that is there already is taken for registered. *)
RegisterAllTolerant(kind, table, names, failing) ==
  LET Tolerant(before, r) ==
        IF r.failed # 0 /\ Find(before.table, names[r.failed]) # NULL
        THEN [r EXCEPT !.failed = 0]
        ELSE r
      after[i \in 0 .. Len(names)] ==
        IF i = 0
        THEN [table |-> table, failed |-> 0]
        ELSE Tolerant(after[i - 1],
                      RegisterUnlessFailed(kind, after[i - 1], names, i, failing))
  IN  after[Len(names)]

(* Register the runtime's own objects under their names, stopping at the    *)
(* first that is refused: its position, or 0 if none is.                    *)
RegisterAll(kind, table, names, failing) ==
  LET after[i \in 0 .. Len(names)] ==
        IF i = 0
        THEN [table |-> table, failed |-> 0]
        ELSE RegisterUnlessFailed(kind, after[i - 1], names, i, failing)
  IN  after[Len(names)]

(* Slips in InitErrors: no flag; the status of a failure without its sign. *)
InitErrorsUnguarded(s, failing) ==
  LET Ended(filled) ==
        [ret |-> IF filled.failed = 0 THEN 0 ELSE -2 - filled.failed,
         s   |-> [s EXCEPT !.errors = filled.table,
                           !.errors_ready = filled.failed = 0]]
  IN  IF << "errors", -1 >> \in failing
      THEN [ret |-> -2, s |-> s]
      ELSE Ended(RegisterAll("errors",
                             [pool_size |-> ErrorPoolSize, pool |-> << >>],
                             CoreErrors, failing))

InitErrorsUnsigned(s, failing) ==
  LET Ended(filled) ==
        [ret |-> filled.failed,
         s   |-> [s EXCEPT !.errors = filled.table,
                           !.errors_ready = filled.failed = 0]]
  IN  IF s.errors_ready
      THEN [ret |-> 0, s |-> s]
      ELSE Ended(RegisterAll("errors",
                             [pool_size |-> ErrorPoolSize, pool |-> << >>],
                             CoreErrors, failing))

(* ni_init_errors: an earlier attempt that failed half-way starts over with *)
(* a fresh pool.                                                            *)
InitErrors(s, failing) ==
  LET made == Construct(s.errors, ErrorPoolSize,
                        << "errors", -1 >> \notin failing)
      Ended(filled) ==
        [ret |-> IF filled.failed = 0 THEN 0 ELSE -2 - filled.failed,
         s   |-> [s EXCEPT !.errors = filled.table,
                           !.errors_ready = filled.failed = 0]]
  IN  IF s.errors_ready
      THEN [ret |-> 0, s |-> s]
      ELSE IF made.status # "SUCCESS"
      THEN [ret |-> -2, s |-> s]
      ELSE Ended(RegisterAll("errors", made.table, CoreErrors, failing))

(* ni_init_types: a failed allocation of the type pool is reported with the *)
(* BAD_ALLOCATION pointer of types.c, which is NULL until the end of this   *)
(* function: the caller takes it for no error and goes on.  (The two        *)
(* lookups that follow the registrations find what ni_init_errors put in.)  *)
InitTypes(s, failing) ==
  LET Made(t) == Construct(t, TypePoolSize, << "types", -1 >> \notin failing)
      Ended(after, failed) ==
        IF failed # 0
        THEN [ret |-> -4, s |-> after]
        ELSE IF Find(after.errors, "nuvm.IllegalArgument") = NULL
        THEN [ret |-> -5, s |-> after]
        ELSE IF Find(after.errors, "nuvm.BadAllocation") = NULL
        THEN [ret |-> -6, s |-> after]
        ELSE [ret |-> 0, s |-> [after EXCEPT !.types_ready = TRUE]]
      Filled(below, filled) ==
        Ended([below EXCEPT !.types = Made(@).table,
                            !.errors = filled.table], filled.failed)
      Continue(below) ==
        IF below.ret < 0
        THEN [ret |-> -1, s |-> below.s]
        ELSE Filled(below.s, RegisterAll("errors", below.s.errors,
                                         TypeErrors, failing))
  IN  IF s.types_ready
      THEN [ret |-> 0, s |-> s]
      ELSE Continue(InitErrors(s, failing))

(* ni_init_values has no flag: it registers its three types on every call. *)
InitValues(s, failing) ==
  LET Ended(below, filled) ==
        [ret |-> IF filled.failed # 0 THEN -2 ELSE 0,
         s   |-> [below EXCEPT !.types = filled.table]]
      Continue(below) ==
        IF below.ret < 0
        THEN [ret |-> -1, s |-> below.s]
        ELSE Ended(below.s, RegisterAll("types", below.s.types,
                                        ValueTypes, failing))
  IN  Continue(InitTypes(s, failing))

(* The error types of the evaluator, its last step. *)
RegisterEvaluatorErrors(s, failing) ==
  LET Ended(filled) ==
        [ret |-> IF filled.failed # 0 THEN -2 ELSE 0,
         s   |-> [s EXCEPT !.errors = filled.table]]
  IN  Ended(RegisterAll("errors", s.errors, EvaluatorErrors, failing))

(* Slip: the status of ni_init_values is dropped. *)
InitEvaluatorIgnoringValues(s, failing) ==
  LET WithErrors(below) ==
        IF below.ret < 0
        THEN [ret |-> -1, s |-> below.s]
        ELSE RegisterEvaluatorErrors(InitValues(below.s, failing).s, failing)
  IN  WithErrors(InitErrors(s, failing))

InitEvaluator(s, failing) ==
  LET WithValues(values) ==
        IF values.ret < 0
        THEN [ret |-> -3, s |-> values.s]
        ELSE RegisterEvaluatorErrors(values.s, failing)
      WithErrors(below) ==
        IF below.ret < 0
        THEN [ret |-> -1, s |-> below.s]
        ELSE WithValues(InitValues(below.s, failing))
  IN  WithErrors(InitErrors(s, failing))

-----------------------------------------------------------------------------
Init ==
  /\ rt = [errors |-> ZeroedTable, errors_ready |-> FALSE,
           types  |-> ZeroedTable, types_ready  |-> FALSE]
  /\ last = [call |-> "none", ret |-> 0]
  /\ done = {}

Return(call, result) ==
  /\ rt' = result.s
  /\ last' = [call |-> call, ret |-> result.ret]
  /\ done' = IF result.ret = 0 THEN done \cup {call} ELSE done

CallInitErrors ==
  \E failing \in FailingSites : Return("errors", InitErrors(rt, failing))

CallInitTypes ==
  \E failing \in FailingSites : Return("types", InitTypes(rt, failing))

CallInitValues ==
  \E failing \in FailingSites : Return("values", InitValues(rt, failing))

CallInitEvaluator ==
  \E failing \in FailingSites : Return("evaluator", InitEvaluator(rt, failing))

(* n_register_error_type, once the host has initialized the errors; the     *)
(* refusals are error types of the error registry itself.                   *)
HostRegistersError ==
  \E name \in HostErrors, mem \in BOOLEAN :
    LET r == Register(rt.errors, name, "host", mem)
    IN  /\ rt.errors_ready
        /\ rt' = [rt EXCEPT !.errors = r.table]
        /\ last' = [call |-> "host", ret |-> 0]
        /\ UNCHANGED done

(* n_register_type, once the host has initialized the types. *)
HostRegistersType ==
  \E name \in HostTypes, mem \in BOOLEAN :
    LET r == Register(rt.types, name, "host", mem)
    IN  /\ rt.types_ready
        /\ rt' = [rt EXCEPT !.types = r.table]
        /\ last' = [call |-> "host", ret |-> 0]
        /\ UNCHANGED done

Next ==
  \/ CallInitErrors
  \/ CallInitTypes
  \/ CallInitValues
  \/ CallInitEvaluator
  \/ HostRegistersError
  \/ HostRegistersType

Spec == Init /\ [][Next]_vars

-----------------------------------------------------------------------------
TypeOK ==
  /\ rt \in [errors : Table, errors_ready : BOOLEAN,
             types : Table, types_ready : BOOLEAN]
  /\ last \in [call : Calls \cup {"none", "host"}, ret : -7 .. 0]
  /\ done \subseteq Calls

HasOwn(table, seq) == \A name \in NamesOf(seq) : Find(table, name) = name

(* An init function that has returned success left every object it stands  *)
(* for in its registry, under its name and not a host's, whatever failed or *)
(* was registered by host code before: error types are looked up by name    *)
(* and compared by address everywhere above.                                *)
InitializedMeansRegistered ==
  /\ rt.errors_ready => HasOwn(rt.errors, CoreErrors)
  /\ rt.types_ready => HasOwn(rt.errors, CoreErrors \o TypeErrors)
  /\ "values" \in done => HasOwn(rt.types, ValueTypes)
  /\ "evaluator" \in done =>
       /\ HasOwn(rt.types, ValueTypes)
       /\ HasOwn(rt.errors, CoreErrors \o TypeErrors \o EvaluatorErrors)

(* The pool of the error registry, and that of the type registry once it    *)
(* has one, are never written past their end.                               *)
RegistriesInBounds ==
  /\ WithinPool(rt.errors)
  /\ rt.types.pool_size > 0 => WithinPool(rt.types)

(* Once its registry is initialized nothing registered in it is lost or     *)
(* replaced by calling an init function again, though a failed earlier      *)
(* attempt may have been started over.                                      *)
ReinitKeepsRegistered ==
  [][ /\ rt.errors_ready =>
           \A name \in Names : Find(rt.errors, name) # NULL =>
             Find(rt'.errors, name) = Find(rt.errors, name)
      /\ rt.types_ready =>
           \A name \in Names : Find(rt.types, name) # NULL =>
             Find(rt'.types, name) = Find(rt.types, name) ]_vars

(* A start of the type system that stopped after registering some of its    *)
(* error types can never be completed: the retry is refused its first error *)
(* type as a repeated name, even with memory to spare.  The same happens    *)
(* when host code took one of the names before.                             *)
HalfInitializedForever ==
  [][ /\ rt.errors_ready /\ ~rt.types_ready
      /\ \E name \in NamesOf(TypeErrors) : Find(rt.errors, name) # NULL
      => ~rt'.types_ready ]_vars

(* ni_init_errors and ni_init_types may be called again; ni_init_evaluator  *)
(* may not: after it has succeeded once, each later call is refused by      *)
(* ni_init_values and adds nothing to either registry.                      *)
EvaluatorInitializesOnce ==
  [][ "evaluator" \in done /\ last'.call = "evaluator" =>
        /\ last'.ret = -3
        /\ rt'.errors.pool = rt.errors.pool
        /\ rt'.types.pool = rt.types.pool ]_vars

(* A success of ni_init_types means that the type registry has a pool: the  *)
(* function has a status (-3) and the tests a check for the opposite.       *)
TypesReadyMeansPool == rt.types_ready => rt.types.pool_size > 0
=============================================================================
