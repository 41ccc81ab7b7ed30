--------------------------- MODULE MCRuntimeInit ---------------------------
(* Pools of four error types and two types: the error pool fills up while   *)
(* the core errors are registered and again while those of the types or of  *)
(* the evaluator are; the type pool while the value types are.  The host    *)
(* registers one error type of its own and one under a name the type system *)
(* wants, one type of its own and one under the name of the boolean type.   *)
EXTENDS RuntimeInit

MCHostErrors == { "host.Error", "nuvm.types.RepeatedName" }
MCHostTypes == { "host.Type", "nuvm.Boolean" }
MCNames == RuntimeNames \cup MCHostErrors \cup MCHostTypes
MCObjects == RuntimeNames \cup { "host" }
=============================================================================
