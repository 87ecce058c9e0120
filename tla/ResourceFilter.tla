---------------------------- MODULE ResourceFilter ----------------------------
(***************************************************************************)
(* pkg/filter: which manifests the include and exclude expressions keep.   *)
(*                                                                         *)
(* An expression is a jq program.  Run on a manifest it gives a stream of  *)
(* values, of which the filter tells three apart: the boolean true, an     *)
(* error, and everything else.  A verdict is one of "true", "error" and    *)
(* "no"; the first result, and the first expression, that decides wins.    *)
(***************************************************************************)
EXTENDS KubeObjects

CONSTANTS Expressions,   \* the jq expressions a user may write
          Malformed,     \* those that gojq.Parse rejects
          Run(_, _)      \* the stream of an expression on a manifest

ASSUME MalformedAssumption == Malformed \subseteq Expressions

Results == {"true", "error", "other"}
Verdicts == {"true", "error", "no"}

\* Mutant: only the first result is looked at.
matchesQuery_FirstResult(expr, obj) ==
  IF Run(expr, obj) # <<>> /\ Run(expr, obj)[1] # "other" THEN Run(expr, obj)[1] ELSE "no"

matchesQuery(expr, obj) ==
  LET stream   == Run(expr, obj)
      decisive == {i \in DOMAIN stream : stream[i] # "other"}
  IN  IF decisive = {} THEN "no" ELSE stream[Earliest(decisive)]

matchAny(exprs, obj) ==
  LET decisive == {i \in DOMAIN exprs : matchesQuery(exprs[i], obj) # "no"}
  IN  IF decisive = {} THEN "no" ELSE matchesQuery(exprs[Earliest(decisive)], obj)

\* The error of an exclude expression comes before everything an include
\* expression says, and an exclude expression that holds before its error.
shouldInclude(include, exclude, obj) ==
  CASE matchAny(exclude, obj) = "error" -> "error"
    [] matchAny(exclude, obj) = "true"  -> "no"
    [] matchAny(exclude, obj) = "no" /\ include = <<>> -> "true"
    [] OTHER -> matchAny(include, obj)

Parses(exprs) == \A i \in DOMAIN exprs : exprs[i] \notin Malformed

-----------------------------------------------------------------------------
(* What the filter is for, without an order of expressions or results. *)

Yields(expr, obj, value) == \E i \in DOMAIN Run(expr, obj) : Run(expr, obj)[i] = value

Holds(exprs, obj) == \E i \in DOMAIN exprs : Yields(exprs[i], obj, "true")

Selected(include, exclude, obj) ==
  /\ ~Holds(exclude, obj)
  /\ include = <<>> \/ Holds(include, obj)
=============================================================================
