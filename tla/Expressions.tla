---------------------------- MODULE Expressions ----------------------------
(***************************************************************************)
(* The boolean language of design.yaml, one for guards, named expressions  *)
(* and output logic.  An expression is a parse tree; parsing is left out.  *)
(***************************************************************************)
EXTENDS Sequences

Var(x) == [op |-> "var", name |-> x]
Const(b) == [op |-> "const", value |-> b]
Neg(e) == [op |-> "!", arg |-> e]
Bin(op, l, r) == [op |-> op, left |-> l, right |-> r]
StateEq(s) == [op |-> "state", name |-> s]

Binary == {"&", "|", "^"}

RECURSIVE FreeVars(_), StatesReferenced(_), Expand(_, _), Cyclic(_, _, _), Evaluate(_, _, _)

FreeVars(e) ==
  CASE e.op = "var" -> {e.name}
    [] e.op = "!" -> FreeVars(e.arg)
    [] e.op \in Binary -> FreeVars(e.left) \cup FreeVars(e.right)
    [] OTHER -> {}

StatesReferenced(e) ==
  CASE e.op = "state" -> {e.name}
    [] e.op = "!" -> StatesReferenced(e.arg)
    [] e.op \in Binary -> StatesReferenced(e.left) \cup StatesReferenced(e.right)
    [] OTHER -> {}

\* Some definition of definitions is reached from itself.
Cyclic(e, definitions, seen) ==
  CASE e.op = "var" ->
         e.name \in DOMAIN definitions /\
           (e.name \in seen \/ Cyclic(definitions[e.name], definitions, seen \cup {e.name}))
    [] e.op = "!" -> Cyclic(e.arg, definitions, seen)
    [] e.op \in Binary -> Cyclic(e.left, definitions, seen) \/ Cyclic(e.right, definitions, seen)
    [] OTHER -> FALSE

Expand(e, definitions) ==
  CASE e.op = "var" ->
         IF e.name \in DOMAIN definitions THEN Expand(definitions[e.name], definitions) ELSE e
    [] e.op = "!" -> Neg(Expand(e.arg, definitions))
    [] e.op \in Binary -> Bin(e.op, Expand(e.left, definitions), Expand(e.right, definitions))
    [] OTHER -> e

\* The value of e, where env gives the signals and active the states that
\* `state == S` is true of: one of them, or none while one-hot bits are clear.
Evaluate(e, env, active) ==
  CASE e.op = "var" -> env[e.name]
    [] e.op = "const" -> e.value
    [] e.op = "!" -> ~Evaluate(e.arg, env, active)
    [] e.op = "&" -> Evaluate(e.left, env, active) /\ Evaluate(e.right, env, active)
    [] e.op = "|" -> Evaluate(e.left, env, active) \/ Evaluate(e.right, env, active)
    [] e.op = "^" -> Evaluate(e.left, env, active) # Evaluate(e.right, env, active)
    [] e.op = "state" -> e.name \in active
=============================================================================
