-------------------------- MODULE MCStageFunction --------------------------
(***************************************************************************)
(* Finite instances of StageFunction.                                      *)
(***************************************************************************)
EXTENDS StageFunction

CONSTANTS a, b, g, refused, nobody

FunctionNames2 == {a, b, g, refused}
JustBad        == BuiltinNames \cup {refused}
Everything     == FunctionNames2 \cup BuiltinNames

Var(n)          == [kind |-> "var", name |-> n]
Literal(t, v)   == [kind |-> "literal", prim |-> t, value |-> v]
Binary(op, l, r) == [kind |-> "binary", op |-> op, left |-> l, right |-> r]
Plain(n)        == [name |-> n, path |-> <<>>]

One == Literal(SInt, 1)

\* A function variable of either name, and a name that is refused.
FunctionDecls == {Declaration(n, SInt) : n \in {a, b, refused}}

\* An inter-stage local, and a global that may take the name of a function's
\* variable before or after the function.
FunctionGlobals == {[name |-> g, type |-> PlainType(SInt), scope |-> "Local"],
                    [name |-> a, type |-> PlainType(SInt), scope |-> "Constant"]}

Less(n) == Binary("<", Var(n), One)
Step(n) == [kind |-> "step", lval |-> Plain(n)]
FunctionExprs == {One, Var(a), Var(g), Less(b), Step(a)}
FunctionLvalues == {Plain(g)}
SimpleOps == {"=", "+"}
LoopConditions == {Less(a), Less(b)}
LoopUpdates ==
  {<<Step(a)>>,
   <<Step(b), [kind |-> "assign", lval |-> Plain(b), op |-> "+", value |-> Var(g)]>>}
=============================================================================
