---------------------------- MODULE MCExpressions ----------------------------
(***************************************************************************)
(* Finite instances of Expressions.                                        *)
(***************************************************************************)
EXTENDS Expressions

Var(vt, scope, readable, writable) ==
  [type |-> vt, scope |-> scope, readable |-> readable, writable |-> writable]
Input(t)  == Var(PlainType(t), "Attribute", TRUE, FALSE)
Local(t)  == Var(PlainType(t), "Block", TRUE, TRUE)
Handle(t, format) == Var([PlainType(t) EXCEPT !.extra = format], "Uniform", TRUE, FALSE)

Float2 == Float + 1
Float3 == Float + 2
Float4 == Float + 3
SInt2  == SInt + 1

\* No type, a scalar, a vector, an array.
ManyContexts == {ErrorType, PlainType(Float), PlainType(Float3), ArrayType(Float, 2)}

ManyVariables ==
  {Input(SInt2), Input(Float3), Local(SInt), Local(Mat2), Handle(201, 0), Handle(207, Float4),
   Var(PlainType(Float), "Constant", TRUE, FALSE),
   Var(ArrayType(Float, 2), "Uniform", TRUE, FALSE),
   Var(PlainType(Float4), "Output", FALSE, TRUE)}

Digits(n) == IF n > 999 THEN 4 ELSE 1
Decimal(n, unsigned) == Integer(FALSE, 10, n, Digits(n), unsigned)
Minus(n)             == Integer(TRUE, 10, n, Digits(n), FALSE)

\* With words of eleven bits: what is accepted as int and as uint, at the ends
\* of both, what is just beyond them, and zeros spelt in two ways.
ManyLiterals == {Decimal(0, FALSE), Decimal(0, TRUE), Decimal(2, TRUE), Decimal(1024, FALSE),
                 Decimal(2047, FALSE), Minus(1), Minus(1024), Integer(FALSE, 16, 2, 1, FALSE)}

Unary(kind)       == [kind |-> kind, arity |-> 1]
Binary(op)        == [kind |-> "binary", arity |-> 2, op |-> op]
Index             == [kind |-> "index", arity |-> 2]
Ternary           == [kind |-> "ternary", arity |-> 3]
Swizzle(len, top) == [kind |-> "swizzle", arity |-> 1, length |-> len, highest |-> top]
List(n)           == [kind |-> "list", arity |-> n]
Construct(t, n)   == [kind |-> "construct", arity |-> n, prim |-> t]
Call(name, n)     == [kind |-> "call", arity |-> n, name |-> name]

Calls ==
  {Call(f, 1) : f \in {"sin", "abs", "isnan", "det", "vecNot", "levelsof", "load", "sizeof", "none"}}
  \cup {Call(f, 2) : f \in {"max", "step", "ldexp", "dot", "vecEQ", "outerProd", "load", "fetch"}}
  \cup {Call(f, 3) : f \in {"clamp", "select", "store", "load"}}

ManyNodes ==
  {Unary(k) : k \in {"paren", "factor", "not", "complement"}} \cup
  {Binary(op) : op \in {"*", "/", "%", "+", "<<", "<", "==", "&", "&&"}} \cup
  {Index, Ternary, List(1), List(2), List(3), Swizzle(2, 2), Swizzle(1, 3), Swizzle(5, 1),
   Construct(Float, 1), Construct(Float3, 2), Construct(Mat2, 1), Construct(Void, 1),
   Construct(201, 1)} \cup Calls


\* An image and coordinates for it.
FewLiterals    == {Decimal(2, FALSE)}
ImageVariables == {Handle(207, Float4), Handle(206, UInt), Input(SInt2), Local(SInt)}
ImageNodes     == {Call("load", 2), Call("sizeof", 1), Unary("factor")}
=============================================================================
