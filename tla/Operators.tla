----------------------------- MODULE Operators -----------------------------
(***************************************************************************)
(* TypeHelper::CheckBinaryOperator: the type of `left op right`, or Error. *)
(* A compound assignment uses the operator it is made of.                  *)
(***************************************************************************)
EXTENDS HLSVTypes

Additive   == {"+", "-"}
Shifts     == {"<<", ">>"}
Relational == {"<", ">", "<=", ">="}
Equality   == {"==", "!="}
Bitwise    == {"&", "|", "^"}
Logical    == {"&&", "||"}
BinaryOperators ==
  {"*", "/", "%"} \cup Additive \cup Shifts \cup Relational \cup Equality \cup Bitwise \cup Logical

IsBooleanType(t)         == IsValueType(t) /\ GetComponentType(t) = Bool
IsScalarInteger(t)       == IsScalarType(t) /\ IsIntegerType(t)
MakeVectorType(ct, n)    == ct + (n - 1)
GetMostPromotedType(l, r) ==
  IF GetComponentType(l) > GetComponentType(r) THEN GetComponentType(l) ELSE GetComponentType(r)

\* The rows (and columns) of a matrix.
MatrixSide(t) == t - Mat2 + 2

\* A vector as long as t of the more promoted component type.
Promoted(l, r, t) == MakeVectorType(GetMostPromotedType(l, r), GetComponentCount(t))

ProductType(l, r) ==
  CASE IsMatrixType(l) /\ IsMatrixType(r) -> IF l = r THEN l ELSE Error
    [] IsMatrixType(l) /\ IsVectorType(r) ->
         IF MatrixSide(l) = GetComponentCount(r) THEN Promoted(l, r, r) ELSE Error
    [] IsMatrixType(l) /\ IsScalarType(r) -> l
    [] IsVectorType(l) /\ IsMatrixType(r) -> Error
    [] IsVectorType(l) /\ IsVectorType(r) ->
         IF GetComponentCount(l) = GetComponentCount(r) THEN Promoted(l, r, r) ELSE Error
    [] IsVectorType(l) /\ IsScalarType(r) -> Promoted(l, r, l)
    [] IsScalarType(l) /\ IsMatrixType(r) -> r
    [] OTHER                              -> Promoted(l, r, r)

QuotientType(l, r) ==
  CASE IsScalarType(l) -> IF IsScalarType(r) THEN GetMostPromotedType(l, r) ELSE Error
    [] IsMatrixType(l) -> IF IsScalarType(r) THEN l ELSE Error
    [] OTHER ->
         IF IsMatrixType(r) \/ (IsVectorType(r) /\ GetComponentCount(l) # GetComponentCount(r))
         THEN Error ELSE Promoted(l, r, l)

SumType(l, r) ==
  IF GetComponentCount(l) # GetComponentCount(r) THEN Error
  ELSE IF IsMatrixType(l) THEN l ELSE Promoted(l, r, l)

OperatorType(op, l, r) ==
  LET boolean == IsBooleanType(l) \/ IsBooleanType(r) IN
  CASE op = "*" -> IF boolean THEN Error ELSE ProductType(l, r)
    [] op = "/" -> IF boolean THEN Error ELSE QuotientType(l, r)
    [] op = "%" -> IF ~ (IsScalarInteger(l) /\ IsScalarInteger(r)) THEN Error
                   ELSE IF SInt \in {l, r} THEN SInt ELSE UInt
    [] op \in Additive   -> IF boolean THEN Error ELSE SumType(l, r)
    [] op \in Shifts     -> IF IsScalarInteger(l) /\ IsScalarInteger(r) THEN l ELSE Error
    [] op \in Relational -> IF ~ boolean /\ IsScalarType(l) /\ IsScalarType(r)
                            THEN Bool ELSE Error
    [] op \in Equality   -> IF /\ GetComponentCount(l) = GetComponentCount(r)
                               /\ IsBooleanType(l) = IsBooleanType(r)
                            THEN Bool ELSE Error
    [] op \in Bitwise    -> IF IsScalarInteger(l) /\ l = r THEN l ELSE Error
    [] op \in Logical    -> IF l = Bool /\ r = Bool THEN Bool ELSE Error

\* The operands are whole HLSVTypes: an array or a handle never qualifies.
CheckBinaryOperator(op, left, right) ==
  IF left.is_array \/ right.is_array \/ ~ IsValueType(left.type) \/ ~ IsValueType(right.type)
  THEN Error
  ELSE OperatorType(op, left.type, right.type)
=============================================================================
