---------------------------- MODULE Expressions ----------------------------
(***************************************************************************)
(* The visit of one expression: a recursive descent over the tree of an    *)
(* expression, as a stack of the nodes being visited.  The tree is an      *)
(* input, chosen node by node from the root; a node is left when all its   *)
(* operands have been visited, and an error ends the visit.                *)
(*                                                                         *)
(* infer_type_ is a member of the visitor that every nested visit shares:  *)
(* the type an initialiser list without a type of its own should have.     *)
(* The statement around the expression sets it (the context).              *)
(***************************************************************************)
EXTENDS FunctionRegistry, IntegerLiterals

CONSTANTS
  Contexts,   \* values of infer_type_ set by statements
  Variables,  \* the variables in scope: [type, scope, readable, writable]
  Literals,   \* the integer literals written (see IntegerLiterals)
  Nodes,      \* the expressions with operands: [kind, arity, ...]
  MaxNodes    \* bound on the nodes and leaves of an expression

Scopes == {"Attribute", "Output", "Local", "Uniform", "Block", "PushConstant", "Constant", "Builtin"}
Kinds  == {"paren", "factor", "not", "complement", "binary", "ternary", "index", "swizzle",
           "list", "construct", "call"}

\* What parse_variable makes of a declaration: an image has a texel format.
IsVariableType(vt) ==
  /\ vt \in HLSVType /\ vt.type # Error
  /\ IsImageType(vt.type) => vt.extra \in ToSet(Texels)

ASSUME ContextsAssumption ==
  \A vt \in Contexts : vt \in HLSVType /\ (vt.type = Error \/ IsValueType(vt.type))
ASSUME VariablesAssumption ==
  \A v \in Variables :
    /\ v \in [type : HLSVType, scope : Scopes, readable : BOOLEAN, writable : BOOLEAN]
    /\ IsVariableType(v.type)
ASSUME IntegersAssumption == \A tk \in Literals : IsIntegerToken(tk)
ASSUME NodesAssumption ==
  \A n \in Nodes :
    /\ n.kind \in Kinds /\ n.arity \in Nat \ {0}
    /\ n.kind = "ternary" => n.arity = 3
    /\ n.kind \in {"binary", "index"} => n.arity = 2
    /\ n.kind \in {"paren", "factor", "not", "complement", "swizzle"} => n.arity = 1
    /\ n.kind = "binary" => n.op \in BinaryOperators
    /\ n.kind = "swizzle" => n.length \in Nat \ {0} /\ n.highest \in Nat
    /\ n.kind = "construct" => n.prim \in PrimTypes

VARIABLES
  status,       \* "visiting", "done" or "failed"
  infer_type_,  \* Visitor::infer_type_
  context,      \* what it was when the visit began
  frames,       \* the nodes being visited, the root first
  value,        \* the Expr of the whole expression
  size          \* nodes and leaves of the tree, those still to be visited too

vars == <<status, infer_type_, context, frames, value, size>>

ErrorType == PlainType(Error)

(***************************************************************************)
(* Expr, with the bits of its literal_value.  reads, the scopes of the     *)
(* variables below it, and written, the number a literal stands for, are   *)
(* there for the properties.                                               *)
(***************************************************************************)
NewExpr(vt) == [type |-> vt, is_literal |-> FALSE, is_compile_constant |-> FALSE, bits |-> 0,
                reads |-> {}, written |-> 0]

\* An open node.  save is infer_type_ when the node was entered: the code
\* keeps it for lists and calls, which change infer_type_ and put it back.
Frame(node, save) == [node |-> node, save |-> save, args |-> <<>>]

Depth == Len(frames)
Here  == frames[Depth]

Init ==
  /\ status = "visiting"
  /\ context \in Contexts
  /\ infer_type_ = context
  /\ frames = <<>>
  /\ value = NewExpr(ErrorType)
  /\ size = 1

\* One more operand of Here, or the root, is to be visited.
Expected == status = "visiting" /\ (frames # <<>> => Len(Here.args) < Here.node.arity)

ERROR == status' = "failed" /\ UNCHANGED <<infer_type_, context, frames, value, size>>
-----------------------------------------------------------------------------
(* What a node checks as soon as an operand has been visited. *)
IsIndexType(vt) == ~ vt.is_array /\ IsScalarInteger(vt.type)

OperandOK(frame, e) ==
  LET k == Len(frame.args) + 1 IN
  CASE frame.node.kind = "ternary" ->
         ~ e.type.is_array /\ IF k = 1 THEN e.type.type = Bool ELSE IsValueType(e.type.type)
    [] frame.node.kind = "index"   -> k = 1 => IsIndexType(e.type)
    [] frame.node.kind = "list"    ->
         frame.save.is_array => ~ e.type.is_array /\ CanPromoteTo(e.type.type, frame.save.type)
    [] OTHER -> TRUE

\* e is returned to the node below fs, or is the value of the expression.
Deliver(fs, e) ==
  IF fs = <<>>
  THEN status' = "done" /\ value' = e /\ frames' = fs
  ELSE LET top == fs[Len(fs)] IN
       /\ frames' = [fs EXCEPT ![Len(fs)].args = Append(@, e)]
       /\ status' = IF OperandOK(top, e) THEN status ELSE "failed"
       /\ UNCHANGED value
-----------------------------------------------------------------------------
(* Leaves: VariableAtom, ScalarLiteral, and PostfixExpr or PrefixExpr, the *)
(* lvalue of which is a variable here.                                     *)
\* Faulty variant for the mutation runs: every global is taken for constant.
GlobalIsConstant(v) == v.scope # "Block"

IsCompileConstant(v) == v.scope \in {"Constant", "PushConstant"}

VariableExpr(v) ==
  [NewExpr(v.type) EXCEPT !.is_compile_constant = IsCompileConstant(v), !.reads = {v.scope}]
LiteralExpr(t, bits, written) ==
  [NewExpr(PlainType(t)) EXCEPT !.is_literal = TRUE, !.is_compile_constant = TRUE,
                                !.bits = bits, !.written = written]
IntegerExpr(tk) ==
  LiteralExpr(IF IsUnsigned(tk) THEN UInt ELSE SInt, LiteralBits(tk), Written(tk))

Leaf(ok, e) ==
  /\ Expected
  /\ IF ok THEN Deliver(frames, e) /\ UNCHANGED <<infer_type_, context, size>> ELSE ERROR

VariableAtom(v) == Leaf(v.readable, VariableExpr(v))
\* Nothing asks for the bits of a boolean or a float.
BooleanLiteral  == Leaf(TRUE, LiteralExpr(Bool, 0, 0))
IntegerLiteral(tk) == Leaf(IntegerLiteralOK(tk), IntegerExpr(tk))
\* Refused when out of range; also when errno still says ERANGE, which an
\* integer literal too long for strtoull in an earlier visit leaves behind.
FloatLiteral == \E ok \in BOOLEAN : Leaf(ok, LiteralExpr(Float, 0, 0))
Step(v) ==
  Leaf(v.writable /\ IsIndexType(v.type),
       [NewExpr(PlainType(v.type.type)) EXCEPT !.reads = {v.scope}])
-----------------------------------------------------------------------------
(* Entering a node. *)
InferIn(frame) ==
  CASE frame.node.kind = "list" /\ frame.save.is_array     -> PlainType(frame.save.type)
    [] frame.node.kind \in {"list", "construct", "call"}   -> ErrorType
    [] OTHER                                               -> frame.save

\* What is refused before any operand is visited.
EnterOK(node) ==
  CASE node.kind = "list" ->
         /\ infer_type_.type # Error
         /\ IF infer_type_.is_array THEN node.arity < 256 ELSE ~ IsScalarType(infer_type_.type)
    [] node.kind = "construct" -> IsValueType(node.prim)
    [] node.kind = "swizzle"   -> node.length <= 4
    [] OTHER                   -> TRUE

Enter(node) ==
  /\ Expected
  /\ size + node.arity <= MaxNodes
  /\ IF EnterOK(node)
     THEN /\ frames' = Append(frames, Frame(node, infer_type_))
          /\ infer_type_' = InferIn(Frame(node, infer_type_))
          /\ size' = size + node.arity
          /\ UNCHANGED <<status, context, value>>
     ELSE ERROR
-----------------------------------------------------------------------------
(* Leaving a node: its own checks, and the Expr it returns. *)
Arg(frame, k) == frame.args[k]
ArgTypes(frame) == [k \in DOMAIN frame.args |-> frame.args[k].type]
AllConstant(frame) == \A k \in DOMAIN frame.args : frame.args[k].is_compile_constant
Reads(frame) == UNION {frame.args[k].reads : k \in DOMAIN frame.args}

IsPlainValue(vt) == ~ vt.is_array /\ IsValueType(vt.type)

\* TernaryExpr: the type in the air, or that of the first alternative.
TernaryType(frame) == IF infer_type_.type # Error THEN infer_type_ ELSE Arg(frame, 2).type

Extent(vt) ==
  IF vt.is_array THEN vt.count
  ELSE CASE IsVectorType(vt.type) -> GetComponentCount(vt.type)
         [] IsMatrixType(vt.type) -> MatrixSide(vt.type)
         [] OTHER                 -> 0

\* Faulty variant for the mutation runs: a literal index is read as signed.
IndexFitsSigned(index, extent) == index.is_literal => AsSigned(index.bits) < extent

IndexFits(index, extent) == index.is_literal => index.bits < extent

\* Faulty variant for the mutation runs: arrays are forgotten.
ElementOfValue(vt) ==
  PlainType(IF IsVectorType(vt.type) THEN GetComponentType(vt.type)
            ELSE MakeVectorType(Float, MatrixSide(vt.type)))

ElementOf(vt) ==
  PlainType(IF vt.is_array THEN vt.type
            ELSE IF IsVectorType(vt.type) THEN GetComponentType(vt.type)
            ELSE MakeVectorType(Float, MatrixSide(vt.type)))

LeaveOK(frame) ==
  LET node == frame.node
      vt   == Arg(frame, 1).type
  IN
  CASE node.kind = "paren"      -> TRUE
    [] node.kind = "factor"     -> IsPlainValue(vt) /\ ~ IsBooleanType(vt.type)
    [] node.kind = "not"        -> IsPlainValue(vt) /\ vt.type = Bool
    [] node.kind = "complement" -> IsPlainValue(vt) /\ IsScalarInteger(vt.type)
    [] node.kind = "binary"     -> CheckBinaryOperator(node.op, vt, Arg(frame, 2).type) # Error
    [] node.kind = "ternary"    ->
         \A k \in {2, 3} : CanPromoteTo(Arg(frame, k).type.type, TernaryType(frame).type)
    [] node.kind = "index"      ->
         LET atom == Arg(frame, 2).type IN Extent(atom) > 0 /\ IndexFits(Arg(frame, 1), Extent(atom))
    [] node.kind = "swizzle"    ->
         ~ vt.is_array /\ IsVectorType(vt.type) /\ node.highest <= GetComponentCount(vt.type)
    [] node.kind = "list"       ->
         frame.save.is_array \/ CheckConstructor(frame.save.type, ArgTypes(frame))
    [] node.kind = "construct"  -> CheckConstructor(node.prim, ArgTypes(frame))
    [] node.kind = "call"       -> CheckFunction(node.name, ArgTypes(frame))

\* The type of the value returned.
TypeOf(frame) ==
  LET node == frame.node
      vt   == Arg(frame, 1).type
  IN
  CASE node.kind = "paren"      -> vt
    [] node.kind = "factor"     -> vt
    [] node.kind \in {"not", "complement"} -> PlainType(vt.type)
    [] node.kind = "binary"     -> PlainType(CheckBinaryOperator(node.op, vt, Arg(frame, 2).type))
    [] node.kind = "ternary"    -> TernaryType(frame)
    [] node.kind = "index"      -> ElementOf(Arg(frame, 2).type)
    [] node.kind = "swizzle"    -> PlainType(MakeVectorType(GetComponentType(vt.type), node.length))
    [] node.kind = "list"       ->
         IF frame.save.is_array THEN ArrayType(frame.save.type, Uint8(node.arity))
         ELSE PlainType(frame.save.type)
    [] node.kind = "construct"  -> PlainType(node.prim)
    [] node.kind = "call"       -> ReturnType(Chosen(node.name, ArgTypes(frame)), ArgTypes(frame))

ExprOf(frame) ==
  LET new == [NewExpr(TypeOf(frame)) EXCEPT !.reads = Reads(frame)] IN
  CASE frame.node.kind = "paren" -> Arg(frame, 1)
    [] frame.node.kind \in {"list", "construct"} ->
         [new EXCEPT !.is_compile_constant = AllConstant(frame)]
    [] OTHER -> new

\* Faulty variant for the mutation runs: calls do not put infer_type_ back.
RestoredByLists(frame) ==
  IF frame.node.kind \in {"list", "construct"} THEN frame.save ELSE infer_type_

Restored(frame) ==
  IF frame.node.kind \in {"list", "construct", "call"} THEN frame.save ELSE infer_type_

Leave ==
  /\ status = "visiting" /\ frames # <<>> /\ Len(Here.args) = Here.node.arity
  /\ IF LeaveOK(Here)
     THEN /\ Deliver(SubSeq(frames, 1, Depth - 1), ExprOf(Here))
          /\ infer_type_' = Restored(Here)
          /\ UNCHANGED <<context, size>>
     ELSE ERROR

Ended == status \in {"done", "failed"} /\ UNCHANGED vars

Next ==
  \/ \E v \in Variables : VariableAtom(v) \/ Step(v)
  \/ BooleanLiteral \/ FloatLiteral
  \/ \E tk \in Literals : IntegerLiteral(tk)
  \/ \E node \in Nodes : Enter(node)
  \/ Leave
  \/ Ended

Spec == Init /\ [][Next]_vars
-----------------------------------------------------------------------------
Expr == [type : HLSVType, is_literal : BOOLEAN, is_compile_constant : BOOLEAN,
         bits : 0 .. UINT32_MAX, reads : SUBSET Scopes, written : Int]

\* Every Expr has a type of the language: no arithmetic on type codes makes
\* one up, and an error never passes for a type.
TypeOK ==
  /\ status \in {"visiting", "done", "failed"}
  /\ infer_type_ \in HLSVType /\ context \in Contexts
  /\ \A k \in 1 .. Depth :
       /\ frames[k].node \in Nodes /\ frames[k].save \in HLSVType
       /\ Len(frames[k].args) <= frames[k].node.arity
       /\ \A e \in ToSet(frames[k].args) : e \in Expr /\ e.type.type # Error
  /\ value \in Expr /\ (status = "done" => value.type.type # Error)

\* The type the node below depth k leaves to it, the context at the root.
MeantAt(k) == IF k = 1 THEN context ELSE InferIn(frames[k - 1])

\* However deep the visit, infer_type_ is the one its position calls for:
\* the element type in the list of an array, nothing in the operands of a
\* call or of another list, and otherwise what it is around the node.  What
\* was visited before, to the left, has left no trace.
InferTypeMatchesPosition ==
  /\ \A k \in 1 .. Depth : frames[k].save = MeantAt(k)
  /\ infer_type_ = MeantAt(Depth + 1)

Exprs == (UNION {ToSet(frames[k].args) : k \in 1 .. Depth}) \cup {value}

\* Nothing that depends on an attribute, a uniform or a stage passes for a
\* compile-time constant, whatever lists and casts it went through.
ConstantsReadConstants ==
  \A e \in Exprs : e.is_compile_constant => e.reads \subseteq {"Constant", "PushConstant"}

\* A literal has the value that is written, with the type it is given.
LiteralsDenote ==
  \A e \in Exprs : e.is_literal /\ e.type.type \in {SInt, UInt} =>
    e.written = IF e.type.type = SInt THEN AsSigned(e.bits) ELSE e.bits

Complete(frame) == Len(frame.args) = frame.node.arity

\* An index that is a literal, also a negative or a parenthesised one, is
\* accepted only within the array, vector or matrix.
IndexWithinBounds ==
  \A k \in 1 .. Depth :
    LET f == frames[k] IN
    /\ f.node.kind = "index" /\ status = "visiting" /\ Complete(f) /\ LeaveOK(f)
    /\ f.args[1].is_literal
    => f.args[1].written \in 0 .. Extent(f.args[2].type) - 1

\* The arguments that a parameter takes as they are.
TakenAsIs(p, typ) ==
  /\ p.type.is_array = typ.is_array
  /\ IF p.gen_type /\ IsScalarType(p.type.type) THEN GetComponentType(typ.type) = p.type.type
     ELSE typ.type = p.type.type
NoConversion(entry, args) == \A i \in DOMAIN args : TakenAsIs(entry.params[i], args[i])

\* A call never converts its arguments when some overload takes them as they
\* are: the first match is the best, so int arguments of max stay int.
NoNeedlessConversion ==
  \A k \in 1 .. Depth :
    LET f    == frames[k]
        args == ArgTypes(f)
    IN
    f.node.kind = "call" /\ status = "visiting" /\ Complete(f) /\ LeaveOK(f) =>
      \/ NoConversion(Chosen(f.node.name, args), args)
      \/ \A j \in Matching(f.node.name, args) : ~ NoConversion(Functions[f.node.name][j], args)

\* A call that takes its type from an image gives a texel of the image.
LoadsGiveTexels ==
  \A k \in 1 .. Depth :
    LET f     == frames[k]
        args  == ArgTypes(f)
        entry == Chosen(f.node.name, args)
    IN
    /\ f.node.kind = "call" /\ status = "visiting" /\ Complete(f) /\ LeaveOK(f)
    /\ entry.gen_idx # NoIdx /\ IsImageType(args[entry.gen_idx].type)
    => TypeOf(f) = PlainType(args[entry.gen_idx].extra)

=============================================================================
