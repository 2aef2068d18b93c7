------------------------- MODULE ExpressionsProofs -------------------------
(***************************************************************************)
(* Theorems about Expressions for expressions of any depth and width, over *)
(* any variables, literals and operators, checked by TLAPS.  The second    *)
(* half has the table of built-in functions: which types its entries take  *)
(* and return, and that their order makes the first match the best.        *)
(***************************************************************************)
EXTENDS Expressions, StateSequences

-----------------------------------------------------------------------------
(* The inductive invariant: what is true of every Expr and every open node *)
(* whatever made them.                                                     *)

Sized(vt) == vt.is_array => vt.count \in uint8

ReadsConstants(e) == e.is_compile_constant => e.reads \subseteq {"Constant", "PushConstant"}
Denotes(e) ==
  e.is_literal =>
    /\ e.bits \in Nat
    /\ e.type.type \in {SInt, UInt} =>
         e.written = IF e.type.type = SInt THEN AsSigned(e.bits) ELSE e.bits
Sound(e) == Sized(e.type) /\ ReadsConstants(e) /\ Denotes(e)

IsFrame(f) == f = [node |-> f.node, save |-> f.save, args |-> f.args]
FrameSound(f) ==
  /\ IsFrame(f) /\ f.node \in Nodes /\ Sized(f.save)
  /\ IsASequence(f.args) /\ \A i \in 1 .. Len(f.args) : Sound(f.args[i])

\* The first operand of an indexer is the index.
IndexChecked(f) == f.node.kind = "index" /\ Len(f.args) >= 1 => IsIndexType(f.args[1].type)

StackSound(fs) == IsASequence(fs) /\ \A k \in 1 .. Len(fs) : FrameSound(fs[k])
StackChecked(fs) == \A k \in 1 .. Len(fs) : IndexChecked(fs[k])

IInv ==
  /\ StackSound(frames) /\ Sound(value)
  /\ Sized(infer_type_) /\ Sized(context)
  /\ status = "visiting" => StackChecked(frames)
  /\ InferTypeMatchesPosition

-----------------------------------------------------------------------------
(* Types and leaves. *)

LEMMA PlainSized == ASSUME NEW t PROVE Sized(PlainType(t))
BY DEF Sized, PlainType

LEMMA UninferredSized == Sized(ErrorType)
BY PlainSized DEF ErrorType

LEMMA NewExprSound == ASSUME NEW vt, Sized(vt) PROVE Sound(NewExpr(vt))
BY DEF Sound, ReadsConstants, Denotes, NewExpr, Sized

LEMMA VariableSound == ASSUME NEW v \in Variables PROVE Sound(VariableExpr(v))
<1>1. v.type \in HLSVType
  BY VariablesAssumption
<1>2. Sized(v.type)
  BY <1>1 DEF HLSVType, Sized
<1>3. /\ VariableExpr(v).type = v.type
      /\ VariableExpr(v).is_compile_constant = (v.scope \in {"Constant", "PushConstant"})
      /\ VariableExpr(v).reads = {v.scope}
      /\ VariableExpr(v).is_literal = FALSE
  BY DEF VariableExpr, NewExpr, IsCompileConstant
<1> QED
  BY <1>2, <1>3 DEF Sound, ReadsConstants, Denotes

LEMMA LiteralFields ==
  ASSUME NEW t, NEW bits, NEW written
  PROVE  LET e == LiteralExpr(t, bits, written) IN
         /\ e.type = PlainType(t) /\ e.type.type = t
         /\ e.bits = bits /\ e.written = written /\ e.reads = {}
BY DEF LiteralExpr, NewExpr, PlainType

LEMMA OtherLiteralSound ==
  ASSUME NEW t \in {Bool, Float} PROVE Sound(LiteralExpr(t, 0, 0))
BY LiteralFields, PlainSized
DEF Sound, ReadsConstants, Denotes, Bool, Float, SInt, UInt

\* The bits of a literal that is accepted, read as the type it is given, are
\* the number written.
LEMMA IntegerDenotes ==
  ASSUME NEW tk, tk.number \in Nat, tk.neg \in BOOLEAN, IntegerLiteralOK(tk)
  PROVE  /\ LiteralBits(tk) \in Nat
         /\ Written(tk) = IF IsUnsigned(tk) THEN LiteralBits(tk) ELSE AsSigned(LiteralBits(tk))
<1>1. UINT32_MAX \in Nat /\ INT32_MAX \in Nat /\ 2 * INT32_MAX <= UINT32_MAX
  BY WordAssumption DEF INT32_MAX
<1>2. CASE tk.neg
  <2>1. ~ IsUnsigned(tk) /\ tk.number <= INT32_MAX /\ Written(tk) = - tk.number
    BY <1>2 DEF IsUnsigned, IntegerLiteralOK, Written
  <2>2. CASE tk.number = 0
    BY <1>1, <2>1, <2>2 DEF LiteralBits, Word, AsSigned
  <2>3. CASE tk.number # 0
    <3>1. LiteralBits(tk) = UINT32_MAX + 1 - tk.number
      BY <1>1, <2>1, <2>3 DEF LiteralBits, Word
    <3>2. LiteralBits(tk) > INT32_MAX /\ LiteralBits(tk) \in Nat
      BY <1>1, <2>1, <3>1
    <3> QED
      BY <1>1, <2>1, <3>1, <3>2 DEF AsSigned
  <2> QED
    BY <2>2, <2>3
<1>3. CASE ~ tk.neg
  <2>1. Written(tk) = tk.number /\ LiteralBits(tk) = tk.number
    BY <1>3 DEF Written, LiteralBits, Word
  <2>2. ~ IsUnsigned(tk) => ~ tk.number > INT32_MAX
    BY <1>3 DEF IsUnsigned
  <2> QED
    BY <2>1, <2>2 DEF AsSigned
<1> QED
  BY <1>2, <1>3

LEMMA IntegerSound ==
  ASSUME NEW tk \in Literals, IntegerLiteralOK(tk) PROVE Sound(IntegerExpr(tk))
<1>1. tk.number \in Nat /\ tk.neg \in BOOLEAN
  BY IntegersAssumption DEF IsIntegerToken
<1>2. /\ LiteralBits(tk) \in Nat
      /\ Written(tk) = IF IsUnsigned(tk) THEN LiteralBits(tk) ELSE AsSigned(LiteralBits(tk))
  BY <1>1, IntegerDenotes
<1> QED
  BY <1>2, LiteralFields, PlainSized
  DEF IntegerExpr, Sound, ReadsConstants, Denotes, SInt, UInt

-----------------------------------------------------------------------------
(* Leaving a node: what it returns is sound if its operands are. *)

LEMMA InferInSized == ASSUME NEW f, Sized(f.save) PROVE Sized(InferIn(f))
BY PlainSized, UninferredSized DEF InferIn

LEMMA InferInSame ==
  ASSUME NEW f, NEW g, f.node = g.node, f.save = g.save PROVE InferIn(f) = InferIn(g)
BY DEF InferIn

LEMMA ListSized == ASSUME NEW t, NEW n \in Nat PROVE Sized(ArrayType(t, Uint8(n)))
<1>1. Uint8(n) \in uint8
  BY DEF Uint8, uint8
<1> QED
  BY <1>1 DEF ArrayType, Sized

LEMMA ArgumentsThere ==
  ASSUME NEW f, FrameSound(f), Complete(f)
  PROVE  /\ f.node.arity \in Nat /\ f.node.kind \in Kinds
         /\ Sound(Arg(f, 1))
         /\ f.node.kind = "ternary" => Sound(Arg(f, 2))
         /\ f.node.kind = "index" => Sound(Arg(f, 2))
BY NodesAssumption DEF FrameSound, Complete, Arg

LEMMA TypeOfSized ==
  ASSUME NEW f, FrameSound(f), Complete(f), Sized(infer_type_)
  PROVE  Sized(TypeOf(f))
<1>1. /\ f.node.arity \in Nat /\ f.node.kind \in Kinds
      /\ Sound(Arg(f, 1))
      /\ f.node.kind = "ternary" => Sound(Arg(f, 2))
  BY ArgumentsThere
<1>2. CASE f.node.kind \in {"paren", "factor"}
  BY <1>1, <1>2 DEF TypeOf, Sound
<1>3. CASE f.node.kind \in {"not", "complement", "binary", "swizzle", "construct"}
  BY <1>3, PlainSized DEF TypeOf
<1>4. CASE f.node.kind = "ternary"
  BY <1>1, <1>4 DEF TypeOf, TernaryType, Sound
<1>5. CASE f.node.kind = "index"
  <2>1. TypeOf(f) = ElementOf(Arg(f, 2).type)
    BY <1>5 DEF TypeOf
  <2> QED
    BY <2>1, PlainSized DEF ElementOf
<1>6. CASE f.node.kind = "list"
  <2>1. TypeOf(f) = IF f.save.is_array THEN ArrayType(f.save.type, Uint8(f.node.arity))
                    ELSE PlainType(f.save.type)
    BY <1>6 DEF TypeOf
  <2> QED
    BY <1>1, <2>1, PlainSized, ListSized
<1>7. CASE f.node.kind = "call"
  <2>1. TypeOf(f) = ReturnType(Chosen(f.node.name, ArgTypes(f)), ArgTypes(f))
    BY <1>7 DEF TypeOf
  <2> QED
    BY <2>1, PlainSized DEF ReturnType
<1> QED
  BY <1>1, <1>2, <1>3, <1>4, <1>5, <1>6, <1>7 DEF Kinds

\* A list or a cast of constants reads what they read.
LEMMA ReadsOfConstants ==
  ASSUME NEW f, FrameSound(f), AllConstant(f)
  PROVE  Reads(f) \subseteq {"Constant", "PushConstant"}
<1>1. DOMAIN f.args = 1 .. Len(f.args)
  BY LenProperties DEF FrameSound, IsASequence
<1>2. ASSUME NEW k \in DOMAIN f.args PROVE f.args[k].reads \subseteq {"Constant", "PushConstant"}
  <2>1. Sound(f.args[k]) /\ f.args[k].is_compile_constant
    BY <1>1 DEF FrameSound, AllConstant
  <2> QED
    BY <2>1 DEF Sound, ReadsConstants
<1> QED
  BY <1>2 DEF Reads

LEMMA ExprOfSound ==
  ASSUME NEW f, FrameSound(f), Complete(f), Sized(infer_type_)
  PROVE  Sound(ExprOf(f))
<1>1. Sized(TypeOf(f)) /\ Sound(Arg(f, 1))
  BY TypeOfSized, ArgumentsThere
<1>2. CASE f.node.kind = "paren"
  <2>1. ExprOf(f) = Arg(f, 1)
    BY <1>2 DEF ExprOf
  <2> QED
    BY <1>1, <2>1
<1>3. CASE f.node.kind \in {"list", "construct"}
  <2>1. /\ ExprOf(f).type = TypeOf(f) /\ ExprOf(f).is_literal = FALSE
        /\ ExprOf(f).reads = Reads(f)
        /\ ExprOf(f).is_compile_constant = AllConstant(f)
    BY <1>3 DEF ExprOf, NewExpr
  <2>2. ReadsConstants(ExprOf(f))
    BY <2>1, ReadsOfConstants DEF ReadsConstants
  <2> QED
    BY <1>1, <2>1, <2>2 DEF Sound, Denotes
<1>4. CASE f.node.kind \notin {"paren", "list", "construct"}
  <2>1. /\ ExprOf(f).type = TypeOf(f) /\ ExprOf(f).is_literal = FALSE
        /\ ExprOf(f).is_compile_constant = FALSE
    BY <1>4 DEF ExprOf, NewExpr
  <2> QED
    BY <1>1, <2>1 DEF Sound, Denotes, ReadsConstants
<1> QED
  BY <1>2, <1>3, <1>4

-----------------------------------------------------------------------------
(* Delivering an Expr to the node below. *)

\* The nodes of gs are those of fs, whatever their operands.
SameNodes(fs, gs) ==
  /\ Len(gs) = Len(fs)
  /\ \A k \in 1 .. Len(fs) : gs[k].node = fs[k].node /\ gs[k].save = fs[k].save

LEMMA EmptyStack ==
  ASSUME NEW s, IsASequence(s) PROVE Len(s) \in Nat /\ (s = <<>> <=> Len(s) = 0)
BY EmptySeq, LenProperties DEF IsASequence

LEMMA OperandAdded ==
  ASSUME NEW f, FrameSound(f), IndexChecked(f), NEW e, Sound(e),
         NEW g, g = [f EXCEPT !.args = Append(@, e)]
  PROVE  /\ FrameSound(g) /\ g.node = f.node /\ g.save = f.save
         /\ OperandOK(f, e) => IndexChecked(g)
<1>1. g = [node |-> f.node, save |-> f.save, args |-> Append(f.args, e)]
  BY DEF FrameSound, IsFrame
<1>2. /\ IsASequence(Append(f.args, e)) /\ Len(f.args) \in Nat
      /\ Len(Append(f.args, e)) = Len(f.args) + 1
      /\ \A i \in 1 .. Len(f.args) : Append(f.args, e)[i] = f.args[i]
      /\ Append(f.args, e)[Len(f.args) + 1] = e
  BY AppendToSequence DEF FrameSound
<1>3. g.node = f.node /\ g.save = f.save /\ g.args = Append(f.args, e)
  BY <1>1
<1>4. ASSUME NEW i \in 1 .. Len(g.args) PROVE Sound(g.args[i])
  <2>1. i \in 1 .. Len(f.args) \/ i = Len(f.args) + 1
    BY <1>2, <1>3
  <2> QED
    BY <1>2, <1>3, <2>1 DEF FrameSound
<1>5. FrameSound(g)
  BY <1>1, <1>2, <1>3, <1>4 DEF FrameSound, IsFrame
<1>6. ASSUME OperandOK(f, e), f.node.kind = "index" PROVE IsIndexType(g.args[1].type)
  <2>1. CASE Len(f.args) = 0
    <3>1. g.args[1] = e
      BY <1>2, <1>3, <2>1
    <3>2. Len(f.args) + 1 = 1 => IsIndexType(e.type)
      BY <1>6 DEF OperandOK
    <3> QED
      BY <1>6, <2>1, <3>1, <3>2
  <2>2. CASE Len(f.args) # 0
    <3>1. 1 \in 1 .. Len(f.args) /\ Len(f.args) >= 1
      BY <1>2, <2>2
    <3> QED
      BY <1>2, <1>3, <1>6, <3>1 DEF IndexChecked
  <2> QED
    BY <2>1, <2>2
<1> QED
  BY <1>3, <1>5, <1>6 DEF IndexChecked

\* fs is what is left of the stack, and e is returned to its last node.
LEMMA Delivered ==
  ASSUME NEW fs, StackSound(fs), StackChecked(fs), NEW e, Sound(e), Sound(value),
         Deliver(fs, e)
  PROVE  /\ StackSound(frames') /\ SameNodes(fs, frames') /\ Sound(value')
         /\ status' = "visiting" => StackChecked(frames')
<1>0. IsASequence(fs) /\ Len(fs) \in Nat /\ (fs = <<>> <=> Len(fs) = 0)
  BY EmptyStack DEF StackSound
<1>1. CASE fs = <<>>
  <2>1. frames' = fs /\ value' = e
    BY <1>1 DEF Deliver
  <2> QED
    BY <2>1 DEF SameNodes
<1>2. CASE fs # <<>>
  <2> DEFINE n == Len(fs)
             g == [fs[n] EXCEPT !.args = Append(@, e)]
  <2>1. /\ frames' = [fs EXCEPT ![n] = g]
        /\ status' = IF OperandOK(fs[n], e) THEN status ELSE "failed"
        /\ value' = value
    BY <1>2 DEF Deliver
  <2>2. n \in 1 .. n /\ n >= 1
    BY <1>0, <1>2
  <2>3. /\ FrameSound(g) /\ g.node = fs[n].node /\ g.save = fs[n].save
        /\ OperandOK(fs[n], e) => IndexChecked(g)
    BY <2>2, OperandAdded DEF StackSound, StackChecked
  <2> HIDE DEF g
  <2>4. /\ IsASequence(frames') /\ Len(frames') = n /\ frames'[n] = g
        /\ \A i \in 1 .. n - 1 : frames'[i] = fs[i]
    <3>1. /\ IsASequence([fs EXCEPT ![Len(fs)] = g])
          /\ Len([fs EXCEPT ![Len(fs)] = g]) = Len(fs)
          /\ [fs EXCEPT ![Len(fs)] = g][Len(fs)] = g
          /\ \A i \in 1 .. Len(fs) - 1 : [fs EXCEPT ![Len(fs)] = g][i] = fs[i]
      BY <1>0, <2>2, ExceptSequence
    <3> QED
      BY <2>1, <3>1, Zenon
  <2>5. ASSUME NEW k \in 1 .. n
        PROVE  /\ FrameSound(frames'[k])
               /\ frames'[k].node = fs[k].node /\ frames'[k].save = fs[k].save
               /\ OperandOK(fs[n], e) => IndexChecked(frames'[k])
    <3>1. k = n \/ k \in 1 .. n - 1
      BY <1>0
    <3> QED
      BY <2>3, <2>4, <3>1 DEF StackSound, StackChecked
  <2>6. status' = "visiting" => OperandOK(fs[n], e)
    BY <2>1
  <2> QED
    BY <2>1, <2>4, <2>5, <2>6 DEF StackSound, StackChecked, SameNodes
<1> QED
  BY <1>1, <1>2

\* The last node is taken off.
LEMMA Popped ==
  ASSUME StackSound(frames), StackChecked(frames), frames # <<>>,
         NEW fs, fs = SubSeq(frames, 1, Depth - 1)
  PROVE  /\ StackSound(fs) /\ StackChecked(fs)
         /\ Depth \in Nat /\ Depth >= 1 /\ Len(fs) = Depth - 1
         /\ \A k \in 1 .. Depth - 1 : fs[k] = frames[k]
<1>1. IsASequence(frames) /\ Depth \in Nat /\ Depth >= 1
  BY EmptyStack DEF StackSound, Depth
<1>2. /\ IsASequence(fs) /\ Len(fs) = Depth - 1
      /\ \A k \in 1 .. Depth - 1 : fs[k] = frames[k]
  BY <1>1, PopSequence DEF Depth
<1>3. \A k \in 1 .. Depth - 1 : k \in 1 .. Depth
  BY <1>1
<1> QED
  BY <1>1, <1>2, <1>3 DEF StackSound, StackChecked, Depth

-----------------------------------------------------------------------------
(* infer_type_ and its positions. *)

\* The same of any stack: ctx around it, infer on top of it.
Meant(ctx, fs, k) == IF k = 1 THEN ctx ELSE InferIn(fs[k - 1])
Positions(ctx, fs, infer) ==
  /\ \A k \in 1 .. Len(fs) : fs[k].save = Meant(ctx, fs, k)
  /\ infer = Meant(ctx, fs, Len(fs) + 1)

LEMMA PositionsAre ==
  /\ InferTypeMatchesPosition <=> Positions(context, frames, infer_type_)
  /\ InferTypeMatchesPosition' <=> Positions(context', frames', infer_type_')
BY DEF InferTypeMatchesPosition, MeantAt, Depth, Positions, Meant

\* gs has the lowest nodes of fs, and infer is what their depth calls for.
LEMMA PositionsKept ==
  ASSUME NEW ctx, NEW fs, NEW old, Positions(ctx, fs, old), Len(fs) \in Nat,
         NEW gs, Len(gs) \in Nat, Len(gs) <= Len(fs),
         \A k \in 1 .. Len(gs) : gs[k].node = fs[k].node /\ gs[k].save = fs[k].save,
         NEW infer, infer = Meant(ctx, fs, Len(gs) + 1)
  PROVE  Positions(ctx, gs, infer)
<1>1. ASSUME NEW k \in 1 .. Len(gs) + 1 PROVE Meant(ctx, gs, k) = Meant(ctx, fs, k)
  <2>1. CASE k = 1
    BY <2>1 DEF Meant
  <2>2. CASE k # 1
    <3>1. k - 1 \in 1 .. Len(gs)
      BY <2>2
    <3>2. InferIn(gs[k - 1]) = InferIn(fs[k - 1])
      BY <3>1, InferInSame
    <3> QED
      BY <2>2, <3>2 DEF Meant
  <2> QED
    BY <2>1, <2>2
<1>2. ASSUME NEW k \in 1 .. Len(gs) PROVE gs[k].save = Meant(ctx, gs, k)
  <2>1. k \in 1 .. Len(fs) /\ k \in 1 .. Len(gs) + 1
    OBVIOUS
  <2> QED
    BY <1>1, <2>1 DEF Positions
<1>3. Len(gs) + 1 \in 1 .. Len(gs) + 1
  OBVIOUS
<1> QED
  BY <1>1, <1>2, <1>3 DEF Positions

\* One node more, entered with infer_type_ as it was.
LEMMA PositionsEntered ==
  ASSUME NEW ctx, NEW fs, NEW old, Positions(ctx, fs, old), Len(fs) \in Nat,
         NEW f, f.save = old,
         NEW gs, Len(gs) = Len(fs) + 1, gs[Len(fs) + 1] = f,
         \A k \in 1 .. Len(fs) : gs[k] = fs[k]
  PROVE  Positions(ctx, gs, InferIn(f))
<1>1. ASSUME NEW k \in 1 .. Len(fs) + 1 PROVE Meant(ctx, gs, k) = Meant(ctx, fs, k)
  <2>1. k # 1 => k - 1 \in 1 .. Len(fs)
    OBVIOUS
  <2> QED
    BY <2>1 DEF Meant
<1>2. ASSUME NEW k \in 1 .. Len(gs) PROVE gs[k].save = Meant(ctx, gs, k)
  <2>1. k \in 1 .. Len(fs) + 1 /\ (k \in 1 .. Len(fs) \/ k = Len(fs) + 1)
    OBVIOUS
  <2> QED
    BY <1>1, <2>1 DEF Positions
<1>3. Meant(ctx, gs, Len(gs) + 1) = InferIn(f)
  <2>1. Len(gs) + 1 # 1 /\ (Len(gs) + 1) - 1 = Len(fs) + 1
    OBVIOUS
  <2> QED
    BY <2>1 DEF Meant
<1> QED
  BY <1>2, <1>3 DEF Positions

\* A node that is left put infer_type_ back, or has never changed it.
LEMMA RestoredAsMeant ==
  ASSUME Positions(context, frames, infer_type_), Depth \in Nat, Depth >= 1
  PROVE  Restored(Here) = Meant(context, frames, Depth)
<1>1. Depth \in 1 .. Depth /\ Depth + 1 # 1 /\ (Depth + 1) - 1 = Depth
  OBVIOUS
<1>2. Here.save = Meant(context, frames, Depth) /\ infer_type_ = Meant(context, frames, Depth + 1)
  BY <1>1 DEF Positions, Here, Depth
<1>3. Meant(context, frames, Depth + 1) = InferIn(Here)
  BY <1>1 DEF Meant, Here
<1>4. CASE Here.node.kind \in {"list", "construct", "call"}
  BY <1>2, <1>4 DEF Restored
<1>5. CASE Here.node.kind \notin {"list", "construct", "call"}
  <2>1. InferIn(Here) = Here.save
    BY <1>5 DEF InferIn
  <2> QED
    BY <1>2, <1>3, <1>5, <2>1 DEF Restored
<1> QED
  BY <1>4, <1>5

-----------------------------------------------------------------------------
(* The actions. *)

LEMMA InitKeeps == ASSUME Init PROVE IInv
<1>1. IsASequence(<<>>) /\ Len(<<>>) = 0
  <2>1. <<>> \in Seq({})
    OBVIOUS
  <2> QED
    BY <2>1 DEF IsASequence
<1>2. Sized(context)
  BY ContextsAssumption DEF Init, HLSVType, Sized
<1>3. Sound(value)
  BY UninferredSized, NewExprSound DEF Init
<1>4. StackSound(frames) /\ StackChecked(frames)
  BY <1>1 DEF Init, StackSound, StackChecked
<1>5. InferTypeMatchesPosition
  BY <1>1 DEF Init, InferTypeMatchesPosition, MeantAt, Depth
<1> QED
  BY <1>2, <1>3, <1>4, <1>5 DEF Init, IInv

LEMMA ErrorKeeps == ASSUME IInv, ERROR PROVE IInv'
<1>1. InferTypeMatchesPosition'
  BY DEF ERROR, IInv, InferTypeMatchesPosition, MeantAt, Depth
<1> QED
  BY <1>1 DEF ERROR, IInv

LEMMA LeafKeeps ==
  ASSUME IInv, NEW ok, NEW e, ok => Sound(e), Leaf(ok, e)
  PROVE  IInv'
<1>1. CASE ok
  <2>1. /\ Deliver(frames, e) /\ UNCHANGED <<infer_type_, context>>
        /\ StackSound(frames) /\ StackChecked(frames) /\ Sound(value) /\ Sound(e)
    BY <1>1 DEF Leaf, Expected, IInv
  <2>2. /\ StackSound(frames') /\ SameNodes(frames, frames') /\ Sound(value')
        /\ status' = "visiting" => StackChecked(frames')
    BY <2>1, Delivered
  <2>3. Depth \in Nat /\ Depth' = Depth
    BY <2>1, <2>2, EmptyStack DEF StackSound, SameNodes, Depth
  <2>4. Positions(context, frames, infer_type_)
    BY PositionsAre DEF IInv
  <2>5. Positions(context, frames', infer_type_)
    <3>1. infer_type_ = Meant(context, frames, Len(frames') + 1)
      BY <2>2, <2>4 DEF Positions, SameNodes
    <3> QED
      BY <2>2, <2>3, <2>4, <3>1, PositionsKept DEF SameNodes, Depth
  <2>6. InferTypeMatchesPosition'
    BY <2>1, <2>5, PositionsAre
  <2> QED
    BY <2>1, <2>2, <2>6 DEF IInv
<1>2. CASE ~ ok
  BY <1>2, ErrorKeeps DEF Leaf
<1> QED
  BY <1>1, <1>2

LEMMA EnterKeeps == ASSUME IInv, NEW node \in Nodes, Enter(node) PROVE IInv'
<1> DEFINE f == Frame(node, infer_type_)
<1>1. CASE EnterOK(node)
  <2>1. /\ frames' = Append(frames, f) /\ infer_type_' = InferIn(f)
        /\ UNCHANGED <<status, context, value>> /\ status = "visiting"
    BY <1>1 DEF Enter, Expected
  <2>2. f = [node |-> node, save |-> infer_type_, args |-> <<>>]
    BY DEF Frame
  <2>3. IsASequence(<<>>) /\ Len(<<>>) = 0
    <3>1. <<>> \in Seq({})
      OBVIOUS
    <3> QED
      BY <3>1 DEF IsASequence
  <2>4. f.node = node /\ f.save = infer_type_ /\ f.args = <<>>
    BY <2>2
  <2>5. FrameSound(f) /\ IndexChecked(f)
    BY <2>2, <2>3, <2>4 DEF IInv, FrameSound, IsFrame, IndexChecked
  <2> HIDE DEF f
  <2>6. /\ IsASequence(frames') /\ Depth \in Nat /\ Depth' = Depth + 1 /\ frames'[Depth + 1] = f
        /\ \A k \in 1 .. Depth : frames'[k] = frames[k]
    <3>1. IsASequence(frames)
      BY DEF IInv, StackSound
    <3> QED
      BY <2>1, <3>1, AppendToSequence DEF Depth
  <2>7. \A k \in 1 .. Depth' : k \in 1 .. Depth \/ k = Depth + 1
    BY <2>6
  <2>8. StackSound(frames') /\ StackChecked(frames')
    BY <2>1, <2>5, <2>6, <2>7 DEF IInv, StackSound, StackChecked, Depth
  <2>9. InferTypeMatchesPosition'
    <3>1. Positions(context, frames, infer_type_)
      BY PositionsAre DEF IInv
    <3>2. Positions(context, frames', InferIn(f))
      BY <2>4, <2>6, <3>1, PositionsEntered DEF Depth
    <3> QED
      BY <2>1, <3>2, PositionsAre
  <2>10. Sized(infer_type_') /\ Sized(context') /\ Sound(value')
    BY <2>1, <2>5, InferInSized DEF IInv, FrameSound
  <2> QED
    BY <2>8, <2>9, <2>10 DEF IInv
<1>2. CASE ~ EnterOK(node)
  BY <1>2, ErrorKeeps DEF Enter
<1> QED
  BY <1>1, <1>2

LEMMA LeaveKeeps == ASSUME IInv, Leave PROVE IInv'
<1> DEFINE fs == SubSeq(frames, 1, Depth - 1)
<1>1. CASE LeaveOK(Here)
  <2>1. /\ Deliver(fs, ExprOf(Here)) /\ infer_type_' = Restored(Here) /\ context' = context
        /\ frames # <<>> /\ Complete(Here)
        /\ StackSound(frames) /\ StackChecked(frames) /\ Sound(value)
        /\ Sized(infer_type_) /\ Sized(context)
    BY <1>1 DEF Leave, IInv, Complete
  <2>2. /\ StackSound(fs) /\ StackChecked(fs)
        /\ Depth \in Nat /\ Depth >= 1 /\ Len(fs) = Depth - 1
        /\ \A k \in 1 .. Depth - 1 : fs[k] = frames[k]
    BY <2>1, Popped
  <2> HIDE DEF fs
  <2>3. Depth \in 1 .. Depth
    BY <2>2
  <2>4. FrameSound(Here)
    BY <2>1, <2>3 DEF StackSound, Here, Depth
  <2>5. Sound(ExprOf(Here))
    BY <2>1, <2>4, ExprOfSound
  <2>6. /\ StackSound(frames') /\ SameNodes(fs, frames') /\ Sound(value')
        /\ status' = "visiting" => StackChecked(frames')
    BY <2>1, <2>2, <2>5, Delivered
  <2>7. Depth' = Depth - 1
    BY <2>2, <2>6 DEF SameNodes, Depth
  <2>8. Positions(context, frames, infer_type_)
    BY PositionsAre DEF IInv
  <2>9. InferTypeMatchesPosition'
    <3>1. infer_type_' = Meant(context, frames, Len(frames') + 1)
      <4>1. Restored(Here) = Meant(context, frames, Depth) /\ Len(frames') + 1 = Depth
        BY <2>2, <2>7, <2>8, RestoredAsMeant DEF Depth
      <4> QED
        BY <2>1, <4>1
    <3>2. /\ Len(frames') \in Nat /\ Len(frames') <= Len(frames) /\ Len(frames) \in Nat
          /\ \A k \in 1 .. Len(frames') : frames'[k].node = frames[k].node /\ frames'[k].save = frames[k].save
      BY <2>2, <2>6, <2>7 DEF SameNodes, Depth
    <3>3. Positions(context, frames', infer_type_')
      BY <2>8, <3>1, <3>2, PositionsKept
    <3> QED
      BY <2>1, <3>3, PositionsAre
  <2>10. Sized(infer_type_')
    BY <2>1, <2>4 DEF Restored, FrameSound
  <2> QED
    BY <2>1, <2>6, <2>9, <2>10 DEF IInv
<1>2. CASE ~ LeaveOK(Here)
  BY <1>2, ErrorKeeps DEF Leave
<1> QED
  BY <1>1, <1>2

LEMMA NextKeeps == ASSUME IInv, [Next]_vars PROVE IInv'
<1>1. CASE UNCHANGED vars
  BY <1>1 DEF vars, IInv, InferTypeMatchesPosition, MeantAt, Depth
<1>2. ASSUME NEW v \in Variables, VariableAtom(v) PROVE IInv'
  BY <1>2, VariableSound, LeafKeeps DEF VariableAtom
<1>3. ASSUME NEW v \in Variables, Step(v) PROVE IInv'
  <2>1. Sound([NewExpr(PlainType(v.type.type)) EXCEPT !.reads = {v.scope}])
    BY PlainSized DEF NewExpr, Sound, ReadsConstants, Denotes
  <2> QED
    BY <1>3, <2>1, LeafKeeps DEF Step
<1>4. CASE BooleanLiteral
  BY <1>4, OtherLiteralSound, LeafKeeps DEF BooleanLiteral
<1>5. CASE FloatLiteral
  BY <1>5, OtherLiteralSound, LeafKeeps DEF FloatLiteral
<1>6. ASSUME NEW tk \in Literals, IntegerLiteral(tk) PROVE IInv'
  BY <1>6, IntegerSound, LeafKeeps DEF IntegerLiteral
<1>7. ASSUME NEW node \in Nodes, Enter(node) PROVE IInv'
  BY <1>7, EnterKeeps
<1>8. CASE Leave
  BY <1>8, LeaveKeeps
<1>9. CASE Ended
  BY <1>1, <1>9 DEF Ended
<1> QED
  BY <1>1, <1>2, <1>3, <1>4, <1>5, <1>6, <1>7, <1>8, <1>9 DEF Next

THEOREM Inductive == Spec => []IInv
<1>1. Init => IInv
  BY InitKeeps
<1>2. IInv /\ [Next]_vars => IInv'
  BY NextKeeps
<1> QED
  BY <1>1, <1>2, PTL DEF Spec

-----------------------------------------------------------------------------
(* The theorems. *)

\* Expressions of any depth: whatever was visited to the left, a node finds
\* infer_type_ as its position calls for.
THEOREM InferTypeIsPositional == Spec => []InferTypeMatchesPosition
<1>1. IInv => InferTypeMatchesPosition
  BY DEF IInv
<1> QED
  BY <1>1, Inductive, PTL

LEMMA ExprsSound == ASSUME IInv, NEW e \in Exprs PROVE Sound(e)
<1>1. CASE e = value
  BY <1>1 DEF IInv
<1>2. CASE \E k \in 1 .. Depth : e \in ToSet(frames[k].args)
  <2>1. PICK k \in 1 .. Depth : e \in ToSet(frames[k].args)
    BY <1>2
  <2>2. FrameSound(frames[k])
    BY <2>1 DEF IInv, StackSound, Depth
  <2>3. DOMAIN frames[k].args = 1 .. Len(frames[k].args)
    BY <2>2, LenProperties DEF FrameSound, IsASequence
  <2> QED
    BY <2>1, <2>2, <2>3 DEF ToSet, FrameSound
<1> QED
  BY <1>1, <1>2 DEF Exprs

\* What passes for a compile-time constant reads constants alone, through
\* casts and lists of any depth and width.
THEOREM ConstantsAreClosed == Spec => []ConstantsReadConstants
<1>1. IInv => ConstantsReadConstants
  BY ExprsSound DEF ConstantsReadConstants, Sound, ReadsConstants
<1> QED
  BY <1>1, Inductive, PTL

\* Every accepted literal denotes the number written, for any word size.
THEOREM LiteralsDenoteWritten == Spec => []LiteralsDenote
<1>1. IInv => LiteralsDenote
  BY ExprsSound DEF LiteralsDenote, Sound, Denotes
<1> QED
  BY <1>1, Inductive, PTL

LEMMA ExtentSmall == ASSUME NEW vt, Sized(vt) PROVE Extent(vt) \in 0 .. 255
<1>1. CASE vt.is_array
  <2>1. Extent(vt) = vt.count
    BY <1>1, Zenon DEF Extent
  <2> QED
    BY <1>1, <2>1 DEF Sized, uint8
<1>2. CASE ~ vt.is_array /\ IsVectorType(vt.type)
  <2>1. vt.type \in 1 .. 16
    BY <1>2 DEF IsVectorType, ScalarOrVector, Bool
  <2>2. Extent(vt) = GetComponentCount(vt.type)
    <3>1. ~ IsMatrixType(vt.type)
      BY <2>1 DEF IsMatrixType, Matrices, Mat2, Mat4
    <3> QED
      BY <1>2, <3>1 DEF Extent
  <2>3. GetComponentCount(vt.type) = ((vt.type - 1) % 4) + 1
    BY <2>1 DEF GetComponentCount, IsHandleType, IsMatrixType, Handles, Matrices, Void, Mat2, Mat4,
                Tex1D, SubpassInput
  <2>4. ((vt.type - 1) % 4) + 1 \in 0 .. 255
    BY <2>1
  <2> QED
    BY <2>2, <2>3, <2>4
<1>3. CASE ~ vt.is_array /\ ~ IsVectorType(vt.type) /\ IsMatrixType(vt.type)
  <2>1. Extent(vt) = MatrixSide(vt.type)
    BY <1>3 DEF Extent
  <2>2. vt.type \in 150 .. 152
    BY <1>3 DEF IsMatrixType, Matrices, Mat2, Mat4
  <2> QED
    BY <2>1, <2>2 DEF MatrixSide, Mat2
<1>4. CASE ~ vt.is_array /\ ~ IsVectorType(vt.type) /\ ~ IsMatrixType(vt.type)
  BY <1>4 DEF Extent
<1> QED
  BY <1>1, <1>2, <1>3, <1>4

LEMMA IndexesAreIntegers == ASSUME NEW vt, IsIndexType(vt) PROVE vt.type \in {SInt, UInt}
<1>1. /\ vt.type \in 1 .. 16 /\ vt.type % 4 = 1
      /\ GetComponentType(vt.type) \notin {Float, Bool}
  BY DEF IsIndexType, IsScalarInteger, IsScalarType, IsIntegerType, ScalarOrVector, Bool
<1>2. vt.type \in {1, 5, 9, 13}
  BY <1>1
<1>3. GetComponentType(1) = Bool /\ GetComponentType(13) = Float
  BY DEF GetComponentType, IsMatrixType, Matrices, Handles, Void, Error, Bool, Float, Mat2, Mat4,
         Tex1D, SubpassInput
<1> QED
  BY <1>1, <1>2, <1>3 DEF SInt, UInt

\* A literal index that is accepted is within its array, vector or matrix,
\* however long it is and however wide a word.
THEOREM LiteralIndexesFit == Spec => []IndexWithinBounds
<1>1. ASSUME IInv, NEW k \in 1 .. Depth,
             frames[k].node.kind = "index", status = "visiting",
             Complete(frames[k]), LeaveOK(frames[k]), frames[k].args[1].is_literal
      PROVE  frames[k].args[1].written \in 0 .. Extent(frames[k].args[2].type) - 1
  <2> DEFINE f == frames[k]
             index == f.args[1]
             extent == Extent(f.args[2].type)
  <2>1. FrameSound(f) /\ IndexChecked(f)
    BY <1>1 DEF IInv, StackSound, StackChecked, Depth
  <2>2. f.node.arity = 2 /\ Len(f.args) = 2
    BY <1>1, <2>1, NodesAssumption DEF Complete, FrameSound
  <2>3. Sound(index) /\ Sound(f.args[2]) /\ IsIndexType(index.type)
    BY <1>1, <2>1, <2>2 DEF FrameSound, IndexChecked
  <2>4. extent \in 0 .. 255
    BY <2>3, ExtentSmall DEF Sound
  <2>5. index.bits < extent
    BY <1>1 DEF LeaveOK, IndexFits, Arg
  <2>6. index.bits \in Nat /\ index.written = IF index.type.type = SInt THEN AsSigned(index.bits)
                                              ELSE index.bits
    BY <1>1, <2>3, IndexesAreIntegers DEF Sound, Denotes
  <2>7. AsSigned(index.bits) = index.bits
    <3>1. INT32_MAX \in Nat /\ INT32_MAX >= 255
      BY WordAssumption DEF INT32_MAX
    <3> HIDE DEF extent, index
    <3> QED
      BY <2>4, <2>5, <2>6, <3>1 DEF AsSigned
  <2> HIDE DEF extent, index
  <2>8. index.written \in 0 .. extent - 1
    BY <2>4, <2>5, <2>6, <2>7
  <2> QED
    BY <2>8 DEF extent, index
<1>2. IInv => IndexWithinBounds
  BY <1>1 DEF IndexWithinBounds
<1> QED
  BY <1>2, Inductive, PTL

-----------------------------------------------------------------------------
(* Types of the language: what has a type, what promotes to what. *)

ScalarTypes == {Bool, SInt, UInt, Float}
ArgumentTypes == PrimTypes \ {Error}

LEMMA TypeCodes ==
  /\ ScalarTypes = {1, 5, 9, 13} /\ ScalarOrVector = 1 .. 16 /\ Matrices = 150 .. 152
  /\ Handles = 200 .. 211 /\ Void = 0 /\ Error = 255
  /\ \A t : IsScalarType(t) <=> t \in ScalarTypes
  /\ \A t : IsVectorType(t) <=> t \in (1 .. 16) \ ScalarTypes
  /\ \A t : IsMatrixType(t) <=> t \in 150 .. 152
  /\ \A t : IsValueType(t) <=> t \in (1 .. 16) \cup (150 .. 152)
  /\ \A t : IsImageType(t) <=> t \in 206 .. 210
  /\ PrimTypes = {0, 255} \cup (1 .. 16) \cup (150 .. 152) \cup (200 .. 211)
<1>1. /\ ScalarTypes = {1, 5, 9, 13} /\ ScalarOrVector = 1 .. 16 /\ Matrices = 150 .. 152
      /\ Handles = 200 .. 211 /\ Void = 0 /\ Error = 255
  BY DEF ScalarTypes, ScalarOrVector, Matrices, Handles, Void, Error, Bool, SInt, UInt, Float,
         Mat2, Mat4, Tex1D, SubpassInput
<1>2. ASSUME NEW t \in 1 .. 16 PROVE t % 4 = 1 <=> t \in {1, 5, 9, 13}
  OBVIOUS
<1>3. \A t : IsScalarType(t) <=> t \in ScalarTypes
  BY <1>1, <1>2 DEF IsScalarType
<1>4. \A t : IsVectorType(t) <=> t \in (1 .. 16) \ ScalarTypes
  BY <1>1, <1>2 DEF IsVectorType
<1>5. \A t : IsMatrixType(t) <=> t \in 150 .. 152
  BY <1>1 DEF IsMatrixType
<1>6. \A t : IsValueType(t) <=> t \in (1 .. 16) \cup (150 .. 152)
  BY <1>1 DEF IsValueType, ValueTypes
<1>7. \A t : IsImageType(t) <=> t \in 206 .. 210
  BY DEF IsImageType, Image1D, Image2DArray
<1>8. PrimTypes = {0, 255} \cup (1 .. 16) \cup (150 .. 152) \cup (200 .. 211)
  BY <1>1 DEF PrimTypes, ValueTypes
<1> QED
  BY <1>1, <1>3, <1>4, <1>5, <1>6, <1>7, <1>8

\* A scalar or vector type is its component type and its component count.
LEMMA VectorParts ==
  ASSUME NEW t \in 1 .. 16
  PROVE  /\ GetComponentCount(t) \in 1 .. 4 /\ GetComponentType(t) \in ScalarTypes
         /\ t = GetComponentType(t) + (GetComponentCount(t) - 1)
         /\ t \in ScalarTypes => GetComponentCount(t) = 1 /\ GetComponentType(t) = t
<1>1. GetComponentCount(t) = ((t - 1) % 4) + 1
  BY TypeCodes DEF GetComponentCount, IsHandleType
<1>2. GetComponentType(t) = ((t - 1) \div 4) * 4 + 1
  BY TypeCodes DEF GetComponentType
<1>3. t \in {1, 2, 3, 4, 5, 6, 7, 8, 9, 10, 11, 12, 13, 14, 15, 16}
  OBVIOUS
<1> QED
  BY <1>1, <1>2, <1>3, TypeCodes

LEMMA VectorsMade ==
  ASSUME NEW ct \in ScalarTypes, NEW n \in 1 .. 4
  PROVE  /\ MakeVectorType(ct, n) \in 1 .. 16 /\ MakeVectorType(ct, n) \in ArgumentTypes
         /\ GetComponentType(MakeVectorType(ct, n)) = ct
         /\ GetComponentCount(MakeVectorType(ct, n)) = n
<1>1. MakeVectorType(ct, n) = ct + (n - 1) /\ ct \in {1, 5, 9, 13} /\ n \in {1, 2, 3, 4}
  BY TypeCodes DEF MakeVectorType
<1> DEFINE t == MakeVectorType(ct, n)
<1>2. t \in 1 .. 16
  BY <1>1
<1> HIDE DEF t
<1>3. /\ GetComponentCount(t) \in 1 .. 4 /\ GetComponentType(t) \in {1, 5, 9, 13}
      /\ t = GetComponentType(t) + (GetComponentCount(t) - 1)
  BY <1>2, VectorParts, TypeCodes
<1>4. t = ct + (n - 1)
  BY <1>1 DEF t
<1>5. GetComponentType(t) = ct /\ GetComponentCount(t) = n
  BY <1>1, <1>3, <1>4
<1>6. t \in ArgumentTypes
  BY <1>2, TypeCodes DEF ArgumentTypes
<1> QED
  BY <1>2, <1>5, <1>6 DEF t

LEMMA OtherParts ==
  /\ GetComponentCount(Void) = 0 /\ GetComponentType(Void) = Void
  /\ \A t \in 200 .. 211 : GetComponentCount(t) = 1 /\ GetComponentType(t) = t
  /\ \A t \in 150 .. 152 : /\ GetComponentCount(t) \in {4, 9, 16} /\ GetComponentType(t) = Float
                           /\ MatrixSide(t) \in 2 .. 4
<1>1. GetComponentCount(Void) = 0 /\ GetComponentType(Void) = Void
  BY TypeCodes DEF GetComponentCount, GetComponentType, IsHandleType
<1>2. ASSUME NEW t \in 200 .. 211 PROVE GetComponentCount(t) = 1 /\ GetComponentType(t) = t
  BY TypeCodes DEF GetComponentCount, GetComponentType, IsHandleType
<1>3. ASSUME NEW t \in 150 .. 152
      PROVE  /\ GetComponentCount(t) \in {4, 9, 16} /\ GetComponentType(t) = Float
             /\ MatrixSide(t) \in 2 .. 4
  <2>1. GetComponentCount(t) = (t - 150 + 2) * (t - 150 + 2)
    BY TypeCodes DEF GetComponentCount, IsHandleType, Mat2
  <2>2. t \in {150, 151, 152}
    OBVIOUS
  <2>3. GetComponentCount(t) \in {4, 9, 16}
    BY <2>1, <2>2
  <2>4. GetComponentType(t) = Float
    BY TypeCodes DEF GetComponentType
  <2>5. MatrixSide(t) \in 2 .. 4
    BY <2>2 DEF MatrixSide, Mat2
  <2> QED
    BY <2>3, <2>4, <2>5
<1> QED
  BY <1>1, <1>2, <1>3

\* Types that promote to one another are the same, or scalars or vectors of
\* one component count.
LEMMA Promotions ==
  ASSUME NEW s \in ArgumentTypes, NEW t \in Nat, CanPromoteTo(s, t), s # t
  PROVE  /\ s \in 1 .. 16
         /\ GetComponentCount(s) = GetComponentCount(t)
         /\ GetComponentType(s) <= GetComponentType(t)
         /\ GetComponentType(t) # Bool
<1>1. /\ {s, t} \cap ({Void} \cup Handles \cup Matrices) = {}
      /\ GetComponentCount(s) = GetComponentCount(t)
      /\ Bool \notin {GetComponentType(s), GetComponentType(t)}
      /\ GetComponentType(s) <= GetComponentType(t)
  BY DEF CanPromoteTo
<1>2. s \notin {Void} \cup Handles \cup Matrices
  BY <1>1
<1>3. s \in 1 .. 16
  BY <1>2, TypeCodes DEF ArgumentTypes
<1> QED
  BY <1>1, <1>3

\* An operator that does not report an error has a type as its result.
LEMMA OperatorsTyped ==
  ASSUME NEW op \in BinaryOperators, NEW l \in ValueTypes, NEW r \in ValueTypes,
         OperatorType(op, l, r) # Error
  PROVE  OperatorType(op, l, r) \in ValueTypes
<1>1. /\ l \in (1 .. 16) \cup (150 .. 152) /\ r \in (1 .. 16) \cup (150 .. 152)
      /\ ValueTypes = (1 .. 16) \cup (150 .. 152)
  BY TypeCodes DEF ValueTypes
<1>2. GetComponentType(l) \in ScalarTypes /\ GetComponentType(r) \in ScalarTypes
  BY <1>1, VectorParts, OtherParts DEF ScalarTypes
<1>3. GetMostPromotedType(l, r) \in ScalarTypes
  BY <1>2 DEF GetMostPromotedType
<1>4. ASSUME NEW t \in 1 .. 16 PROVE Promoted(l, r, t) \in ValueTypes
  <2>1. Promoted(l, r, t) \in 1 .. 16
    BY <1>3, VectorParts, VectorsMade DEF Promoted
  <2> QED
    BY <1>1, <2>1
<1>5. IsVectorType(l) => l \in 1 .. 16
  BY TypeCodes
<1>6. /\ IsMatrixType(l) <=> l \in 150 .. 152
      /\ IsMatrixType(r) <=> r \in 150 .. 152
      /\ IsScalarType(l) <=> l \in ScalarTypes
      /\ IsScalarType(r) <=> r \in ScalarTypes
      /\ IsVectorType(l) <=> l \in (1 .. 16) \ ScalarTypes
      /\ IsVectorType(r) <=> r \in (1 .. 16) \ ScalarTypes
      /\ ScalarTypes \subseteq 1 .. 16
  BY TypeCodes
<1>7. ProductType(l, r) # Error => ProductType(l, r) \in ValueTypes
  BY <1>1, <1>4, <1>6 DEF ProductType
<1>8. QuotientType(l, r) # Error => QuotientType(l, r) \in ValueTypes
  BY <1>1, <1>3, <1>4, <1>6 DEF QuotientType
<1>9. SumType(l, r) # Error => SumType(l, r) \in ValueTypes
  BY <1>1, <1>4, <1>6 DEF SumType
<1>10. {Bool, SInt, UInt} \subseteq ValueTypes
  BY <1>1 DEF Bool, SInt, UInt
<1>11. CASE op = "*"
  BY <1>7, <1>11
  DEF OperatorType, Additive, Shifts, Relational, Equality, Bitwise, Logical
<1>12. CASE op = "/"
  BY <1>8, <1>12
  DEF OperatorType, Additive, Shifts, Relational, Equality, Bitwise, Logical
<1>13. CASE op = "%"
  BY <1>10, <1>13
  DEF OperatorType, Additive, Shifts, Relational, Equality, Bitwise, Logical
<1>14. CASE op \in Additive
  BY <1>9, <1>14
  DEF OperatorType, Additive, Shifts, Relational, Equality, Bitwise, Logical
<1>15. CASE op \in Shifts
  BY <1>15
  DEF OperatorType, Additive, Shifts, Relational, Equality, Bitwise, Logical
<1>16. CASE op \in Relational
  BY <1>10, <1>16
  DEF OperatorType, Additive, Shifts, Relational, Equality, Bitwise, Logical
<1>17. CASE op \in Equality
  BY <1>10, <1>17
  DEF OperatorType, Additive, Shifts, Relational, Equality, Bitwise, Logical
<1>18. CASE op \in Bitwise
  BY <1>18
  DEF OperatorType, Additive, Shifts, Relational, Equality, Bitwise, Logical
<1>19. CASE op \in Logical
  BY <1>10, <1>19
  DEF OperatorType, Additive, Shifts, Relational, Equality, Bitwise, Logical
<1> QED
  BY <1>11, <1>12, <1>13, <1>14, <1>15, <1>16, <1>17, <1>18, <1>19 DEF BinaryOperators

-----------------------------------------------------------------------------
(* The parameters of built-in functions. *)

\* A type as an argument has it: the format of an image is a texel type, or
\* none if the image is an element of an array.
GoodType(vt) ==
  /\ vt \in HLSVType /\ vt.type # Error
  /\ IsImageType(vt.type) => vt.extra \in ToSet(Texels) \cup {Void}

GoodParam(p) ==
  /\ p.type.is_array = FALSE /\ p.type.count = 1
  /\ p.type.type \in ValueTypes \cup Handles
  /\ p.gen_type \in BOOLEAN /\ p.exact \in BOOLEAN
  /\ p.gen_type => \/ p.type.type \in ScalarTypes
                   \/ IsImageType(p.type.type) /\ ~ p.exact

ParamRank(p) == GetComponentType(p.type.type)

\* A parameter that matches an argument which another, of no lower rank,
\* takes as it is, takes it as it is, too.
LEMMA BestParam ==
  ASSUME NEW p, GoodParam(p), NEW q, GoodParam(q), NEW typ, GoodType(typ),
         ParamMatches(p, typ), TakenAsIs(q, typ), ParamRank(p) <= ParamRank(q)
  PROVE  TakenAsIs(p, typ)
<1> DEFINE t == typ.type
           a == p.type.type
           b == q.type.type
<1>1. t \in ArgumentTypes /\ p.type.is_array = typ.is_array
  BY DEF GoodType, HLSVType, ArgumentTypes, ParamMatches
<1>2. /\ a \in (1 .. 16) \cup (150 .. 152) \cup (200 .. 211)
      /\ b \in (1 .. 16) \cup (150 .. 152) \cup (200 .. 211)
      /\ a \in Nat /\ b \in Nat
  BY TypeCodes DEF GoodParam, ValueTypes
<1>3. t # Void /\ GetComponentType(t) = GetComponentType(b)
  <2>1. CASE q.gen_type /\ IsScalarType(b)
    <3>1. GetComponentType(t) = b /\ b \in ScalarTypes
      BY <2>1, TypeCodes DEF TakenAsIs
    <3>2. GetComponentType(b) = b /\ b # Void
      BY <3>1, VectorParts, TypeCodes
    <3> QED
      BY <3>1, <3>2, OtherParts
  <2>2. CASE ~ (q.gen_type /\ IsScalarType(b))
    <3>1. t = b
      BY <2>2 DEF TakenAsIs
    <3> QED
      BY <1>2, <3>1, TypeCodes
  <2> QED
    BY <2>1, <2>2
<1>4. GetComponentType(a) <= GetComponentType(t)
  BY <1>3 DEF ParamRank
<1>5. ASSUME a \in ScalarTypes, CanPromoteTo(t, MakeVectorType(a, GetComponentCount(t)))
      PROVE  GetComponentType(t) = a
  <2> DEFINE v == MakeVectorType(a, GetComponentCount(t))
  <2>1. CASE t \in 1 .. 16
    <3>1. GetComponentCount(t) \in 1 .. 4 /\ GetComponentType(t) \in ScalarTypes
      BY <2>1, VectorParts
    <3>2. v \in 1 .. 16 /\ GetComponentType(v) = a
      BY <1>5, <3>1, VectorsMade
    <3>3. GetComponentType(a) = a
      BY <1>5, VectorParts, TypeCodes
    <3>4. CASE t = v
      BY <3>2, <3>4
    <3>5. CASE t # v
      <4>1. GetComponentType(t) <= GetComponentType(v)
        BY <1>1, <1>5, <3>2, <3>5, Promotions
      <4>2. a \in Int /\ GetComponentType(t) \in Int
        BY <1>5, <3>1, TypeCodes
      <4> QED
        BY <1>4, <3>2, <3>3, <4>1, <4>2
    <3> QED
      BY <3>4, <3>5
  <2>2. CASE t \notin 1 .. 16
    <3>1. t \in (150 .. 152) \cup (200 .. 211)
      BY <1>1, <1>3, <2>2, TypeCodes DEF ArgumentTypes
    <3>2. a \in {1, 5, 9, 13} /\ GetComponentCount(t) \in {1, 4, 9, 16}
      BY <1>5, <3>1, OtherParts, TypeCodes
    <3>3. v = a + (GetComponentCount(t) - 1)
      BY DEF MakeVectorType
    <3>4. v \in Nat /\ t # v
      BY <3>1, <3>2, <3>3
    <3> QED
      BY <1>1, <1>5, <2>2, <3>4, Promotions
  <2> QED
    BY <2>1, <2>2
<1>6. CASE p.gen_type /\ IsScalarType(a)
  <2>1. a \in ScalarTypes
    BY <1>6, TypeCodes
  <2>2. p.exact \/ CanPromoteTo(t, MakeVectorType(a, GetComponentCount(t))) \/ GetComponentType(t) = a
    BY <1>6 DEF ParamMatches, GenericMatches
  <2>3. p.exact => GetComponentType(t) = a
    BY <1>6 DEF ParamMatches, GenericMatches
  <2>4. GetComponentType(t) = a
    BY <1>5, <2>1, <2>2, <2>3
  <2> QED
    BY <1>1, <1>6, <2>4 DEF TakenAsIs
<1>7. CASE p.gen_type /\ ~ IsScalarType(a)
  <2>1. ~ p.exact
    BY <1>7, TypeCodes DEF GoodParam
  <2>2. t = a
    BY <1>7, <2>1 DEF ParamMatches, GenericMatches
  <2> QED
    BY <1>1, <1>7, <2>2 DEF TakenAsIs
<1>8. CASE ~ p.gen_type
  <2>1. typ = p.type \/ CanPromoteTo(t, a)
    BY <1>8 DEF ParamMatches
  <2>2. ASSUME CanPromoteTo(t, a), t # a PROVE FALSE
    <3>1. /\ t \in 1 .. 16 /\ GetComponentCount(t) = GetComponentCount(a)
          /\ GetComponentType(t) <= GetComponentType(a)
      BY <1>1, <1>2, <2>2, Promotions
    <3>2. a \in 1 .. 16
      <4>1. {t, a} \cap ({Void} \cup Handles \cup Matrices) = {}
        BY <2>2 DEF CanPromoteTo
      <4>2. a \notin {Void} \cup Handles \cup Matrices
        BY <4>1
      <4> QED
        BY <1>2, <4>2, TypeCodes
    <3>3. GetComponentType(t) \in Int /\ GetComponentType(a) \in Int
      BY <3>1, <3>2, VectorParts, TypeCodes
    <3>4. GetComponentType(t) = GetComponentType(a)
      BY <1>4, <3>1, <3>3
    <3>5. /\ t = GetComponentType(t) + (GetComponentCount(t) - 1)
          /\ a = GetComponentType(a) + (GetComponentCount(a) - 1)
      BY <3>1, <3>2, VectorParts
    <3> QED
      BY <2>2, <3>1, <3>4, <3>5
  <2>3. t = a
    BY <2>1, <2>2
  <2> QED
    BY <1>1, <1>8, <2>3 DEF TakenAsIs
<1> QED
  BY <1>6, <1>7, <1>8

-----------------------------------------------------------------------------
(* The table of functions: its entries are well formed, and an overload    *)
(* comes before those of higher rank. *)

GoodEntry(e) ==
  /\ IsASequence(e.params) /\ \A i \in 1 .. Len(e.params) : GoodParam(e.params[i])
  /\ IF e.gen_idx = NoIdx THEN e.returns \in ArgumentTypes
     ELSE /\ e.gen_idx \in 1 .. Len(e.params) /\ e.returns \in {Error, Bool}
          /\ e.params[e.gen_idx].gen_type /\ ~ e.params[e.gen_idx].exact

\* No argument matches p that q takes as it is.
Exclusive(p, q) ==
  \/ /\ p.type.type \in Handles /\ q.type.type \in Handles
     /\ p.type.type # q.type.type
  \/ ParamRank(p) # Bool /\ ParamRank(q) = Bool

Before(e, f) ==
  Len(e.params) = Len(f.params) =>
    \/ \E i \in 1 .. Len(e.params) : Exclusive(e.params[i], f.params[i])
    \/ \A i \in 1 .. Len(e.params) : ParamRank(e.params[i]) <= ParamRank(f.params[i])

GoodTable(s) ==
  /\ IsASequence(s) /\ \A i \in 1 .. Len(s) : GoodEntry(s[i])
  /\ \A i, j \in 1 .. Len(s) : i < j => Before(s[i], s[j])
AllBefore(s, t) == \A i \in 1 .. Len(s), j \in 1 .. Len(t) : Before(s[i], t[j])

\* The entry has n parameters, all of rank r.
Ranked(e, n, r) ==
  GoodEntry(e) /\ Len(e.params) = n /\ \A i \in 1 .. n : ParamRank(e.params[i]) = r

LEMMA ParamIsGood ==
  ASSUME NEW vt, vt.type \in ValueTypes \cup Handles, vt.is_array = FALSE, vt.count = 1,
         NEW generic \in BOOLEAN, NEW exact \in BOOLEAN,
         generic /\ exact => vt.type \in ValueTypes
  PROVE  LET p == Param(vt, generic, exact) IN
         /\ GoodParam(p) /\ p.type = vt /\ p.exact = exact
         /\ p.gen_type <=> generic /\ (vt.type \in ScalarTypes \/ IsImageType(vt.type))
<1> DEFINE p == Param(vt, generic, exact)
<1>1. /\ p.type = vt /\ p.exact = exact
      /\ p.gen_type = (generic /\ (IsScalarType(vt.type) \/ IsImageType(vt.type)))
  BY DEF Param
<1>2. IsImageType(vt.type) => vt.type \notin ValueTypes
  BY TypeCodes DEF ValueTypes
<1> HIDE DEF p
<1>3. p.gen_type \in BOOLEAN
  BY <1>1
<1>4. p.gen_type <=> generic /\ (vt.type \in ScalarTypes \/ IsImageType(vt.type))
  <2>1. IsScalarType(vt.type) <=> vt.type \in ScalarTypes
    BY TypeCodes
  <2> QED
    BY <1>1, <2>1, Zenon
<1>5. GoodParam(p)
  BY <1>1, <1>2, <1>3, <1>4 DEF GoodParam
<1> QED
  BY <1>1, <1>4, <1>5 DEF p

LEMMA PlainParam ==
  ASSUME NEW t \in ValueTypes \cup Handles
  PROVE  /\ GoodParam(Gen(t)) /\ Gen(t).type.type = t /\ Gen(t).exact = FALSE
         /\ t \in ScalarTypes \/ IsImageType(t) => Gen(t).gen_type
         /\ GoodParam(Just(t)) /\ Just(t).type.type = t
         /\ GoodParam(Exact(t)) /\ Exact(t).type.type = t
<1>1. PlainType(t).type = t /\ PlainType(t).is_array = FALSE /\ PlainType(t).count = 1
  BY DEF PlainType
<1>2. /\ GoodParam(Gen(t)) /\ Gen(t).type = PlainType(t) /\ Gen(t).exact = FALSE
      /\ t \in ScalarTypes \/ IsImageType(t) => Gen(t).gen_type
  BY <1>1, ParamIsGood DEF Gen
<1>3. GoodParam(Just(t)) /\ Just(t).type = PlainType(t)
  BY <1>1, ParamIsGood DEF Just
<1>4. GoodParam(Exact(t)) /\ Exact(t).type = PlainType(t)
  BY <1>1, ParamIsGood DEF Exact
<1> QED
  BY <1>1, <1>2, <1>3, <1>4

\* The parameters by rank: generic, of one type, of one type exactly.
LEMMA RankOfParam ==
  /\ \A ct \in ScalarTypes : /\ GoodParam(Gen(ct)) /\ ParamRank(Gen(ct)) = ct
                             /\ Gen(ct).gen_type /\ ~ Gen(ct).exact
                             /\ GoodParam(Just(ct)) /\ ParamRank(Just(ct)) = ct
  /\ \A t \in 150 .. 152 : GoodParam(Gen(t)) /\ ParamRank(Gen(t)) = Float
  /\ \A ct \in ScalarTypes, n \in 1 .. 4 :
       LET t == MakeVectorType(ct, n) IN
       /\ GoodParam(Gen(t)) /\ ParamRank(Gen(t)) = ct
       /\ GoodParam(Just(t)) /\ ParamRank(Just(t)) = ct
       /\ GoodParam(Exact(t)) /\ ParamRank(Exact(t)) = ct
<1>1. ASSUME NEW ct \in ScalarTypes
      PROVE  /\ GoodParam(Gen(ct)) /\ ParamRank(Gen(ct)) = ct
             /\ Gen(ct).gen_type /\ ~ Gen(ct).exact
             /\ GoodParam(Just(ct)) /\ ParamRank(Just(ct)) = ct
  <2>1. ct \in ValueTypes \cup Handles /\ GetComponentType(ct) = ct
    BY TypeCodes, VectorParts DEF ValueTypes
  <2> QED
    BY <2>1, PlainParam DEF ParamRank
<1>2. ASSUME NEW t \in 150 .. 152 PROVE GoodParam(Gen(t)) /\ ParamRank(Gen(t)) = Float
  <2>1. t \in ValueTypes \cup Handles /\ GetComponentType(t) = Float
    BY TypeCodes, OtherParts DEF ValueTypes
  <2> QED
    BY <2>1, PlainParam DEF ParamRank
<1>3. ASSUME NEW ct \in ScalarTypes, NEW n \in 1 .. 4
      PROVE  LET t == MakeVectorType(ct, n) IN
             /\ GoodParam(Gen(t)) /\ ParamRank(Gen(t)) = ct
             /\ GoodParam(Just(t)) /\ ParamRank(Just(t)) = ct
             /\ GoodParam(Exact(t)) /\ ParamRank(Exact(t)) = ct
  <2> DEFINE t == MakeVectorType(ct, n)
  <2>1. t \in ValueTypes \cup Handles /\ GetComponentType(t) = ct
    BY TypeCodes, VectorsMade DEF ValueTypes
  <2> HIDE DEF t
  <2>2. /\ GoodParam(Gen(t)) /\ ParamRank(Gen(t)) = ct
        /\ GoodParam(Just(t)) /\ ParamRank(Just(t)) = ct
        /\ GoodParam(Exact(t)) /\ ParamRank(Exact(t)) = ct
    BY <2>1, PlainParam DEF ParamRank
  <2> QED
    BY <2>2 DEF t
<1> QED
  BY <1>1, <1>2, <1>3

\* Entries by their number of parameters.
GoodResult(e) ==
  IF e.gen_idx = NoIdx THEN e.returns \in ArgumentTypes
  ELSE /\ e.gen_idx \in DOMAIN e.params /\ e.returns \in {Error, Bool}
       /\ e.params[e.gen_idx].gen_type /\ ~ e.params[e.gen_idx].exact

LEMMA EntryOfOne ==
  ASSUME NEW e, NEW p, e.params = <<p>>, GoodParam(p), GoodResult(e)
  PROVE  GoodEntry(e) /\ Len(e.params) = 1 /\ Ranked(e, 1, ParamRank(p))
<1>1. Len(<<p>>) = 1 /\ IsASequence(<<p>>) /\ DOMAIN <<p>> = 1 .. 1 /\ <<p>>[1] = p
  <2>1. <<p>> \in Seq({p})
    OBVIOUS
  <2>2. IsASequence(<<p>>)
    BY <2>1 DEF IsASequence
  <2> QED
    BY <2>2
<1>2. \A i \in 1 .. 1 : i = 1
  OBVIOUS
<1> QED
  BY <1>1, <1>2 DEF GoodEntry, GoodResult, Ranked

LEMMA EntryOfTwo ==
  ASSUME NEW e, NEW p, NEW q, e.params = <<p, q>>, GoodParam(p), GoodParam(q), GoodResult(e)
  PROVE  /\ GoodEntry(e) /\ Len(e.params) = 2
         /\ ParamRank(p) = ParamRank(q) => Ranked(e, 2, ParamRank(p))
<1>1. Len(<<p, q>>) = 2 /\ IsASequence(<<p, q>>) /\ DOMAIN <<p, q>> = 1 .. 2
      /\ <<p, q>>[1] = p /\ <<p, q>>[2] = q
  <2>1. <<p, q>> \in Seq({p, q})
    OBVIOUS
  <2>2. IsASequence(<<p, q>>)
    BY <2>1 DEF IsASequence
  <2> QED
    BY <2>2
<1>2. \A i \in 1 .. 2 : i = 1 \/ i = 2
  OBVIOUS
<1> QED
  BY <1>1, <1>2 DEF GoodEntry, GoodResult, Ranked

LEMMA EntryOfThree ==
  ASSUME NEW e, NEW p, NEW q, NEW r, e.params = <<p, q, r>>,
         GoodParam(p), GoodParam(q), GoodParam(r), GoodResult(e)
  PROVE  /\ GoodEntry(e) /\ Len(e.params) = 3
         /\ ParamRank(p) = ParamRank(q) /\ ParamRank(p) = ParamRank(r) => Ranked(e, 3, ParamRank(p))
<1>1. Len(<<p, q, r>>) = 3 /\ IsASequence(<<p, q, r>>) /\ DOMAIN <<p, q, r>> = 1 .. 3
      /\ <<p, q, r>>[1] = p /\ <<p, q, r>>[2] = q /\ <<p, q, r>>[3] = r
  <2>1. <<p, q, r>> \in Seq({p, q, r})
    OBVIOUS
  <2>2. IsASequence(<<p, q, r>>)
    BY <2>1 DEF IsASequence
  <2> QED
    BY <2>2
<1>2. \A i \in 1 .. 3 : i = 1 \/ i = 2 \/ i = 3
  OBVIOUS
<1> QED
  BY <1>1, <1>2 DEF GoodEntry, GoodResult, Ranked

LEMMA RankedBefore ==
  ASSUME NEW e, NEW f, NEW n, NEW r \in Nat, NEW s \in Nat, r <= s, Ranked(e, n, r), Ranked(f, n, s)
  PROVE  Before(e, f)
BY DEF Ranked, Before

LEMMA LongerBefore ==
  ASSUME NEW e, NEW f, Len(e.params) # Len(f.params) PROVE Before(e, f)
BY DEF Before

LEMMA ExclusiveBefore ==
  ASSUME NEW e, NEW f, Len(e.params) \in Nat, Len(e.params) >= 1,
         Exclusive(e.params[1], f.params[1])
  PROVE  Before(e, f)
BY DEF Before

\* Every entry of the table is ranked alike.
RankedTable(s, n, r) == IsASequence(s) /\ \A i \in 1 .. Len(s) : Ranked(s[i], n, r)

LEMMA SequenceOf ==
  ASSUME NEW n \in Nat, NEW s, DOMAIN s = 1 .. n, s = [i \in 1 .. n |-> s[i]]
  PROVE  IsASequence(s) /\ Len(s) = n
<1> DEFINE S == {s[i] : i \in 1 .. n}
<1>1. \A i \in 1 .. n : s[i] \in S
  OBVIOUS
<1> HIDE DEF S
<1>2. s \in [1 .. n -> S]
  BY <1>1
<1>3. s \in Seq(S) /\ Len(s) = n
  BY <1>2
<1> QED
  BY <1>3 DEF IsASequence

LEMMA OneEntry ==
  ASSUME NEW e PROVE /\ GoodEntry(e) => GoodTable(<<e>>)
                     /\ \A n, r : Ranked(e, n, r) => RankedTable(<<e>>, n, r)
<1>1. <<e>> \in Seq({e}) /\ Len(<<e>>) = 1 /\ <<e>>[1] = e
  OBVIOUS
<1>2. IsASequence(<<e>>)
  BY <1>1 DEF IsASequence
<1>3. \A i \in 1 .. 1 : i = 1
  OBVIOUS
<1> QED
  BY <1>1, <1>2, <1>3 DEF GoodTable, RankedTable

LEMMA TwoEntries ==
  ASSUME NEW e, NEW f
  PROVE  /\ GoodEntry(e) /\ GoodEntry(f) /\ Before(e, f) => GoodTable(<<e, f>>)
         /\ \A n, r : Ranked(e, n, r) /\ Ranked(f, n, r) => RankedTable(<<e, f>>, n, r)
<1>1. <<e, f>> \in Seq({e, f}) /\ Len(<<e, f>>) = 2 /\ <<e, f>>[1] = e /\ <<e, f>>[2] = f
  OBVIOUS
<1>2. IsASequence(<<e, f>>)
  BY <1>1 DEF IsASequence
<1>3. \A i \in 1 .. 2 : i = 1 \/ i = 2
  OBVIOUS
<1>4. \A i, j \in 1 .. 2 : i < j => i = 1 /\ j = 2
  OBVIOUS
<1> QED
  BY <1>1, <1>2, <1>3, <1>4 DEF GoodTable, RankedTable

LEMMA RankedIsGood ==
  ASSUME NEW s, NEW n, NEW r \in Nat, RankedTable(s, n, r) PROVE GoodTable(s)
<1>1. ASSUME NEW i \in 1 .. Len(s), NEW j \in 1 .. Len(s) PROVE Before(s[i], s[j])
  BY RankedBefore DEF RankedTable
<1> QED
  BY <1>1 DEF GoodTable, RankedTable, Ranked

LEMMA RanksBefore ==
  ASSUME NEW s, NEW t, NEW n, NEW q \in Nat, NEW r \in Nat, q <= r,
         RankedTable(s, n, q), RankedTable(t, n, r)
  PROVE  AllBefore(s, t)
BY RankedBefore DEF AllBefore, RankedTable

LEMMA Joined ==
  ASSUME NEW s, IsASequence(s), NEW t, IsASequence(t)
  PROVE  /\ IsASequence(s \o t) /\ Len(s) \in Nat /\ Len(t) \in Nat
         /\ Len(s \o t) = Len(s) + Len(t)
         /\ \A i \in 1 .. Len(s \o t) :
              \/ i \in 1 .. Len(s) /\ (s \o t)[i] = s[i]
              \/ i - Len(s) \in 1 .. Len(t) /\ (s \o t)[i] = t[i - Len(s)]
<1>1. PICK S : s \in Seq(S)
  BY DEF IsASequence
<1>2. PICK T : t \in Seq(T)
  BY DEF IsASequence
<1>3. s \in Seq(S \cup T) /\ t \in Seq(S \cup T)
  BY <1>1, <1>2, SeqMonotonic
<1>4. /\ s \o t \in Seq(S \cup T) /\ Len(s \o t) = Len(s) + Len(t)
      /\ \A i \in 1 .. Len(s) + Len(t) :
           (s \o t)[i] = IF i <= Len(s) THEN s[i] ELSE t[i - Len(s)]
  BY <1>3, ConcatProperties
<1>5. Len(s) \in Nat /\ Len(t) \in Nat
  BY <1>3, LenProperties
<1>6. IsASequence(s \o t)
  BY <1>4 DEF IsASequence
<1> QED
  BY <1>4, <1>5, <1>6

LEMMA JoinedBefore ==
  ASSUME NEW s, IsASequence(s), NEW t, IsASequence(t), NEW u
  PROVE  /\ AllBefore(s, u) /\ AllBefore(t, u) => AllBefore(s \o t, u)
         /\ AllBefore(u, s) /\ AllBefore(u, t) => AllBefore(u, s \o t)
<1>1. \A i \in 1 .. Len(s \o t) :
        \/ i \in 1 .. Len(s) /\ (s \o t)[i] = s[i]
        \/ i - Len(s) \in 1 .. Len(t) /\ (s \o t)[i] = t[i - Len(s)]
  BY Joined
<1> QED
  BY <1>1 DEF AllBefore

LEMMA JoinedTables ==
  ASSUME NEW s, GoodTable(s), NEW t, GoodTable(t), AllBefore(s, t)
  PROVE  GoodTable(s \o t)
<1> DEFINE u == s \o t
<1>1. /\ IsASequence(u) /\ Len(s) \in Nat /\ Len(t) \in Nat /\ Len(u) = Len(s) + Len(t)
      /\ \A i \in 1 .. Len(u) :
              \/ i \in 1 .. Len(s) /\ u[i] = s[i]
              \/ i - Len(s) \in 1 .. Len(t) /\ u[i] = t[i - Len(s)]
  BY Joined DEF GoodTable
<1> HIDE DEF u
<1>2. \A i \in 1 .. Len(u) : GoodEntry(u[i])
  BY <1>1 DEF GoodTable
<1>3. ASSUME NEW i \in 1 .. Len(u), NEW j \in 1 .. Len(u), i < j PROVE Before(u[i], u[j])
  <2>1. CASE j \in 1 .. Len(s) /\ u[j] = s[j]
    <3>1. i \in 1 .. Len(s) /\ ~ (i - Len(s) \in 1 .. Len(t))
      BY <1>1, <1>3, <2>1
    <3>2. u[i] = s[i]
      BY <1>1, <3>1
    <3> QED
      BY <1>3, <2>1, <3>1, <3>2 DEF GoodTable
  <2>2. CASE j - Len(s) \in 1 .. Len(t) /\ u[j] = t[j - Len(s)]
    <3>1. CASE i \in 1 .. Len(s) /\ u[i] = s[i]
      BY <2>2, <3>1 DEF AllBefore
    <3>2. CASE i - Len(s) \in 1 .. Len(t) /\ u[i] = t[i - Len(s)]
      <4>1. i - Len(s) < j - Len(s)
        BY <1>1, <1>3
      <4> QED
        BY <2>2, <3>2, <4>1 DEF GoodTable
    <3> QED
      BY <1>1, <3>1, <3>2
  <2> QED
    BY <1>1, <2>1, <2>2
<1> QED
  BY <1>1, <1>2, <1>3 DEF GoodTable, u

-----------------------------------------------------------------------------
(* The functions of FunctionRegistry::Populate, group by group. *)

LEMMA ScalarRanks ==
  /\ Bool = 1 /\ SInt = 5 /\ UInt = 9 /\ Float = 13
  /\ {Bool, SInt, UInt, Float} \subseteq ScalarTypes /\ ScalarTypes \subseteq Nat
  /\ {Bool, SInt, UInt, Float, 15, 16, Void} \cup (150 .. 152) \subseteq ArgumentTypes
BY TypeCodes DEF ScalarTypes, ArgumentTypes, Bool, SInt, UInt, Float

LEMMA LikeEntry ==
  ASSUME NEW k, NEW ps
  PROVE  /\ Like(k, ps).params = ps /\ Like(k, ps).gen_idx = k /\ Like(k, ps).returns = Error
         /\ k # 0 /\ k \in DOMAIN ps /\ ps[k].gen_type /\ ~ ps[k].exact => GoodResult(Like(k, ps))
BY DEF Like, Entry, GoodResult, NoIdx

LEMMA FixedEntry ==
  ASSUME NEW t, NEW ps
  PROVE  /\ Fixed(t, ps).params = ps
         /\ t \in ArgumentTypes => GoodResult(Fixed(t, ps))
BY DEF Fixed, Entry, GoodResult, NoIdx

\* Entries whose parameters are of one rank: the result is like the first.
LEMMA LikeOne ==
  ASSUME NEW ct \in ScalarTypes PROVE Ranked(Like(1, <<Gen(ct)>>), 1, ct)
<1>1. GoodParam(Gen(ct)) /\ ParamRank(Gen(ct)) = ct /\ Gen(ct).gen_type /\ ~ Gen(ct).exact
  BY RankOfParam
<1> DEFINE e == Like(1, <<Gen(ct)>>)
<1>2. e.params = <<Gen(ct)>> /\ GoodResult(e)
  BY <1>1, LikeEntry
<1> HIDE DEF e
<1>3. Ranked(e, 1, ct)
  BY <1>1, <1>2, EntryOfOne
<1> QED
  BY <1>3 DEF e

LEMMA LikeTwo ==
  ASSUME NEW ct \in ScalarTypes, NEW q, GoodParam(q)
  PROVE  /\ ParamRank(q) = ct => Ranked(Like(1, <<Gen(ct), q>>), 2, ct)
         /\ GoodEntry(Like(1, <<Gen(ct), q>>))
<1>1. GoodParam(Gen(ct)) /\ ParamRank(Gen(ct)) = ct /\ Gen(ct).gen_type /\ ~ Gen(ct).exact
  BY RankOfParam
<1> DEFINE e == Like(1, <<Gen(ct), q>>)
<1>2. e.params = <<Gen(ct), q>> /\ GoodResult(e)
  BY <1>1, LikeEntry
<1> HIDE DEF e
<1>3. GoodEntry(e) /\ (ParamRank(q) = ct => Ranked(e, 2, ct))
  BY <1>1, <1>2, EntryOfTwo
<1> QED
  BY <1>3 DEF e

LEMMA LikeThree ==
  ASSUME NEW ct \in ScalarTypes, NEW q, GoodParam(q), NEW r, GoodParam(r)
  PROVE  /\ ParamRank(q) = ct /\ ParamRank(r) = ct => Ranked(Like(1, <<Gen(ct), q, r>>), 3, ct)
         /\ GoodEntry(Like(1, <<Gen(ct), q, r>>))
<1>1. GoodParam(Gen(ct)) /\ ParamRank(Gen(ct)) = ct /\ Gen(ct).gen_type /\ ~ Gen(ct).exact
  BY RankOfParam
<1> DEFINE e == Like(1, <<Gen(ct), q, r>>)
<1>2. e.params = <<Gen(ct), q, r>> /\ GoodResult(e)
  BY <1>1, LikeEntry
<1> HIDE DEF e
<1>3. GoodEntry(e) /\ (ParamRank(q) = ct /\ ParamRank(r) = ct => Ranked(e, 3, ct))
  BY <1>1, <1>2, EntryOfThree
<1> QED
  BY <1>3 DEF e

LEMMA UnaryFloatTable == GoodTable(<<Like(1, <<Gen(Float)>>)>>)
BY LikeOne, ScalarRanks, OneEntry DEF Ranked

LEMMA BinaryFloatTable == GoodTable(<<Like(1, <<Gen(Float), Gen(Float)>>)>>)
BY LikeTwo, RankOfParam, ScalarRanks, OneEntry DEF Ranked

LEMMA OrderedRanked == ASSUME NEW ct \in ScalarTypes PROVE RankedTable(Ordered(ct), 2, ct)
<1>1. /\ GoodParam(Gen(ct)) /\ ParamRank(Gen(ct)) = ct
      /\ GoodParam(Just(ct)) /\ ParamRank(Just(ct)) = ct
  BY RankOfParam
<1>2. Ranked(Like(1, <<Gen(ct), Just(ct)>>), 2, ct) /\ Ranked(Like(1, <<Gen(ct), Gen(ct)>>), 2, ct)
  BY <1>1, LikeTwo
<1> QED
  BY <1>2, TwoEntries DEF Ordered

LEMMA ClampRanked == ASSUME NEW ct \in ScalarTypes PROVE RankedTable(ClampEntries(ct), 3, ct)
<1>1. /\ GoodParam(Gen(ct)) /\ ParamRank(Gen(ct)) = ct
      /\ GoodParam(Just(ct)) /\ ParamRank(Just(ct)) = ct
  BY RankOfParam
<1>2. /\ Ranked(Like(1, <<Gen(ct), Gen(ct), Gen(ct)>>), 3, ct)
      /\ Ranked(Like(1, <<Gen(ct), Just(ct), Just(ct)>>), 3, ct)
  BY <1>1, LikeThree
<1> QED
  BY <1>2, TwoEntries DEF ClampEntries

LEMMA ThreeRanksTable ==
  ASSUME NEW n, NEW s, NEW t, NEW u,
         RankedTable(s, n, SInt), RankedTable(t, n, UInt), RankedTable(u, n, Float)
  PROVE  GoodTable(s \o t \o u)
<1>1. SInt \in Nat /\ UInt \in Nat /\ Float \in Nat /\ SInt <= UInt /\ UInt <= Float /\ SInt <= Float
  BY ScalarRanks
<1>2. GoodTable(s) /\ GoodTable(t) /\ GoodTable(u)
  BY <1>1, RankedIsGood
<1>3. AllBefore(s, t) /\ AllBefore(t, u) /\ AllBefore(s, u)
  BY <1>1, RanksBefore
<1>4. GoodTable(s \o t)
  BY <1>2, <1>3, JoinedTables
<1>5. AllBefore(s \o t, u)
  BY <1>2, <1>3, JoinedBefore DEF GoodTable
<1> QED
  BY <1>2, <1>4, <1>5, JoinedTables

LEMMA FourEntries ==
  ASSUME NEW s, DOMAIN s = 1 .. 4, s = [i \in 1 .. 4 |-> s[i]],
         GoodEntry(s[1]), GoodEntry(s[2]), GoodEntry(s[3]), GoodEntry(s[4]),
         Before(s[1], s[2]), Before(s[1], s[3]), Before(s[1], s[4]),
         Before(s[2], s[3]), Before(s[2], s[4]), Before(s[3], s[4])
  PROVE  GoodTable(s)
<1>1. IsASequence(s) /\ Len(s) = 4
  BY SequenceOf
<1>2. \A i \in 1 .. 4 : i = 1 \/ i = 2 \/ i = 3 \/ i = 4
  OBVIOUS
<1>3. \A i \in 1 .. 4 : GoodEntry(s[i])
  BY <1>2
<1>4. \A i, j \in 1 .. 4 : i < j => Before(s[i], s[j])
  BY <1>2
<1> QED
  BY <1>1, <1>3, <1>4 DEF GoodTable

LEMMA ThreeEntries ==
  ASSUME NEW s, DOMAIN s = 1 .. 3, s = [i \in 1 .. 3 |-> s[i]],
         GoodEntry(s[1]), GoodEntry(s[2]), GoodEntry(s[3]),
         Before(s[1], s[2]), Before(s[1], s[3]), Before(s[2], s[3])
  PROVE  GoodTable(s)
<1>1. IsASequence(s) /\ Len(s) = 3
  BY SequenceOf
<1>2. \A i \in 1 .. 3 : i = 1 \/ i = 2 \/ i = 3
  OBVIOUS
<1>3. \A i \in 1 .. 3 : GoodEntry(s[i])
  BY <1>2
<1>4. \A i, j \in 1 .. 3 : i < j => Before(s[i], s[j])
  BY <1>2
<1> QED
  BY <1>1, <1>3, <1>4 DEF GoodTable

\* The component types of a table of four, the booleans last.
Ranks == <<SInt, UInt, Float, Bool>>

LEMMA RanksAre ==
  /\ DOMAIN Ranks = 1 .. 4 /\ Ranks[1] = 5 /\ Ranks[2] = 9 /\ Ranks[3] = 13 /\ Ranks[4] = 1
  /\ \A i \in 1 .. 4 : Ranks[i] \in ScalarTypes
BY ScalarRanks DEF Ranks

LEMMA SelectTable ==
  GoodTable(Each(<<SInt, UInt, Float, Bool>>, LAMBDA ct : Like(1, <<Gen(ct), Gen(ct), Gen(Bool)>>)))
<1> DEFINE Select(ct) == Like(1, <<Gen(ct), Gen(ct), Gen(Bool)>>)
           s == [i \in 1 .. 4 |-> Select(Ranks[i])]
<1>1. Each(<<SInt, UInt, Float, Bool>>, LAMBDA ct : Like(1, <<Gen(ct), Gen(ct), Gen(Bool)>>)) = s
  BY DEF Each, Ranks
<1>2. ASSUME NEW ct \in ScalarTypes
      PROVE  /\ GoodEntry(Select(ct)) /\ Len(Select(ct).params) = 3
             /\ ParamRank(Select(ct).params[1]) = ct
             /\ ParamRank(Select(ct).params[2]) = ct
             /\ ParamRank(Select(ct).params[3]) = Bool
  <2>1. /\ GoodParam(Gen(ct)) /\ ParamRank(Gen(ct)) = ct
        /\ GoodParam(Gen(Bool)) /\ ParamRank(Gen(Bool)) = Bool
    BY RankOfParam, ScalarRanks
  <2>2. Select(ct).params = <<Gen(ct), Gen(ct), Gen(Bool)>>
    BY LikeEntry
  <2>3. GoodEntry(Select(ct))
    BY <2>1, LikeThree
  <2> HIDE DEF Select
  <2> QED
    BY <2>1, <2>2, <2>3
<1> HIDE DEF Select
<1>3. ASSUME NEW c \in ScalarTypes, NEW d \in ScalarTypes, c <= d \/ (c # Bool /\ d = Bool)
      PROVE  Before(Select(c), Select(d))
  <2>1. CASE c <= d
    <3>1. Bool <= Bool /\ \A i \in 1 .. 3 : i = 1 \/ i = 2 \/ i = 3
      BY ScalarRanks
    <3>2. \A i \in 1 .. 3 : ParamRank(Select(c).params[i]) <= ParamRank(Select(d).params[i])
      BY <1>2, <2>1, <3>1
    <3> QED
      BY <1>2, <3>2 DEF Before
  <2>2. CASE c # Bool /\ d = Bool
    BY <1>2, <2>2, ExclusiveBefore DEF Exclusive
  <2> QED
    BY <1>3, <2>1, <2>2
<1>4. /\ s[1] = Select(5) /\ s[2] = Select(9) /\ s[3] = Select(13) /\ s[4] = Select(1)
      /\ DOMAIN s = 1 .. 4 /\ s = [i \in 1 .. 4 |-> s[i]]
  BY RanksAre
<1> HIDE DEF s
<1>5. GoodTable(s)
  BY <1>2, <1>3, <1>4, ScalarRanks, FourEntries
<1> QED
  BY <1>1, <1>5

LEMMA StepTables ==
  /\ GoodTable(<<Like(1, <<Gen(Float), Gen(Float)>>), Like(2, <<Just(Float), Gen(Float)>>)>>)
  /\ GoodTable(<<Like(1, <<Gen(Float), Gen(Float), Gen(Float)>>),
                 Like(3, <<Just(Float), Just(Float), Gen(Float)>>)>>)
<1>1. /\ GoodParam(Gen(Float)) /\ ParamRank(Gen(Float)) = Float
      /\ Gen(Float).gen_type /\ ~ Gen(Float).exact
      /\ GoodParam(Just(Float)) /\ ParamRank(Just(Float)) = Float
      /\ Float \in ScalarTypes /\ Float \in Nat
  BY RankOfParam, ScalarRanks
<1> DEFINE e == Like(2, <<Just(Float), Gen(Float)>>)
           f == Like(3, <<Just(Float), Just(Float), Gen(Float)>>)
<1>2. /\ e.params = <<Just(Float), Gen(Float)>> /\ GoodResult(e)
      /\ f.params = <<Just(Float), Just(Float), Gen(Float)>> /\ GoodResult(f)
  BY <1>1, LikeEntry
<1> HIDE DEF e, f
<1>3. Ranked(e, 2, Float) /\ Ranked(f, 3, Float)
  BY <1>1, <1>2, EntryOfTwo, EntryOfThree
<1>4. /\ Ranked(Like(1, <<Gen(Float), Gen(Float)>>), 2, Float)
      /\ Ranked(Like(1, <<Gen(Float), Gen(Float), Gen(Float)>>), 3, Float)
  BY <1>1, LikeTwo, LikeThree
<1>5. /\ RankedTable(<<Like(1, <<Gen(Float), Gen(Float)>>), e>>, 2, Float)
      /\ RankedTable(<<Like(1, <<Gen(Float), Gen(Float), Gen(Float)>>), f>>, 3, Float)
  BY <1>3, <1>4, TwoEntries
<1> QED
  BY <1>1, <1>5, RankedIsGood DEF e, f

LEMMA NanTable ==
  GoodTable([n \in 1 .. 4 |-> Fixed(MakeVectorType(Bool, n), <<Exact(MakeVectorType(Float, n))>>)])
<1> DEFINE s == [n \in 1 .. 4 |-> Fixed(MakeVectorType(Bool, n), <<Exact(MakeVectorType(Float, n))>>)]
<1>1. ASSUME NEW n \in 1 .. 4 PROVE Ranked(s[n], 1, Float)
  <2> DEFINE e == Fixed(MakeVectorType(Bool, n), <<Exact(MakeVectorType(Float, n))>>)
  <2>1. MakeVectorType(Bool, n) \in ArgumentTypes
    BY VectorsMade, ScalarRanks
  <2>2. GoodParam(Exact(MakeVectorType(Float, n))) /\ ParamRank(Exact(MakeVectorType(Float, n))) = Float
    BY RankOfParam, ScalarRanks
  <2>3. e.params = <<Exact(MakeVectorType(Float, n))>> /\ GoodResult(e)
    BY <2>1, FixedEntry
  <2> HIDE DEF e
  <2>4. Ranked(e, 1, Float)
    BY <2>2, <2>3, EntryOfOne
  <2> QED
    BY <2>4 DEF e
<1>2. DOMAIN s = 1 .. 4 /\ s = [i \in 1 .. 4 |-> s[i]]
  OBVIOUS
<1> HIDE DEF s
<1>3. RankedTable(s, 1, Float)
  BY <1>1, <1>2, SequenceOf DEF RankedTable
<1>4. GoodTable(s)
  BY <1>3, RankedIsGood, ScalarRanks
<1> QED
  BY <1>4 DEF s

LEMMA LdexpTable == GoodTable(<<Like(1, <<Gen(Float), Param(PlainType(SInt), TRUE, TRUE)>>)>>)
<1>1. PlainType(SInt).type = SInt /\ PlainType(SInt).is_array = FALSE /\ PlainType(SInt).count = 1
  BY DEF PlainType
<1>2. SInt \in ValueTypes
  BY TypeCodes, ScalarRanks DEF ValueTypes
<1>3. GoodParam(Param(PlainType(SInt), TRUE, TRUE))
  BY <1>1, <1>2, ParamIsGood
<1> QED
  BY <1>3, LikeTwo, ScalarRanks, OneEntry

LEMMA CommonTables ==
  ASSUME NEW name \in CommonFunctions PROVE GoodTable(CommonEntries(name))
<1>1. /\ \A ct \in ScalarTypes : /\ GoodParam(Gen(ct)) /\ ParamRank(Gen(ct)) = ct
                                 /\ GoodParam(Just(ct)) /\ ParamRank(Just(ct)) = ct
      /\ Float \in ScalarTypes /\ SInt \in ScalarTypes /\ UInt \in ScalarTypes /\ Float \in Nat
  BY RankOfParam, ScalarRanks
<1>2. CASE name \in {"abs", "sign"}
  <2>1. CommonEntries(name) = <<Like(1, <<Gen(SInt)>>), Like(1, <<Gen(Float)>>)>>
    BY <1>2 DEF CommonEntries, SignFunctions, MinMax
  <2>2. Ranked(Like(1, <<Gen(SInt)>>), 1, SInt) /\ Ranked(Like(1, <<Gen(Float)>>), 1, Float)
    BY <1>1, LikeOne
  <2>3. Before(Like(1, <<Gen(SInt)>>), Like(1, <<Gen(Float)>>))
    BY <2>2, RankedBefore, ScalarRanks
  <2> QED
    BY <2>1, <2>2, <2>3, TwoEntries DEF Ranked
<1>3. CASE name = "mod"
  <2>1. CommonEntries(name) = Ordered(Float)
    BY <1>3 DEF CommonEntries, SignFunctions, MinMax
  <2> QED
    BY <1>1, <2>1, OrderedRanked, RankedIsGood
<1>4. CASE name \in {"min", "max"}
  <2>1. CommonEntries(name) = Ordered(SInt) \o Ordered(UInt) \o Ordered(Float)
    BY <1>4 DEF CommonEntries, SignFunctions, MinMax, MinMaxEntries
  <2> QED
    BY <1>1, <2>1, OrderedRanked, ThreeRanksTable
<1>5. CASE name = "clamp"
  <2>1. CommonEntries(name) = ClampEntries(SInt) \o ClampEntries(UInt) \o ClampEntries(Float)
    BY <1>5 DEF CommonEntries, SignFunctions, MinMax
  <2> QED
    BY <1>1, <2>1, ClampRanked, ThreeRanksTable
<1>6. CASE name = "mix"
  <2>1. CommonEntries(name) = <<Like(1, <<Gen(Float), Gen(Float), Gen(Float)>>),
                                Like(1, <<Gen(Float), Gen(Float), Just(Float)>>)>>
    BY <1>6 DEF CommonEntries, SignFunctions, MinMax
  <2>2. /\ Ranked(Like(1, <<Gen(Float), Gen(Float), Gen(Float)>>), 3, Float)
        /\ Ranked(Like(1, <<Gen(Float), Gen(Float), Just(Float)>>), 3, Float)
    BY <1>1, LikeThree
  <2> QED
    BY <1>1, <2>1, <2>2, TwoEntries, RankedIsGood
<1>7. CASE name = "select"
  <2>1. CommonEntries(name) = Each(<<SInt, UInt, Float, Bool>>,
                                   LAMBDA ct : Like(1, <<Gen(ct), Gen(ct), Gen(Bool)>>))
    BY <1>7 DEF CommonEntries, SignFunctions, MinMax
  <2> QED
    BY <2>1, SelectTable
<1>8. CASE name \in {"step", "sstep"}
  BY <1>8, StepTables DEF CommonEntries, SignFunctions, MinMax
<1>9. CASE name \in {"isnan", "isinf"}
  <2>1. CommonEntries(name) =
          [n \in 1 .. 4 |-> Fixed(MakeVectorType(Bool, n), <<Exact(MakeVectorType(Float, n))>>)]
    BY <1>9 DEF CommonEntries, SignFunctions, MinMax
  <2> QED
    BY <2>1, NanTable
<1>10. CASE name = "ldexp"
  BY <1>10, LdexpTable DEF CommonEntries, SignFunctions, MinMax
<1> QED
  BY <1>2, <1>3, <1>4, <1>5, <1>6, <1>7, <1>8, <1>9, <1>10
  DEF CommonFunctions, SignFunctions, MinMax

\* An entry with a result of its own, of one or two parameters.
LEMMA FixedOne ==
  ASSUME NEW t \in ArgumentTypes, NEW p, GoodParam(p)
  PROVE  LET e == Fixed(t, <<p>>) IN
         /\ GoodEntry(e) /\ Len(e.params) = 1 /\ e.params[1] = p /\ Ranked(e, 1, ParamRank(p))
<1> DEFINE e == Fixed(t, <<p>>)
<1>1. e.params = <<p>> /\ GoodResult(e)
  BY FixedEntry
<1> HIDE DEF e
<1>2. GoodEntry(e) /\ Len(e.params) = 1 /\ e.params[1] = p /\ Ranked(e, 1, ParamRank(p))
  BY <1>1, EntryOfOne
<1> QED
  BY <1>2 DEF e

LEMMA FixedTwo ==
  ASSUME NEW t \in ArgumentTypes, NEW p, GoodParam(p), NEW q, GoodParam(q)
  PROVE  LET e == Fixed(t, <<p, q>>) IN
         /\ GoodEntry(e) /\ Len(e.params) = 2 /\ e.params[1] = p /\ e.params[2] = q
         /\ ParamRank(p) = ParamRank(q) => Ranked(e, 2, ParamRank(p))
<1> DEFINE e == Fixed(t, <<p, q>>)
<1>1. e.params = <<p, q>> /\ GoodResult(e)
  BY FixedEntry
<1> HIDE DEF e
<1>2. /\ GoodEntry(e) /\ Len(e.params) = 2 /\ e.params[1] = p /\ e.params[2] = q
      /\ ParamRank(p) = ParamRank(q) => Ranked(e, 2, ParamRank(p))
  BY <1>1, EntryOfTwo
<1> QED
  BY <1>2 DEF e

LEMMA FixedThree ==
  ASSUME NEW t \in ArgumentTypes, NEW p, GoodParam(p), NEW q, GoodParam(q), NEW r, GoodParam(r)
  PROVE  LET e == Fixed(t, <<p, q, r>>) IN
         /\ GoodEntry(e) /\ Len(e.params) = 3
         /\ e.params[1] = p /\ e.params[2] = q /\ e.params[3] = r
<1> DEFINE e == Fixed(t, <<p, q, r>>)
<1>1. e.params = <<p, q, r>> /\ GoodResult(e)
  BY FixedEntry
<1> HIDE DEF e
<1>2. /\ GoodEntry(e) /\ Len(e.params) = 3
      /\ e.params[1] = p /\ e.params[2] = q /\ e.params[3] = r
  BY <1>1, EntryOfThree
<1> QED
  BY <1>2 DEF e

LEMMA GeometricTables ==
  ASSUME NEW name \in GeometricFunctions PROVE GoodTable(GeometricEntries(name))
<1>1. /\ GoodParam(Gen(Float)) /\ ParamRank(Gen(Float)) = Float
      /\ GoodParam(Just(Float)) /\ Float \in ScalarTypes /\ Float \in ArgumentTypes
  BY RankOfParam, ScalarRanks
<1>2. GoodParam(Gen(15)) /\ 15 \in ArgumentTypes
  BY TypeCodes, PlainParam, ScalarRanks DEF ValueTypes
<1>3. /\ GoodEntry(Fixed(Float, <<Gen(Float)>>)) /\ GoodEntry(Fixed(Float, <<Gen(Float), Gen(Float)>>))
      /\ GoodEntry(Fixed(15, <<Gen(15), Gen(15)>>))
  BY <1>1, <1>2, FixedOne, FixedTwo
<1>4. /\ GoodEntry(Like(1, <<Gen(Float), Gen(Float), Gen(Float)>>))
      /\ GoodEntry(Like(1, <<Gen(Float), Gen(Float), Just(Float)>>))
  BY <1>1, LikeThree
<1>5. \E e : GoodEntry(e) /\ GeometricEntries(name) = <<e>>
  BY <1>3, <1>4 DEF GeometricFunctions, GeometricEntries
<1> QED
  BY <1>5, OneEntry

LEMMA MatrixTables == ASSUME NEW name \in MatrixFunctions PROVE GoodTable(MatrixEntries(name))
<1> DEFINE mat(n) == Mat2 + n - 2
           vec(n) == MakeVectorType(Float, n)
           M(n) == CASE name = "matCompMul"       -> Fixed(mat(n), <<Gen(mat(n)), Gen(mat(n))>>)
                     [] name = "outerProd"        -> Fixed(mat(n), <<Gen(vec(n)), Gen(vec(n))>>)
                     [] name \in {"trans", "inv"} -> Fixed(mat(n), <<Gen(mat(n))>>)
                     [] name = "det"              -> Fixed(Float, <<Gen(mat(n))>>)
           s == [i \in 1 .. 3 |-> M(i + 1)]
           arity == IF name \in {"matCompMul", "outerProd"} THEN 2 ELSE 1
<1>1. ASSUME NEW n \in 2 .. 4 PROVE Ranked(M(n), arity, Float)
  <2>1. mat(n) \in 150 .. 152 /\ mat(n) \in ArgumentTypes /\ Float \in ArgumentTypes
    BY TypeCodes, ScalarRanks DEF Mat2
  <2>2. /\ GoodParam(Gen(mat(n))) /\ ParamRank(Gen(mat(n))) = Float
        /\ GoodParam(Gen(vec(n))) /\ ParamRank(Gen(vec(n))) = Float
    BY <2>1, RankOfParam, ScalarRanks
  <2> HIDE DEF mat, vec
  <2>3. /\ Ranked(Fixed(mat(n), <<Gen(mat(n)), Gen(mat(n))>>), 2, Float)
        /\ Ranked(Fixed(mat(n), <<Gen(vec(n)), Gen(vec(n))>>), 2, Float)
    BY <2>1, <2>2, FixedTwo
  <2>4. /\ Ranked(Fixed(mat(n), <<Gen(mat(n))>>), 1, Float)
        /\ Ranked(Fixed(Float, <<Gen(mat(n))>>), 1, Float)
    BY <2>1, <2>2, FixedOne
  <2> QED
    BY <2>3, <2>4 DEF MatrixFunctions
<1>2. MatrixEntries(name) = [i \in DOMAIN <<2, 3, 4>> |-> M(<<2, 3, 4>>[i])]
  BY Zenon DEF MatrixEntries, Each
<1> HIDE DEF M
<1>3. DOMAIN <<2, 3, 4>> = 1 .. 3 /\ \A i \in 1 .. 3 : <<2, 3, 4>>[i] = i + 1
  OBVIOUS
<1>4. MatrixEntries(name) = s
  BY <1>2, <1>3
<1>5. \A i \in 1 .. 3 : i + 1 \in 2 .. 4 /\ s[i] = M(i + 1)
  OBVIOUS
<1>6. DOMAIN s = 1 .. 3 /\ s = [i \in 1 .. 3 |-> s[i]]
  OBVIOUS
<1> HIDE DEF s, arity
<1>7. \A i \in 1 .. 3 : Ranked(s[i], arity, Float)
  BY <1>1, <1>5
<1>8. RankedTable(s, arity, Float)
  BY <1>6, <1>7, SequenceOf DEF RankedTable
<1> QED
  BY <1>4, <1>8, RankedIsGood, ScalarRanks

LEMMA RelationalTables == ASSUME NEW name \in RelationalFunctions PROVE GoodTable(RelationalEntries(name))
<1> DEFINE R(ct) == Entry(1, <<Gen(ct), Gen(ct)>>, Bool)
<1>1. ASSUME NEW ct \in ScalarTypes PROVE Ranked(R(ct), 2, ct) /\ R(ct).params[1] = Gen(ct)
  <2>1. GoodParam(Gen(ct)) /\ ParamRank(Gen(ct)) = ct /\ Gen(ct).gen_type /\ ~ Gen(ct).exact
    BY RankOfParam
  <2>2. R(ct).params = <<Gen(ct), Gen(ct)>> /\ R(ct).gen_idx = 1 /\ R(ct).returns = Bool
    BY DEF Entry
  <2> HIDE DEF R
  <2>3. GoodResult(R(ct))
    BY <2>1, <2>2 DEF GoodResult, NoIdx
  <2> QED
    BY <2>1, <2>2, <2>3, EntryOfTwo
<1> HIDE DEF R
<1>2. /\ \A ct \in {5, 9, 13, 1} : GoodEntry(R(ct))
      /\ Before(R(5), R(9)) /\ Before(R(5), R(13)) /\ Before(R(9), R(13))
  <2>1. /\ Ranked(R(5), 2, 5) /\ Ranked(R(9), 2, 9) /\ Ranked(R(13), 2, 13) /\ Ranked(R(1), 2, 1)
    BY <1>1, TypeCodes
  <2>2. \A ct \in {5, 9, 13, 1} : GoodEntry(R(ct))
    BY <2>1 DEF Ranked
  <2>3. Before(R(5), R(9)) /\ Before(R(5), R(13)) /\ Before(R(9), R(13))
    BY <2>1, RankedBefore
  <2> QED
    BY <2>2, <2>3
<1>3. ASSUME NEW ct \in {5, 9, 13} PROVE Before(R(ct), R(1))
  <2>1. /\ Ranked(R(ct), 2, ct) /\ Ranked(R(1), 2, 1) /\ ct # 1 /\ Bool = 1
    BY <1>1, TypeCodes, ScalarRanks
  <2>2. Exclusive(R(ct).params[1], R(1).params[1]) /\ Len(R(ct).params) = 2
    BY <2>1 DEF Exclusive, Ranked
  <2> QED
    BY <2>2, ExclusiveBefore
<1>4. CASE name \in Orderings
  <2> DEFINE q == <<SInt, UInt, Float>>
             s == [i \in 1 .. 3 |-> R(q[i])]
  <2>1. RelationalEntries(name) = Each(q, LAMBDA ct : R(ct))
    BY <1>4 DEF RelationalEntries, R, Orderings, Equalities
  <2>2. DOMAIN q = 1 .. 3 /\ q[1] = 5 /\ q[2] = 9 /\ q[3] = 13
    BY ScalarRanks
  <2>3. RelationalEntries(name) = s
    BY <2>1, <2>2 DEF Each
  <2>4. /\ s[1] = R(5) /\ s[2] = R(9) /\ s[3] = R(13)
        /\ DOMAIN s = 1 .. 3 /\ s = [i \in 1 .. 3 |-> s[i]]
    BY <2>2
  <2> HIDE DEF s
  <2> QED
    BY <1>2, <2>3, <2>4, ThreeEntries
<1>5. CASE name \in Equalities
  <2> DEFINE s == [i \in 1 .. 4 |-> R(Ranks[i])]
  <2>1. RelationalEntries(name) = Each(Ranks, LAMBDA ct : R(ct))
    BY <1>5 DEF RelationalEntries, R, Ranks, Orderings, Equalities
  <2>2. RelationalEntries(name) = s
    BY <2>1, RanksAre DEF Each
  <2>3. /\ s[1] = R(5) /\ s[2] = R(9) /\ s[3] = R(13) /\ s[4] = R(1)
        /\ DOMAIN s = 1 .. 4 /\ s = [i \in 1 .. 4 |-> s[i]]
    BY RanksAre
  <2> HIDE DEF s
  <2> QED
    BY <1>2, <1>3, <2>2, <2>3, FourEntries
<1>6. CASE name \in {"vecAny", "vecAll", "vecNot"}
  <2>1. GoodParam(Gen(Bool)) /\ Bool \in ScalarTypes /\ Bool \in ArgumentTypes
    BY RankOfParam, ScalarRanks
  <2>2. GoodEntry(Fixed(Bool, <<Gen(Bool)>>)) /\ GoodEntry(Like(1, <<Gen(Bool)>>))
    BY <2>1, FixedOne, LikeOne DEF Ranked
  <2>3. \E e : GoodEntry(e) /\ RelationalEntries(name) = <<e>>
    BY <1>6, <2>2 DEF RelationalEntries, Orderings, Equalities
  <2> QED
    BY <2>3, OneEntry
<1> QED
  BY <1>4, <1>5, <1>6 DEF RelationalFunctions

\* The functions of textures and images: the handle, the first parameter,
\* tells the overloads apart.
First(e) == e.params[1].type.type
OnHandles(s, n, H) ==
  /\ IsASequence(s)
  /\ \A i \in 1 .. Len(s) : GoodEntry(s[i]) /\ Len(s[i].params) = n /\ First(s[i]) \in H
Handled(s, n, H) ==
  /\ OnHandles(s, n, H)
  /\ \A i, j \in 1 .. Len(s) : i < j => First(s[i]) # First(s[j])

LEMMA HandledIsGood ==
  ASSUME NEW s, NEW n \in Nat \ {0}, NEW H, H \subseteq 200 .. 211, Handled(s, n, H)
  PROVE  GoodTable(s)
<1>0. H \subseteq Handles
  BY TypeCodes
<1>1. ASSUME NEW i \in 1 .. Len(s), NEW j \in 1 .. Len(s), i < j PROVE Before(s[i], s[j])
  <2>1. First(s[i]) # First(s[j]) /\ First(s[i]) \in H /\ First(s[j]) \in H
    BY <1>1 DEF Handled, OnHandles
  <2>2. Exclusive(s[i].params[1], s[j].params[1])
    BY <1>0, <2>1 DEF Exclusive, First
  <2>3. Len(s[i].params) = n
    BY DEF Handled, OnHandles
  <2> QED
    BY <2>2, <2>3, ExclusiveBefore
<1> QED
  BY <1>1 DEF GoodTable, Handled, OnHandles

LEMMA HandledApart ==
  ASSUME NEW s, NEW t, NEW n \in Nat \ {0}, NEW k \in Nat \ {0},
         NEW H, H \subseteq 200 .. 211, NEW J, J \subseteq 200 .. 211,
         OnHandles(s, n, H), OnHandles(t, k, J), n # k \/ H \cap J = {}
  PROVE  AllBefore(s, t)
<1>0. H \subseteq Handles /\ J \subseteq Handles
  BY TypeCodes
<1>1. ASSUME NEW i \in 1 .. Len(s), NEW j \in 1 .. Len(t) PROVE Before(s[i], t[j])
  <2>1. Len(s[i].params) = n /\ Len(t[j].params) = k /\ First(s[i]) \in H /\ First(t[j]) \in J
    BY DEF OnHandles
  <2>2. CASE n # k
    BY <2>1, <2>2, LongerBefore
  <2>3. CASE H \cap J = {}
    <3>1. First(s[i]) # First(t[j]) /\ First(s[i]) \in Handles /\ First(t[j]) \in Handles
      BY <1>0, <2>1, <2>3
    <3>2. Exclusive(s[i].params[1], t[j].params[1])
      BY <3>1 DEF Exclusive, First
    <3> QED
      BY <2>1, <3>2, ExclusiveBefore
  <2> QED
    BY <2>2, <2>3
<1> QED
  BY <1>1 DEF AllBefore

LEMMA JoinedHandles ==
  ASSUME NEW s, NEW t, NEW n, NEW H, NEW J, OnHandles(s, n, H), OnHandles(t, n, J)
  PROVE  OnHandles(s \o t, n, H \cup J)
<1> DEFINE u == s \o t
<1>1. /\ IsASequence(u)
      /\ \A i \in 1 .. Len(u) : \/ i \in 1 .. Len(s) /\ u[i] = s[i]
                                \/ i - Len(s) \in 1 .. Len(t) /\ u[i] = t[i - Len(s)]
  BY Joined DEF OnHandles
<1> HIDE DEF u
<1>2. ASSUME NEW i \in 1 .. Len(u)
      PROVE  GoodEntry(u[i]) /\ Len(u[i].params) = n /\ First(u[i]) \in H \cup J
  <2>1. CASE i \in 1 .. Len(s) /\ u[i] = s[i]
    BY <2>1 DEF OnHandles
  <2>2. CASE i - Len(s) \in 1 .. Len(t) /\ u[i] = t[i - Len(s)]
    BY <2>2 DEF OnHandles
  <2> QED
    BY <1>1, <2>1, <2>2
<1>3. OnHandles(u, n, H \cup J)
  BY <1>1, <1>2 DEF OnHandles
<1> QED
  BY <1>3 DEF u

TextureNames == {"1D", "2D", "3D", "Cube", "1DArray", "2DArray"}
ImageNames   == TextureNames \ {"Cube"}

LEMMA Codes ==
  /\ Texture("1D") = 200 /\ Texture("2D") = 201 /\ Texture("3D") = 202 /\ Texture("Cube") = 203
  /\ Texture("1DArray") = 204 /\ Texture("2DArray") = 205
  /\ Image("1D") = 206 /\ Image("2D") = 207 /\ Image("3D") = 208
  /\ Image("1DArray") = 209 /\ Image("2DArray") = 210
BY DEF Texture, Image

LEMMA HandleCodes ==
  /\ \A d \in TextureNames : /\ Texture(d) \in 200 .. 205
                             /\ CoordinateSize(d) \in 1 .. 4 /\ ExtentSize(d) \in 1 .. 4
  /\ \A d \in ImageNames : Image(d) \in 206 .. 210 /\ d \in TextureNames
<1>1. ASSUME NEW d \in TextureNames PROVE Texture(d) \in 200 .. 205
  BY Codes DEF TextureNames
<1>2. ASSUME NEW d \in TextureNames PROVE CoordinateSize(d) \in 1 .. 4 /\ ExtentSize(d) \in 1 .. 4
  BY DEF CoordinateSize, ExtentSize
<1>3. ASSUME NEW d \in ImageNames PROVE Image(d) \in 206 .. 210 /\ d \in TextureNames
  BY Codes DEF TextureNames, ImageNames
<1> QED
  BY <1>1, <1>2, <1>3

LEMMA DimensionsAre ==
  /\ DOMAIN TextureDims = 1 .. 6 /\ DOMAIN ImageDims = 1 .. 5 /\ DOMAIN FetchDims = 1 .. 5
  /\ \A i \in 1 .. 6 : TextureDims[i] \in TextureNames
  /\ \A i \in 1 .. 5 : ImageDims[i] \in ImageNames /\ FetchDims[i] \in ImageNames
  /\ \A i, j \in 1 .. 6 : i < j => Texture(TextureDims[i]) # Texture(TextureDims[j])
  /\ \A i, j \in 1 .. 5 : i < j => /\ Image(ImageDims[i]) # Image(ImageDims[j])
                                   /\ Texture(FetchDims[i]) # Texture(FetchDims[j])
<1>1. /\ DOMAIN TextureDims = 1 .. 6
      /\ TextureDims[1] = "1D" /\ TextureDims[2] = "2D" /\ TextureDims[3] = "3D"
      /\ TextureDims[4] = "Cube" /\ TextureDims[5] = "1DArray" /\ TextureDims[6] = "2DArray"
  BY DEF TextureDims
<1>2. /\ DOMAIN ImageDims = 1 .. 5
      /\ ImageDims[1] = "1D" /\ ImageDims[2] = "2D" /\ ImageDims[3] = "3D"
      /\ ImageDims[4] = "1DArray" /\ ImageDims[5] = "2DArray"
  BY DEF ImageDims
<1>3. FetchDims = ImageDims
  BY DEF FetchDims, ImageDims
<1>4. \A i \in 1 .. 6 : i = 1 \/ i = 2 \/ i = 3 \/ i = 4 \/ i = 5 \/ i = 6
  OBVIOUS
<1>5. \A i \in 1 .. 5 : i = 1 \/ i = 2 \/ i = 3 \/ i = 4 \/ i = 5
  OBVIOUS
<1>6. \A i \in 1 .. 6 : TextureDims[i] \in TextureNames
  BY <1>1, <1>4 DEF TextureNames
<1>7. \A i \in 1 .. 5 : ImageDims[i] \in ImageNames
  BY <1>2, <1>5 DEF TextureNames, ImageNames
<1>8. \A i \in 1 .. 6 : Texture(TextureDims[i]) = 199 + i
  BY <1>1, <1>4, Codes
<1>9. \A i, j \in 1 .. 6 : i < j => Texture(TextureDims[i]) # Texture(TextureDims[j])
  BY <1>8
<1>10. \A i \in 1 .. 5 : Image(ImageDims[i]) = 205 + i
  BY <1>2, <1>5, Codes
<1>11. \A i \in 1 .. 5 : Texture(ImageDims[i]) = IF i < 4 THEN 199 + i ELSE 200 + i
  BY <1>2, <1>5, Codes
<1>12. \A i, j \in 1 .. 5 : i < j => /\ Image(ImageDims[i]) # Image(ImageDims[j])
                                     /\ Texture(ImageDims[i]) # Texture(ImageDims[j])
  BY <1>10, <1>11
<1> QED
  BY <1>1, <1>2, <1>3, <1>6, <1>7, <1>9, <1>12

LEMMA TexturesHandled ==
  ASSUME NEW n, NEW s, DOMAIN s = 1 .. 6, s = [i \in 1 .. 6 |-> s[i]],
         \A i \in 1 .. 6 : /\ GoodEntry(s[i]) /\ Len(s[i].params) = n
                           /\ First(s[i]) = Texture(TextureDims[i])
  PROVE  Handled(s, n, 200 .. 205)
<1>1. IsASequence(s) /\ Len(s) = 6
  BY SequenceOf
<1> QED
  BY <1>1, DimensionsAre, HandleCodes DEF Handled, OnHandles

LEMMA ImagesHandled ==
  ASSUME NEW n, NEW s, DOMAIN s = 1 .. 5, s = [i \in 1 .. 5 |-> s[i]],
         \A i \in 1 .. 5 : /\ GoodEntry(s[i]) /\ Len(s[i].params) = n
                           /\ First(s[i]) = Image(ImageDims[i])
  PROVE  Handled(s, n, 206 .. 210)
<1>1. IsASequence(s) /\ Len(s) = 5
  BY SequenceOf
<1> QED
  BY <1>1, DimensionsAre, HandleCodes DEF Handled, OnHandles

LEMMA FetchesHandled ==
  ASSUME NEW n, NEW s, DOMAIN s = 1 .. 5, s = [i \in 1 .. 5 |-> s[i]],
         \A i \in 1 .. 5 : /\ GoodEntry(s[i]) /\ Len(s[i].params) = n
                           /\ First(s[i]) = Texture(FetchDims[i])
  PROVE  Handled(s, n, 200 .. 205)
<1>1. IsASequence(s) /\ Len(s) = 5
  BY SequenceOf
<1> QED
  BY <1>1, DimensionsAre, HandleCodes DEF Handled, OnHandles

LEMMA HandleParams ==
  /\ \A d \in TextureNames :
       /\ GoodParam(Gen(Texture(d))) /\ Gen(Texture(d)).type.type = Texture(d)
       /\ MakeVectorType(SInt, ExtentSize(d)) \in ArgumentTypes
       /\ \A ct \in ScalarTypes : GoodParam(Coordinate(ct, d)) /\ ParamRank(Coordinate(ct, d)) = ct
  /\ \A d \in ImageNames :
       /\ GoodParam(Gen(Image(d))) /\ Gen(Image(d)).type.type = Image(d)
       /\ Gen(Image(d)).gen_type /\ ~ Gen(Image(d)).exact
  /\ GoodParam(Just(SInt)) /\ GoodParam(Just(Float))
  /\ 16 \in ArgumentTypes /\ SInt \in ArgumentTypes /\ SInt \in ScalarTypes /\ Float \in ScalarTypes
<1>1. ASSUME NEW d \in TextureNames
      PROVE  /\ GoodParam(Gen(Texture(d))) /\ Gen(Texture(d)).type.type = Texture(d)
             /\ MakeVectorType(SInt, ExtentSize(d)) \in ArgumentTypes
             /\ \A ct \in ScalarTypes :
                  GoodParam(Coordinate(ct, d)) /\ ParamRank(Coordinate(ct, d)) = ct
  <2>1. Texture(d) \in Handles /\ CoordinateSize(d) \in 1 .. 4 /\ ExtentSize(d) \in 1 .. 4
    BY HandleCodes, TypeCodes
  <2>2. MakeVectorType(SInt, ExtentSize(d)) \in ArgumentTypes
    BY <2>1, VectorsMade, ScalarRanks
  <2> QED
    BY <2>1, <2>2, PlainParam, RankOfParam DEF Coordinate
<1>2. ASSUME NEW d \in ImageNames
      PROVE  /\ GoodParam(Gen(Image(d))) /\ Gen(Image(d)).type.type = Image(d)
             /\ Gen(Image(d)).gen_type /\ ~ Gen(Image(d)).exact
  <2>1. Image(d) \in Handles /\ IsImageType(Image(d))
    BY HandleCodes, TypeCodes
  <2> QED
    BY <2>1, PlainParam
<1> QED
  BY <1>1, <1>2, RankOfParam, ScalarRanks

\* One overload for each kind of texture, or of image.
LEMMA SizeTextures ==
  Handled(Each(TextureDims, LAMBDA d : Fixed(MakeVectorType(SInt, ExtentSize(d)),
                                             <<Gen(Texture(d)), Just(SInt)>>)), 2, 200 .. 205)
<1> DEFINE E(d) == Fixed(MakeVectorType(SInt, ExtentSize(d)), <<Gen(Texture(d)), Just(SInt)>>)
           s == [i \in 1 .. 6 |-> E(TextureDims[i])]
<1>1. Each(TextureDims, LAMBDA d : Fixed(MakeVectorType(SInt, ExtentSize(d)),
                                         <<Gen(Texture(d)), Just(SInt)>>)) = s
  BY DimensionsAre DEF Each
<1>2. \A d \in TextureNames : GoodEntry(E(d)) /\ Len(E(d).params) = 2 /\ First(E(d)) = Texture(d)
  BY HandleParams, FixedTwo DEF First
<1> HIDE DEF E
<1>3. DOMAIN s = 1 .. 6 /\ s = [i \in 1 .. 6 |-> s[i]] /\ \A i \in 1 .. 6 : s[i] = E(TextureDims[i])
  OBVIOUS
<1> HIDE DEF s
<1>4. \A i \in 1 .. 6 : GoodEntry(s[i]) /\ Len(s[i].params) = 2 /\ First(s[i]) = Texture(TextureDims[i])
  BY <1>2, <1>3, DimensionsAre
<1> QED
  BY <1>1, <1>3, <1>4, TexturesHandled

LEMMA SizeImages ==
  Handled(Each(ImageDims, LAMBDA d : Fixed(MakeVectorType(SInt, ExtentSize(d)), <<Gen(Image(d))>>)),
          1, 206 .. 210)
<1> DEFINE E(d) == Fixed(MakeVectorType(SInt, ExtentSize(d)), <<Gen(Image(d))>>)
           s == [i \in 1 .. 5 |-> E(ImageDims[i])]
<1>1. Each(ImageDims, LAMBDA d : Fixed(MakeVectorType(SInt, ExtentSize(d)), <<Gen(Image(d))>>)) = s
  BY DimensionsAre DEF Each
<1>2. \A d \in ImageNames : GoodEntry(E(d)) /\ Len(E(d).params) = 1 /\ First(E(d)) = Image(d)
  BY HandleParams, HandleCodes, FixedOne DEF First
<1> HIDE DEF E
<1>3. DOMAIN s = 1 .. 5 /\ s = [i \in 1 .. 5 |-> s[i]] /\ \A i \in 1 .. 5 : s[i] = E(ImageDims[i])
  OBVIOUS
<1> HIDE DEF s
<1>4. \A i \in 1 .. 5 : GoodEntry(s[i]) /\ Len(s[i].params) = 1 /\ First(s[i]) = Image(ImageDims[i])
  BY <1>2, <1>3, DimensionsAre
<1> QED
  BY <1>1, <1>3, <1>4, ImagesHandled

LEMMA LevelTextures ==
  Handled(Each(TextureDims, LAMBDA d : Fixed(SInt, <<Gen(Texture(d))>>)), 1, 200 .. 205)
<1> DEFINE E(d) == Fixed(SInt, <<Gen(Texture(d))>>)
           s == [i \in 1 .. 6 |-> E(TextureDims[i])]
<1>1. Each(TextureDims, LAMBDA d : Fixed(SInt, <<Gen(Texture(d))>>)) = s
  BY DimensionsAre DEF Each
<1>2. \A d \in TextureNames : GoodEntry(E(d)) /\ Len(E(d).params) = 1 /\ First(E(d)) = Texture(d)
  BY HandleParams, FixedOne DEF First
<1> HIDE DEF E
<1>3. DOMAIN s = 1 .. 6 /\ s = [i \in 1 .. 6 |-> s[i]] /\ \A i \in 1 .. 6 : s[i] = E(TextureDims[i])
  OBVIOUS
<1> HIDE DEF s
<1>4. \A i \in 1 .. 6 : GoodEntry(s[i]) /\ Len(s[i].params) = 1 /\ First(s[i]) = Texture(TextureDims[i])
  BY <1>2, <1>3, DimensionsAre
<1> QED
  BY <1>1, <1>3, <1>4, TexturesHandled

LEMMA SampledEntries ==
  ASSUME NEW d \in TextureNames
  PROVE  /\ GoodEntry(Sampled(d, <<>>)) /\ Len(Sampled(d, <<>>).params) = 2
         /\ First(Sampled(d, <<>>)) = Texture(d)
         /\ GoodEntry(Sampled(d, <<Just(Float)>>)) /\ Len(Sampled(d, <<Just(Float)>>).params) = 3
         /\ First(Sampled(d, <<Just(Float)>>)) = Texture(d)
<1> DEFINE p == Gen(Texture(d))
           q == Coordinate(Float, d)
           r == Just(Float)
<1>1. /\ GoodParam(p) /\ p.type.type = Texture(d) /\ GoodParam(q) /\ GoodParam(r)
      /\ 16 \in ArgumentTypes
  BY HandleParams
<1>2. Sampled(d, <<>>) = Fixed(16, <<p, q>> \o <<>>) /\ Sampled(d, <<r>>) = Fixed(16, <<p, q>> \o <<r>>)
  BY DEF Sampled
<1> HIDE DEF p, q, r
<1>3. <<p, q>> \o <<>> = <<p, q>> /\ <<p, q>> \o <<r>> = <<p, q, r>>
  <2> DEFINE S == {p, q, r}
             u == <<p, q>> \o <<r>>
  <2>1. <<p, q>> \in Seq(S) /\ <<r>> \in Seq(S) /\ <<p, q, r>> \in Seq(S)
    OBVIOUS
  <2>2. <<p, q>> \o <<>> = <<p, q>>
    BY <2>1, ConcatEmptySeq
  <2>3. /\ u \in Seq(S) /\ Len(u) = 3
        /\ \A i \in 1 .. 3 : u[i] = IF i <= 2 THEN <<p, q>>[i] ELSE <<r>>[i - 2]
    BY <2>1, ConcatProperties
  <2> HIDE DEF u
  <2>4. \A i \in 1 .. 3 : i = 1 \/ i = 2 \/ i = 3
    OBVIOUS
  <2>5. \A i \in 1 .. Len(u) : u[i] = <<p, q, r>>[i]
    BY <2>3, <2>4
  <2>6. u = <<p, q, r>>
    BY <2>1, <2>3, <2>5, SeqEqual
  <2> QED
    BY <2>2, <2>6 DEF u
<1>4. Sampled(d, <<>>) = Fixed(16, <<p, q>>) /\ Sampled(d, <<r>>) = Fixed(16, <<p, q, r>>)
  BY <1>2, <1>3
<1>5. /\ GoodEntry(Sampled(d, <<>>)) /\ Len(Sampled(d, <<>>).params) = 2
      /\ First(Sampled(d, <<>>)) = Texture(d)
  BY <1>1, <1>4, FixedTwo DEF First
<1>6. /\ GoodEntry(Sampled(d, <<r>>)) /\ Len(Sampled(d, <<r>>).params) = 3
      /\ First(Sampled(d, <<r>>)) = Texture(d)
  BY <1>1, <1>4, FixedThree DEF First
<1> QED
  BY <1>5, <1>6 DEF r

LEMMA LoadTextures ==
  /\ Handled(Each(TextureDims, LAMBDA d : Sampled(d, <<>>)), 2, 200 .. 205)
  /\ Handled(Each(TextureDims, LAMBDA d : Sampled(d, <<Just(Float)>>)), 3, 200 .. 205)
<1> DEFINE s == [i \in 1 .. 6 |-> Sampled(TextureDims[i], <<>>)]
           t == [i \in 1 .. 6 |-> Sampled(TextureDims[i], <<Just(Float)>>)]
<1>1. /\ Each(TextureDims, LAMBDA d : Sampled(d, <<>>)) = s
      /\ Each(TextureDims, LAMBDA d : Sampled(d, <<Just(Float)>>)) = t
  BY DimensionsAre DEF Each
<1>2. /\ DOMAIN s = 1 .. 6 /\ s = [i \in 1 .. 6 |-> s[i]]
      /\ \A i \in 1 .. 6 : s[i] = Sampled(TextureDims[i], <<>>)
      /\ DOMAIN t = 1 .. 6 /\ t = [i \in 1 .. 6 |-> t[i]]
      /\ \A i \in 1 .. 6 : t[i] = Sampled(TextureDims[i], <<Just(Float)>>)
  OBVIOUS
<1> HIDE DEF s, t
<1>3. /\ \A i \in 1 .. 6 : GoodEntry(s[i]) /\ Len(s[i].params) = 2 /\ First(s[i]) = Texture(TextureDims[i])
      /\ \A i \in 1 .. 6 : GoodEntry(t[i]) /\ Len(t[i].params) = 3 /\ First(t[i]) = Texture(TextureDims[i])
  BY <1>2, SampledEntries, DimensionsAre
<1>4. Handled(s, 2, 200 .. 205) /\ Handled(t, 3, 200 .. 205)
  BY <1>2, <1>3, TexturesHandled
<1> QED
  BY <1>1, <1>4

LEMMA LoadImages ==
  Handled(Each(ImageDims, LAMBDA d : Like(1, <<Gen(Image(d)), Coordinate(SInt, d)>>)), 2, 206 .. 210)
<1> DEFINE E(d) == Like(1, <<Gen(Image(d)), Coordinate(SInt, d)>>)
           s == [i \in 1 .. 5 |-> E(ImageDims[i])]
<1>1. Each(ImageDims, LAMBDA d : Like(1, <<Gen(Image(d)), Coordinate(SInt, d)>>)) = s
  BY DimensionsAre DEF Each
<1>2. ASSUME NEW d \in ImageNames
      PROVE  GoodEntry(E(d)) /\ Len(E(d).params) = 2 /\ First(E(d)) = Image(d)
  <2> DEFINE p == Gen(Image(d))
             q == Coordinate(SInt, d)
  <2>1. /\ GoodParam(p) /\ p.type.type = Image(d) /\ p.gen_type /\ ~ p.exact /\ GoodParam(q)
    BY HandleParams, HandleCodes
  <2> HIDE DEF p, q
  <2>2. E(d).params = <<p, q>> /\ GoodResult(E(d))
    BY <2>1, LikeEntry DEF p, q
  <2> HIDE DEF E
  <2> QED
    BY <2>1, <2>2, EntryOfTwo DEF First
<1> HIDE DEF E
<1>3. DOMAIN s = 1 .. 5 /\ s = [i \in 1 .. 5 |-> s[i]] /\ \A i \in 1 .. 5 : s[i] = E(ImageDims[i])
  OBVIOUS
<1> HIDE DEF s
<1>4. \A i \in 1 .. 5 : GoodEntry(s[i]) /\ Len(s[i].params) = 2 /\ First(s[i]) = Image(ImageDims[i])
  BY <1>2, <1>3, DimensionsAre
<1> QED
  BY <1>1, <1>3, <1>4, ImagesHandled

LEMMA FetchTextures ==
  Handled(Each(FetchDims, LAMBDA d : Fixed(16, <<Gen(Texture(d)), Coordinate(SInt, d), Just(SInt)>>)),
          3, 200 .. 205)
<1> DEFINE E(d) == Fixed(16, <<Gen(Texture(d)), Coordinate(SInt, d), Just(SInt)>>)
           s == [i \in 1 .. 5 |-> E(FetchDims[i])]
<1>1. Each(FetchDims, LAMBDA d : Fixed(16, <<Gen(Texture(d)), Coordinate(SInt, d), Just(SInt)>>)) = s
  BY DimensionsAre DEF Each
<1>2. \A d \in TextureNames : GoodEntry(E(d)) /\ Len(E(d).params) = 3 /\ First(E(d)) = Texture(d)
  BY HandleParams, FixedThree DEF First
<1> HIDE DEF E
<1>3. DOMAIN s = 1 .. 5 /\ s = [i \in 1 .. 5 |-> s[i]] /\ \A i \in 1 .. 5 : s[i] = E(FetchDims[i])
  OBVIOUS
<1> HIDE DEF s
<1>4. \A i \in 1 .. 5 : GoodEntry(s[i]) /\ Len(s[i].params) = 3 /\ First(s[i]) = Texture(FetchDims[i])
  BY <1>2, <1>3, DimensionsAre, HandleCodes
<1> QED
  BY <1>1, <1>3, <1>4, FetchesHandled

LEMMA TexelRanks ==
  /\ DOMAIN Texels = 1 .. 9
  /\ \A i \in 1 .. 9 : Texels[i] \in 1 .. 16
  /\ \A i, j \in 1 .. 9 : i < j => GetComponentType(Texels[i]) <= GetComponentType(Texels[j])
<1>1. /\ DOMAIN Texels = 1 .. 9
      /\ Texels[1] = 5 /\ Texels[2] = 6 /\ Texels[3] = 8 /\ Texels[4] = 9 /\ Texels[5] = 10
      /\ Texels[6] = 12 /\ Texels[7] = 13 /\ Texels[8] = 14 /\ Texels[9] = 16
  BY ScalarRanks DEF Texels
<1>2. \A i \in 1 .. 9 : \/ i = 1 \/ i = 2 \/ i = 3 \/ i = 4 \/ i = 5
                        \/ i = 6 \/ i = 7 \/ i = 8 \/ i = 9
  OBVIOUS
<1>3. \A i \in 1 .. 9 : Texels[i] \in 1 .. 16
  BY <1>1, <1>2
<1>4. ASSUME NEW i \in 1 .. 9, NEW j \in 1 .. 9, i < j
      PROVE  GetComponentType(Texels[i]) <= GetComponentType(Texels[j])
  <2>1. Texels[i] <= Texels[j] /\ Texels[i] \in 1 .. 16 /\ Texels[j] \in 1 .. 16
    BY <1>1, <1>2, <1>4
  <2>2. ASSUME NEW t \in 1 .. 16 PROVE GetComponentType(t) = ((t - 1) \div 4) * 4 + 1
    BY TypeCodes DEF GetComponentType
  <2> DEFINE a == Texels[i]
             b == Texels[j]
  <2>3. /\ GetComponentType(a) = ((a - 1) \div 4) * 4 + 1
        /\ GetComponentType(b) = ((b - 1) \div 4) * 4 + 1
    BY <2>1, <2>2
  <2>4. a <= b /\ a \in 1 .. 16 /\ b \in 1 .. 16
    BY <2>1
  <2> HIDE DEF a, b
  <2>5. ((a - 1) \div 4) * 4 + 1 <= ((b - 1) \div 4) * 4 + 1
    BY <2>4
  <2>6. GetComponentType(a) <= GetComponentType(b)
    BY <2>3, <2>5
  <2> QED
    BY <2>6 DEF a, b
<1> QED
  BY <1>1, <1>3, <1>4

\* The overloads of one kind of image, one for each of its formats.
LEMMA StoreTable ==
  ASSUME NEW d \in ImageNames
  PROVE  GoodTable(StoreEntries(d)) /\ OnHandles(StoreEntries(d), 3, {Image(d)})
<1> DEFINE p(t) == Param([PlainType(Image(d)) EXCEPT !.extra = t], TRUE, FALSE)
           E(t) == Fixed(Void, <<p(t), Coordinate(SInt, d), Just(t)>>)
           s == [i \in 1 .. 9 |-> E(Texels[i])]
<1>1. StoreEntries(d) = s
  BY TexelRanks DEF StoreEntries, Each
<1>2. ASSUME NEW t \in 1 .. 16
      PROVE  /\ GoodEntry(E(t)) /\ Len(E(t).params) = 3 /\ First(E(t)) = Image(d)
             /\ ParamRank(E(t).params[1]) = GetComponentType(Image(d))
             /\ ParamRank(E(t).params[2]) = SInt
             /\ ParamRank(E(t).params[3]) = GetComponentType(t)
  <2> DEFINE vt == [PlainType(Image(d)) EXCEPT !.extra = t]
             q == Coordinate(SInt, d)
             r == Just(t)
  <2>1. vt.type = Image(d) /\ vt.is_array = FALSE /\ vt.count = 1
    BY DEF PlainType
  <2>2. Image(d) \in Handles
    BY HandleCodes, TypeCodes
  <2>3. p(t) = Param(vt, TRUE, FALSE)
    OBVIOUS
  <2> HIDE DEF vt, p
  <2>4. GoodParam(p(t)) /\ p(t).type.type = Image(d)
    <3>1. LET pp == Param(vt, TRUE, FALSE) IN GoodParam(pp) /\ pp.type = vt
      BY <2>1, <2>2, ParamIsGood
    <3> QED
      BY <2>1, <2>3, <3>1
  <2>5. GoodParam(q) /\ ParamRank(q) = SInt
    BY HandleParams, HandleCodes
  <2>6. GoodParam(r) /\ r.type.type = t
    BY PlainParam, TypeCodes DEF ValueTypes
  <2>7. Void \in ArgumentTypes
    BY ScalarRanks
  <2>8. E(t) = Fixed(Void, <<p(t), q, r>>)
    OBVIOUS
  <2> HIDE DEF E, q, r
  <2>9. /\ GoodEntry(E(t)) /\ Len(E(t).params) = 3
        /\ E(t).params[1] = p(t) /\ E(t).params[2] = q /\ E(t).params[3] = r
    BY <2>4, <2>5, <2>6, <2>7, <2>8, FixedThree
  <2> QED
    BY <2>4, <2>5, <2>6, <2>9 DEF First, ParamRank
<1> HIDE DEF E
<1>3. DOMAIN s = 1 .. 9 /\ s = [i \in 1 .. 9 |-> s[i]] /\ \A i \in 1 .. 9 : s[i] = E(Texels[i])
  OBVIOUS
<1> HIDE DEF s
<1>4. IsASequence(s) /\ Len(s) = 9
  BY <1>3, SequenceOf
<1>5. ASSUME NEW i \in 1 .. 9
      PROVE  /\ GoodEntry(s[i]) /\ Len(s[i].params) = 3 /\ First(s[i]) = Image(d)
             /\ ParamRank(s[i].params[1]) = GetComponentType(Image(d))
             /\ ParamRank(s[i].params[2]) = SInt
             /\ ParamRank(s[i].params[3]) = GetComponentType(Texels[i])
  <2>1. Texels[i] \in 1 .. 16
    BY TexelRanks
  <2>2. s[i] = E(Texels[i])
    BY <1>3
  <2> QED
    BY <1>2, <2>1, <2>2
<1>6. ASSUME NEW i \in 1 .. 9, NEW j \in 1 .. 9, i < j PROVE Before(s[i], s[j])
  <2>1. GetComponentType(Image(d)) \in Int /\ SInt \in Int
    BY HandleCodes, OtherParts, ScalarRanks
  <2>2. GetComponentType(Texels[i]) <= GetComponentType(Texels[j])
    BY <1>6, TexelRanks
  <2>3. \A k \in 1 .. 3 : k = 1 \/ k = 2 \/ k = 3
    OBVIOUS
  <2>4. \A k \in 1 .. 3 : ParamRank(s[i].params[k]) <= ParamRank(s[j].params[k])
    BY <1>5, <2>1, <2>2, <2>3
  <2> QED
    BY <1>5, <2>4 DEF Before
<1>7. GoodTable(s) /\ OnHandles(s, 3, {Image(d)})
  BY <1>4, <1>5, <1>6 DEF GoodTable, OnHandles
<1> QED
  BY <1>1, <1>7

LEMMA StoreTables ==
  GoodTable(StoreEntries("1D") \o StoreEntries("2D") \o StoreEntries("3D") \o
            StoreEntries("1DArray") \o StoreEntries("2DArray"))
<1> DEFINE S(d) == StoreEntries(d)
<1>1. ASSUME NEW d \in {"1D", "2D", "3D", "1DArray", "2DArray"}
      PROVE  GoodTable(S(d)) /\ OnHandles(S(d), 3, {Image(d)})
  BY StoreTable DEF ImageNames, TextureNames
<1> HIDE DEF S
<1> DEFINE A == S("1D") \o S("2D")
           B == A \o S("3D")
           C == B \o S("1DArray")
<1>2. /\ OnHandles(S("1D"), 3, {206}) /\ OnHandles(S("2D"), 3, {207}) /\ OnHandles(S("3D"), 3, {208})
      /\ OnHandles(S("1DArray"), 3, {209}) /\ OnHandles(S("2DArray"), 3, {210})
  BY <1>1, Codes
<1>3. /\ GoodTable(S("1D")) /\ GoodTable(S("2D")) /\ GoodTable(S("3D"))
      /\ GoodTable(S("1DArray")) /\ GoodTable(S("2DArray"))
  BY <1>1
<1>4. OnHandles(A, 3, {206} \cup {207}) /\ GoodTable(A)
  <2>1. AllBefore(S("1D"), S("2D"))
    BY <1>2, HandledApart
  <2> QED
    BY <1>2, <1>3, <2>1, JoinedHandles, JoinedTables
<1> HIDE DEF A
<1>5. OnHandles(B, 3, {206} \cup {207} \cup {208}) /\ GoodTable(B)
  <2>1. AllBefore(A, S("3D"))
    BY <1>2, <1>4, HandledApart
  <2> QED
    BY <1>2, <1>3, <1>4, <2>1, JoinedHandles, JoinedTables
<1> HIDE DEF B
<1>6. OnHandles(C, 3, {206} \cup {207} \cup {208} \cup {209}) /\ GoodTable(C)
  <2>1. AllBefore(B, S("1DArray"))
    BY <1>2, <1>5, HandledApart
  <2> QED
    BY <1>2, <1>3, <1>5, <2>1, JoinedHandles, JoinedTables
<1> HIDE DEF C
<1>7. GoodTable(C \o S("2DArray"))
  <2>1. AllBefore(C, S("2DArray"))
    BY <1>2, <1>6, HandledApart
  <2> QED
    BY <1>3, <1>6, <2>1, JoinedTables
<1> QED
  BY <1>7 DEF A, B, C, S

LEMMA LoadTable ==
  GoodTable(Each(TextureDims, LAMBDA d : Sampled(d, <<>>)) \o
            Each(TextureDims, LAMBDA d : Sampled(d, <<Just(Float)>>)) \o
            Each(ImageDims, LAMBDA d : Like(1, <<Gen(Image(d)), Coordinate(SInt, d)>>)) \o
            <<Fixed(16, <<Gen(SubpassInput)>>)>>)
<1> DEFINE A == Each(TextureDims, LAMBDA d : Sampled(d, <<>>))
           B == Each(TextureDims, LAMBDA d : Sampled(d, <<Just(Float)>>))
           C == Each(ImageDims, LAMBDA d : Like(1, <<Gen(Image(d)), Coordinate(SInt, d)>>))
           e == Fixed(16, <<Gen(SubpassInput)>>)
<1>1. Handled(A, 2, 200 .. 205) /\ Handled(B, 3, 200 .. 205) /\ Handled(C, 2, 206 .. 210)
  BY LoadTextures, LoadImages
<1>2. GoodEntry(e) /\ Len(e.params) = 1
  <2>1. SubpassInput \in Handles
    BY DEF Handles, Tex1D, SubpassInput
  <2>2. GoodParam(Gen(SubpassInput))
    BY <2>1, PlainParam
  <2> QED
    BY <2>2, HandleParams, FixedOne
<1> HIDE DEF A, B, C, e
<1>3. GoodTable(A) /\ GoodTable(B) /\ GoodTable(C) /\ GoodTable(<<e>>)
  BY <1>1, <1>2, HandledIsGood, OneEntry
<1>4. OnHandles(A, 2, 200 .. 205) /\ OnHandles(B, 3, 200 .. 205) /\ OnHandles(C, 2, 206 .. 210)
  BY <1>1 DEF Handled
<1>5. AllBefore(A, B) /\ AllBefore(A, C) /\ AllBefore(B, C)
  <2>1. AllBefore(A, B)
    BY <1>4, HandledApart
  <2>2. AllBefore(A, C)
    BY <1>4, HandledApart
  <2>3. AllBefore(B, C)
    BY <1>4, HandledApart
  <2> QED
    BY <2>1, <2>2, <2>3
<1>6. <<e>>[1] = e /\ Len(<<e>>) = 1 /\ \A j \in 1 .. 1 : j = 1
  OBVIOUS
<1>7. AllBefore(A, <<e>>) /\ AllBefore(B, <<e>>) /\ AllBefore(C, <<e>>)
  <2>1. /\ \A i \in 1 .. Len(A) : Len(A[i].params) # 1
        /\ \A i \in 1 .. Len(B) : Len(B[i].params) # 1
        /\ \A i \in 1 .. Len(C) : Len(C[i].params) # 1
    <3>1. /\ \A i \in 1 .. Len(A) : Len(A[i].params) = 2
          /\ \A i \in 1 .. Len(B) : Len(B[i].params) = 3
          /\ \A i \in 1 .. Len(C) : Len(C[i].params) = 2
      BY <1>4, Zenon DEF OnHandles
    <3>2. 2 # 1 /\ 3 # 1
      OBVIOUS
    <3> QED
      BY <3>1, <3>2, Zenon
  <2>2. /\ \A i \in 1 .. Len(A) : Before(A[i], e)
        /\ \A i \in 1 .. Len(B) : Before(B[i], e)
        /\ \A i \in 1 .. Len(C) : Before(C[i], e)
    BY <1>2, <2>1, LongerBefore
  <2> QED
    BY <1>6, <2>2 DEF AllBefore
<1>8. IsASequence(A) /\ IsASequence(B) /\ IsASequence(C)
  BY <1>4 DEF OnHandles
<1> DEFINE D == A \o B
           F == D \o C
<1>9. GoodTable(D) /\ AllBefore(D, C) /\ AllBefore(D, <<e>>) /\ IsASequence(D)
  BY <1>3, <1>5, <1>7, <1>8, JoinedTables, JoinedBefore, Joined
<1> HIDE DEF D
<1>10. GoodTable(F) /\ AllBefore(F, <<e>>)
  BY <1>3, <1>7, <1>8, <1>9, JoinedTables, JoinedBefore
<1> HIDE DEF F
<1>11. GoodTable(F \o <<e>>)
  BY <1>3, <1>10, JoinedTables
<1> QED
  BY <1>11 DEF A, B, C, D, F, e

LEMMA SizeTable ==
  GoodTable(Each(TextureDims, LAMBDA d : Fixed(MakeVectorType(SInt, ExtentSize(d)),
                                               <<Gen(Texture(d)), Just(SInt)>>)) \o
            Each(ImageDims, LAMBDA d : Fixed(MakeVectorType(SInt, ExtentSize(d)), <<Gen(Image(d))>>)))
<1> DEFINE A == Each(TextureDims, LAMBDA d : Fixed(MakeVectorType(SInt, ExtentSize(d)),
                                                   <<Gen(Texture(d)), Just(SInt)>>))
           B == Each(ImageDims, LAMBDA d : Fixed(MakeVectorType(SInt, ExtentSize(d)), <<Gen(Image(d))>>))
<1>1. Handled(A, 2, 200 .. 205) /\ Handled(B, 1, 206 .. 210)
  BY SizeTextures, SizeImages
<1> HIDE DEF A, B
<1>2. GoodTable(A) /\ GoodTable(B)
  BY <1>1, HandledIsGood
<1>3. AllBefore(A, B)
  BY <1>1, HandledApart DEF Handled
<1>4. GoodTable(A \o B)
  BY <1>2, <1>3, JoinedTables
<1> QED
  BY <1>4 DEF A, B

LEMMA TextureTables == ASSUME NEW name \in TextureFunctions PROVE GoodTable(TextureEntries(name))
<1>1. CASE name = "sizeof"
  BY <1>1, SizeTable DEF TextureEntries
<1>2. CASE name = "levelsof"
  <2>1. TextureEntries(name) = Each(TextureDims, LAMBDA d : Fixed(SInt, <<Gen(Texture(d))>>))
    BY <1>2 DEF TextureEntries
  <2> QED
    BY <2>1, LevelTextures, HandledIsGood
<1>3. CASE name = "load"
  BY <1>3, LoadTable DEF TextureEntries
<1>4. CASE name = "loadLod"
  <2>1. TextureEntries(name) = Each(TextureDims, LAMBDA d : Sampled(d, <<Just(Float)>>))
    BY <1>4 DEF TextureEntries
  <2>2. Handled(TextureEntries(name), 3, 200 .. 205)
    BY <2>1, LoadTextures
  <2> QED
    BY <2>2, HandledIsGood
<1>5. CASE name = "fetch"
  <2>1. TextureEntries(name) =
          Each(FetchDims, LAMBDA d : Fixed(16, <<Gen(Texture(d)), Coordinate(SInt, d), Just(SInt)>>))
    BY <1>5 DEF TextureEntries
  <2> QED
    BY <2>1, FetchTextures, HandledIsGood
<1>6. CASE name = "store"
  BY <1>6, StoreTables DEF TextureEntries
<1> QED
  BY <1>1, <1>2, <1>3, <1>4, <1>5, <1>6 DEF TextureFunctions

\* Whatever the function, its entries are well formed, and an overload comes
\* before those that convert less.
LEMMA FunctionTables == ASSUME NEW name \in FunctionNames PROVE GoodTable(Functions[name])
<1>1. Functions[name] =
        CASE name \in UnaryFloat          -> <<Like(1, <<Gen(Float)>>)>>
          [] name \in BinaryFloat         -> <<Like(1, <<Gen(Float), Gen(Float)>>)>>
          [] name \in CommonFunctions     -> CommonEntries(name)
          [] name \in GeometricFunctions  -> GeometricEntries(name)
          [] name \in MatrixFunctions     -> MatrixEntries(name)
          [] name \in RelationalFunctions -> RelationalEntries(name)
          [] OTHER                        -> TextureEntries(name)
  BY Zenon DEF Functions
<1> DEFINE one == <<Like(1, <<Gen(Float)>>)>>
           two == <<Like(1, <<Gen(Float), Gen(Float)>>)>>
<1>2. GoodTable(one) /\ GoodTable(two)
  BY UnaryFloatTable, BinaryFloatTable
<1> HIDE DEF one, two
<1>3. \/ name \in UnaryFloat /\ Functions[name] = one
      \/ name \in BinaryFloat /\ Functions[name] = two
      \/ name \in CommonFunctions /\ Functions[name] = CommonEntries(name)
      \/ name \in GeometricFunctions /\ Functions[name] = GeometricEntries(name)
      \/ name \in MatrixFunctions /\ Functions[name] = MatrixEntries(name)
      \/ name \in RelationalFunctions /\ Functions[name] = RelationalEntries(name)
      \/ name \in TextureFunctions /\ Functions[name] = TextureEntries(name)
  BY <1>1 DEF FunctionNames, one, two
<1> QED
  BY <1>2, <1>3, CommonTables, GeometricTables, MatrixTables, RelationalTables, TextureTables

-----------------------------------------------------------------------------
(* Which overload is chosen. *)

LEMMA ComponentTypeKept ==
  ASSUME NEW q, GoodParam(q), NEW typ, GoodType(typ), TakenAsIs(q, typ)
  PROVE  /\ GetComponentType(typ.type) = ParamRank(q)
         /\ q.type.type \in Handles => typ.type = q.type.type
<1> DEFINE b == q.type.type
<1>1. b \in (1 .. 16) \cup (150 .. 152) \cup (200 .. 211)
  BY TypeCodes DEF GoodParam, ValueTypes
<1>2. CASE q.gen_type /\ IsScalarType(b)
  <2>1. GetComponentType(typ.type) = b /\ b \in ScalarTypes
    BY <1>2, TypeCodes DEF TakenAsIs
  <2>2. GetComponentType(b) = b /\ b \notin Handles
    BY <2>1, VectorParts, TypeCodes
  <2> QED
    BY <2>1, <2>2 DEF ParamRank
<1>3. CASE ~ (q.gen_type /\ IsScalarType(b))
  BY <1>3 DEF TakenAsIs, ParamRank
<1> QED
  BY <1>2, <1>3

LEMMA NotBoth ==
  ASSUME NEW p, GoodParam(p), NEW q, GoodParam(q), NEW typ, GoodType(typ),
         ParamMatches(p, typ), TakenAsIs(q, typ)
  PROVE  ~ Exclusive(p, q)
<1> DEFINE t == typ.type
           a == p.type.type
<1>1. t \in ArgumentTypes
  BY DEF GoodType, HLSVType, ArgumentTypes
<1>2. /\ a \in (1 .. 16) \cup (150 .. 152) \cup (200 .. 211) /\ a \in Nat
      /\ IsScalarType(a) => a \in ScalarTypes
  BY TypeCodes DEF GoodParam, ValueTypes
<1>3. GetComponentType(t) = ParamRank(q)
  BY ComponentTypeKept
<1>4. CASE a \in Handles /\ q.type.type \in Handles /\ a # q.type.type
  <2>1. t = q.type.type /\ t # a
    BY <1>4, ComponentTypeKept
  <2>2. a \notin ScalarTypes /\ ~ IsScalarType(a)
    BY <1>4, TypeCodes
  <2>3. typ = p.type \/ t = a \/ CanPromoteTo(t, a)
    BY <2>2 DEF ParamMatches, GenericMatches
  <2>4. ~ CanPromoteTo(t, a)
    BY <1>4, <2>1 DEF CanPromoteTo
  <2> QED
    BY <2>1, <2>3, <2>4
<1>5. CASE ParamRank(p) # Bool /\ ParamRank(q) = Bool
  <2>1. GetComponentType(t) = Bool /\ GetComponentType(a) # Bool /\ t # a
    BY <1>3, <1>5 DEF ParamRank
  <2>2. \A d : CanPromoteTo(t, d) => t = d
    BY <2>1 DEF CanPromoteTo
  <2>3. GetComponentCount(t) \in 1 .. 4
    <3>1. t \notin {Void} \cup (150 .. 152) \cup (200 .. 211)
      BY <2>1, OtherParts, ScalarRanks, TypeCodes
    <3>2. t \in 1 .. 16
      BY <1>1, <3>1, TypeCodes DEF ArgumentTypes
    <3> QED
      BY <3>2, VectorParts
  <2>4. CASE p.gen_type /\ IsScalarType(a)
    <3>1. a \in ScalarTypes /\ GetComponentType(a) = a
      BY <1>2, <2>4, VectorParts, TypeCodes
    <3>2. GetComponentType(t) = a \/ t = MakeVectorType(a, GetComponentCount(t))
      BY <2>2, <2>4 DEF ParamMatches, GenericMatches
    <3>3. GetComponentType(MakeVectorType(a, GetComponentCount(t))) = a
      BY <2>3, <3>1, VectorsMade
    <3> QED
      BY <2>1, <3>1, <3>2, <3>3
  <2>5. CASE ~ (p.gen_type /\ IsScalarType(a))
    <3>1. typ = p.type \/ t = a \/ CanPromoteTo(t, a)
      BY <2>5 DEF ParamMatches, GenericMatches
    <3> QED
      BY <2>1, <2>2, <3>1
  <2> QED
    BY <2>4, <2>5
<1> QED
  BY <1>4, <1>5 DEF Exclusive

\* If an entry takes the arguments as they are, so does an earlier one that
\* matches them.
LEMMA EarlierKeepsTypes ==
  ASSUME NEW e, GoodEntry(e), NEW f, GoodEntry(f), NEW args,
         \A i \in DOMAIN args : GoodType(args[i]), DOMAIN args = 1 .. Len(args),
         EntryMatches(e, args), EntryMatches(f, args), NoConversion(f, args), Before(e, f)
  PROVE  NoConversion(e, args)
<1>1. /\ Len(args) = Len(e.params) /\ Len(args) = Len(f.params)
      /\ \A i \in 1 .. Len(args) : /\ ParamMatches(e.params[i], args[i])
                                   /\ TakenAsIs(f.params[i], args[i])
                                   /\ GoodParam(e.params[i]) /\ GoodParam(f.params[i])
                                   /\ GoodType(args[i])
  BY DEF EntryMatches, NoConversion, GoodEntry
<1>2. \A i \in 1 .. Len(args) : ~ Exclusive(e.params[i], f.params[i])
  BY <1>1, NotBoth
<1>3. \A i \in 1 .. Len(args) : ParamRank(e.params[i]) <= ParamRank(f.params[i])
  BY <1>1, <1>2 DEF Before
<1>4. \A i \in 1 .. Len(args) : TakenAsIs(e.params[i], args[i])
  BY <1>1, <1>3, BestParam
<1> QED
  BY <1>4 DEF NoConversion

LEMMA FirstIsChosen ==
  ASSUME NEW name, NEW args, CheckFunction(name, args)
  PROVE  /\ name \in FunctionNames
         /\ \E k \in Matching(name, args) :
              /\ Chosen(name, args) = Functions[name][k]
              /\ \A j \in Matching(name, args) : k <= j
         /\ Matching(name, args) \subseteq 1 .. Len(Functions[name])
         /\ Len(Functions[name]) \in Nat
<1> DEFINE M == Matching(name, args)
           s == Functions[name]
           k == CHOOSE k \in M : \A j \in M : k <= j
<1>1. name \in FunctionNames /\ M # {}
  BY DEF CheckFunction
<1>2. DOMAIN s = 1 .. Len(s) /\ Len(s) \in Nat
  <2>1. PICK S : s \in Seq(S)
    BY <1>1, FunctionTables DEF GoodTable, IsASequence
  <2> QED
    BY <2>1, LenProperties
<1>3. M \subseteq 1 .. Len(s)
  BY <1>2 DEF Matching
<1>4. \E m \in M : \A j \in M : m <= j
  <2>1. M \subseteq Nat
    BY <1>2, <1>3
  <2> QED
    BY <1>1, <2>1, LeastElement
<1>5. k \in M /\ \A j \in M : k <= j
  <2> HIDE DEF M
  <2> QED
    BY <1>4
<1>6. Chosen(name, args) = s[k]
  BY DEF Chosen
<1> QED
  BY <1>1, <1>2, <1>3, <1>5, <1>6

\* The entry chosen matches, and is no worse than any other that does.
LEMMA ChosenEntry ==
  ASSUME NEW name, NEW args, CheckFunction(name, args), DOMAIN args = 1 .. Len(args),
         \A i \in DOMAIN args : GoodType(args[i])
  PROVE  /\ GoodEntry(Chosen(name, args)) /\ EntryMatches(Chosen(name, args), args)
         /\ \A j \in Matching(name, args) :
              NoConversion(Functions[name][j], args) => NoConversion(Chosen(name, args), args)
<1> DEFINE s == Functions[name]
<1>1. /\ Matching(name, args) \subseteq 1 .. Len(s) /\ Len(s) \in Nat /\ GoodTable(s)
      /\ \A j \in Matching(name, args) : EntryMatches(s[j], args)
  BY FirstIsChosen, FunctionTables DEF Matching
<1>2. PICK k \in Matching(name, args) :
        Chosen(name, args) = s[k] /\ \A j \in Matching(name, args) : k <= j
  BY FirstIsChosen
<1> HIDE DEF s
<1>3. k \in 1 .. Len(s) /\ GoodEntry(s[k]) /\ EntryMatches(s[k], args)
  BY <1>1, <1>2 DEF GoodTable
<1>4. ASSUME NEW j \in Matching(name, args), NoConversion(s[j], args)
      PROVE  NoConversion(s[k], args)
  <2>1. j \in 1 .. Len(s) /\ GoodEntry(s[j]) /\ EntryMatches(s[j], args) /\ k <= j
    BY <1>1, <1>2 DEF GoodTable
  <2>2. CASE j = k
    BY <1>4, <2>2
  <2>3. CASE j # k
    <3>1. Before(s[k], s[j])
      BY <1>1, <1>3, <2>1, <2>3 DEF GoodTable
    <3> QED
      BY <1>3, <1>4, <2>1, <3>1, EarlierKeepsTypes
  <2> QED
    BY <2>2, <2>3
<1> QED
  BY <1>2, <1>3, <1>4 DEF s

-----------------------------------------------------------------------------
(* The types of what is returned. *)

LEMMA PlainGood == ASSUME NEW t \in ArgumentTypes PROVE GoodType(PlainType(t))
<1>1. PlainType(t) \in HLSVType /\ PlainType(t).type = t /\ PlainType(t).extra = 0
  BY DEF PlainType, HLSVType, ArgumentTypes, uint8
<1> QED
  BY <1>1, TypeCodes DEF GoodType, ArgumentTypes

LEMMA TexelsAreTypes == ToSet(Texels) \cup {Void} \subseteq ArgumentTypes
<1>1. ToSet(Texels) \subseteq 1 .. 16
  BY TexelRanks DEF ToSet
<1> QED
  BY <1>1, TypeCodes DEF ArgumentTypes

\* The result of a generic parameter: as long a vector as the argument; no
\* value for no value, nor for an image.
LEMMA ReturnGood ==
  ASSUME NEW e, GoodEntry(e), NEW args, DOMAIN args = 1 .. Len(args),
         \A i \in DOMAIN args : GoodType(args[i]), EntryMatches(e, args)
  PROVE  GoodType(ReturnType(e, args))
<1>1. CASE e.gen_idx = NoIdx
  BY <1>1, PlainGood DEF ReturnType, GoodEntry
<1>2. CASE e.gen_idx # NoIdx
  <2> DEFINE p == e.params[e.gen_idx]
             typ == args[e.gen_idx]
             n == GetComponentCount(typ.type)
             r == AsReturnType(p, e.returns, PlainType(typ.type))
  <2>1. /\ e.gen_idx \in 1 .. Len(args) /\ e.returns \in {Error, Bool}
        /\ GoodParam(p) /\ p.gen_type /\ ~ p.exact /\ ParamMatches(p, typ) /\ GoodType(typ)
    BY <1>2 DEF GoodEntry, EntryMatches
  <2>2. ReturnType(e, args) = PlainType(r)
    BY <1>2 DEF ReturnType
  <2> HIDE DEF p, typ
  <2>3. typ.type \in ArgumentTypes
    BY <2>1 DEF GoodType, HLSVType, ArgumentTypes
  <2>4. CASE IsScalarType(p.type.type)
    <3> DEFINE a == p.type.type
               c == GetComponentType(IF e.returns = Error THEN a ELSE e.returns)
    <3>1. r = MakeVectorType(c, n)
      BY <2>4 DEF AsReturnType, PlainType
    <3>2. a \in ScalarTypes /\ c \in ScalarTypes /\ (a = Bool => c = Bool)
      <4> DEFINE b == IF e.returns = Error THEN a ELSE e.returns
      <4>1. a \in ScalarTypes
        BY <2>4, TypeCodes
      <4>6. Bool \in ScalarTypes
        BY ScalarRanks
      <4>7. e.returns \in {Error, Bool}
        BY <2>1
      <4> HIDE DEF a
      <4>2. b \in ScalarTypes /\ (a = Bool => b = Bool)
        BY <4>1, <4>6, <4>7
      <4> HIDE DEF b
      <4>3. b \in 1 .. 16
        BY <4>2, TypeCodes
      <4>4. GetComponentType(b) = b
        BY <4>2, <4>3, VectorParts
      <4>5. c = GetComponentType(b)
        BY DEF b, a
      <4> QED
        BY <4>1, <4>2, <4>4, <4>5
    <3>3. CanPromoteTo(typ.type, MakeVectorType(a, n))
      BY <2>1, <2>4 DEF ParamMatches, GenericMatches
    <3>4. MakeVectorType(a, n) = a + (n - 1) /\ MakeVectorType(c, n) = c + (n - 1)
      BY DEF MakeVectorType
    <3> HIDE DEF c
    <3>5. ASSUME typ.type \in 1 .. 16 PROVE r \in ArgumentTypes
      <4>1. n \in 1 .. 4
        BY <3>5, VectorParts
      <4> QED
        BY <3>1, <3>2, <4>1, VectorsMade
    <3>6. ASSUME typ.type \notin 1 .. 16 PROVE r \in ArgumentTypes
      <4>0. typ.type \in {0} \cup (150 .. 152) \cup (200 .. 211)
        BY <2>3, <3>6, TypeCodes DEF ArgumentTypes
      <4>1. typ.type \in {0} \cup (150 .. 152) \cup (200 .. 211) /\ n \in {0, 1, 4, 9, 16}
        <5>1. CASE typ.type = 0
          BY <5>1, OtherParts, TypeCodes
        <5>2. CASE typ.type # 0
          BY <4>0, <5>2, OtherParts
        <5> QED
          BY <4>0, <5>1, <5>2
      <4>2. MakeVectorType(a, n) \in Nat /\ a \in {1, 5, 9, 13}
        <5>1. a \in {1, 5, 9, 13}
          BY <3>2, TypeCodes
        <5>2. a + (n - 1) \in Nat
          BY <4>1, <5>1
        <5> QED
          BY <3>4, <5>1, <5>2
      <4>3. typ.type = MakeVectorType(a, n)
        BY <2>3, <3>3, <3>6, <4>2, Promotions
      <4>4. a + (n - 1) < 150
        BY <4>1, <4>2
      <4>5. typ.type = 0
        BY <3>4, <4>1, <4>3, <4>4
      <4>6. n = 0
        BY <4>5, OtherParts, TypeCodes
      <4>7. a = 1
        BY <3>4, <4>2, <4>3, <4>5, <4>6
      <4>8. r = Void
        BY <3>1, <3>2, <3>4, <4>6, <4>7, ScalarRanks, TypeCodes
      <4> QED
        BY <4>8, ScalarRanks
    <3>7. r \in ArgumentTypes
      BY <3>5, <3>6
    <3> QED
      BY <2>2, <3>7, PlainGood
  <2>5. CASE ~ IsScalarType(p.type.type)
    <3>1. r = Void
      BY <2>5, TypeCodes DEF AsReturnType, PlainType
    <3>2. r \in ArgumentTypes
      BY <3>1, TexelsAreTypes
    <3> QED
      BY <2>2, <3>2, PlainGood
  <2> QED
    BY <2>4, <2>5
<1> QED
  BY <1>1, <1>2

\* The element of what can be indexed.
LEMMA ElementGood ==
  ASSUME NEW vt, GoodType(vt), Extent(vt) > 0
  PROVE  GoodType(ElementOf(vt))
<1>1. vt.type \in ArgumentTypes
  BY DEF GoodType, HLSVType, ArgumentTypes
<1>2. CASE vt.is_array
  BY <1>1, <1>2, PlainGood DEF ElementOf
<1>3. CASE ~ vt.is_array /\ IsVectorType(vt.type)
  <2>1. GetComponentType(vt.type) \in ArgumentTypes
    BY <1>3, TypeCodes, VectorParts, ScalarRanks DEF ScalarTypes
  <2> QED
    BY <1>3, <2>1, PlainGood DEF ElementOf
<1>4. CASE ~ vt.is_array /\ ~ IsVectorType(vt.type)
  <2>1. IsMatrixType(vt.type)
    BY <1>4 DEF Extent
  <2>2. MatrixSide(vt.type) \in 2 .. 4
    BY <2>1, TypeCodes, OtherParts
  <2>3. MakeVectorType(Float, MatrixSide(vt.type)) \in ArgumentTypes
    BY <2>2, VectorsMade, ScalarRanks
  <2> QED
    BY <1>4, <2>3, PlainGood DEF ElementOf
<1> QED
  BY <1>2, <1>3, <1>4

\* A statement infers no type or that of a value.
GoodInfer(vt) == vt \in HLSVType /\ (vt.type = Error \/ IsValueType(vt.type))
GoodExpr(e)   == e \in Expr /\ GoodType(e.type)

FrameTyped(f) ==
  /\ f.node \in Nodes /\ GoodInfer(f.save) /\ Len(f.args) <= f.node.arity
  /\ f.node.kind = "list" => f.save.type # Error
  /\ f.node.kind = "swizzle" => f.node.length <= 4
  /\ \A i \in 1 .. Len(f.args) : GoodExpr(f.args[i])

LEMMA InferredGood == ASSUME NEW vt, GoodInfer(vt), vt.type # Error PROVE GoodType(vt)
BY TypeCodes DEF GoodInfer, GoodType

LEMMA TypesOfArguments ==
  ASSUME NEW f, FrameSound(f), FrameTyped(f), Complete(f)
  PROVE  /\ DOMAIN f.args = 1 .. Len(f.args) /\ Len(f.args) = f.node.arity
         /\ DOMAIN ArgTypes(f) = 1 .. Len(ArgTypes(f))
         /\ \A i \in DOMAIN ArgTypes(f) : GoodType(ArgTypes(f)[i])
         /\ f.node.arity \in Nat \ {0} /\ f.node.kind \in Kinds
         /\ GoodExpr(Arg(f, 1))
         /\ f.node.kind \in {"ternary", "index", "binary"} => GoodExpr(Arg(f, 2))
<1>1. DOMAIN f.args = 1 .. Len(f.args) /\ Len(f.args) \in Nat
  BY LenProperties DEF FrameSound, IsASequence
<1>2. DOMAIN ArgTypes(f) = 1 .. Len(f.args)
  BY <1>1 DEF ArgTypes
<1>3. DOMAIN ArgTypes(f) = 1 .. Len(ArgTypes(f))
  BY <1>1, <1>2
<1>4. \A i \in DOMAIN ArgTypes(f) : GoodType(ArgTypes(f)[i])
  BY <1>1, <1>2 DEF ArgTypes, FrameTyped, GoodExpr
<1>5. Len(f.args) = f.node.arity /\ f.node.arity \in Nat \ {0} /\ f.node.kind \in Kinds
  BY NodesAssumption DEF FrameTyped, Complete
<1>6. GoodExpr(Arg(f, 1))
  BY <1>5 DEF FrameTyped, Arg
<1>7. f.node.kind \in {"ternary", "index", "binary"} => GoodExpr(Arg(f, 2))
  BY <1>5, NodesAssumption DEF FrameTyped, Arg
<1> QED
  BY <1>1, <1>3, <1>4, <1>5, <1>6, <1>7

LEMMA ArrayGood ==
  ASSUME NEW vt, GoodInfer(vt), vt.type # Error, NEW n \in Nat
  PROVE  GoodType(ArrayType(vt.type, Uint8(n))) /\ GoodType(PlainType(vt.type))
<1>1. vt.type \in PrimTypes /\ vt.type # Error /\ IsValueType(vt.type)
  BY DEF GoodInfer, HLSVType
<1>2. Uint8(n) \in uint8
  BY DEF Uint8, uint8
<1> DEFINE a == ArrayType(vt.type, Uint8(n))
<1>3. a.type = vt.type /\ a \in HLSVType
  BY <1>1, <1>2 DEF ArrayType, HLSVType, uint8
<1>4. ~ IsImageType(vt.type)
  BY <1>1, TypeCodes
<1>5. GoodType(PlainType(vt.type))
  BY <1>1, PlainGood DEF ArgumentTypes
<1> QED
  BY <1>1, <1>3, <1>4, <1>5 DEF GoodType

\* What a node that passes its checks returns has a type.
LEMMA TypeOfGood ==
  ASSUME NEW f, FrameSound(f), FrameTyped(f), Complete(f), LeaveOK(f), GoodInfer(infer_type_)
  PROVE  GoodType(TypeOf(f))
<1> DEFINE vt == Arg(f, 1).type
<1>1. /\ DOMAIN ArgTypes(f) = 1 .. Len(ArgTypes(f))
      /\ \A i \in DOMAIN ArgTypes(f) : GoodType(ArgTypes(f)[i])
      /\ f.node.arity \in Nat \ {0} /\ f.node.kind \in Kinds
      /\ GoodType(vt)
      /\ f.node.kind \in {"ternary", "index", "binary"} => GoodType(Arg(f, 2).type)
      /\ f.node \in Nodes
  BY TypesOfArguments DEF GoodExpr, FrameTyped
<1>2. \A t : IsValueType(t) => t \in ArgumentTypes
  BY TypeCodes DEF ArgumentTypes
<1>3. CASE f.node.kind \in {"paren", "factor"}
  <2>1. TypeOf(f) = vt
    BY <1>3 DEF TypeOf
  <2> QED
    BY <1>1, <2>1
<1>4. CASE f.node.kind \in {"not", "complement"}
  <2>1. TypeOf(f) = PlainType(vt.type) /\ IsValueType(vt.type)
    BY <1>4 DEF TypeOf, LeaveOK, IsPlainValue
  <2> QED
    BY <1>2, <2>1, PlainGood
<1>5. CASE f.node.kind = "binary"
  <2> DEFINE t == CheckBinaryOperator(f.node.op, vt, Arg(f, 2).type)
  <2>1. TypeOf(f) = PlainType(t) /\ t # Error
    BY <1>5 DEF TypeOf, LeaveOK
  <2>2. f.node.op \in BinaryOperators
    BY <1>1, <1>5, NodesAssumption
  <2>3. /\ t = OperatorType(f.node.op, vt.type, Arg(f, 2).type.type)
        /\ vt.type \in ValueTypes /\ Arg(f, 2).type.type \in ValueTypes
    BY <2>1 DEF CheckBinaryOperator, IsValueType
  <2>4. t \in ValueTypes
    BY <2>1, <2>2, <2>3, OperatorsTyped
  <2> QED
    BY <1>2, <2>1, <2>4, PlainGood DEF IsValueType
<1>6. CASE f.node.kind = "ternary"
  <2>1. TypeOf(f) = IF infer_type_.type # Error THEN infer_type_ ELSE Arg(f, 2).type
    BY <1>6 DEF TypeOf, TernaryType
  <2> QED
    BY <1>1, <1>6, <2>1, InferredGood
<1>7. CASE f.node.kind = "index"
  <2>1. TypeOf(f) = ElementOf(Arg(f, 2).type) /\ Extent(Arg(f, 2).type) > 0
    BY <1>7 DEF TypeOf, LeaveOK
  <2> QED
    BY <1>1, <1>7, <2>1, ElementGood
<1>8. CASE f.node.kind = "swizzle"
  <2>1. /\ TypeOf(f) = PlainType(MakeVectorType(GetComponentType(vt.type), f.node.length))
        /\ IsVectorType(vt.type)
    BY <1>8 DEF TypeOf, LeaveOK
  <2>2. GetComponentType(vt.type) \in ScalarTypes
    BY <2>1, TypeCodes, VectorParts
  <2>3. f.node.length \in 1 .. 4
    BY <1>1, <1>8, NodesAssumption DEF FrameTyped
  <2> QED
    BY <2>1, <2>2, <2>3, VectorsMade, PlainGood
<1>9. CASE f.node.kind = "list"
  <2>1. TypeOf(f) = IF f.save.is_array THEN ArrayType(f.save.type, Uint8(f.node.arity))
                    ELSE PlainType(f.save.type)
    BY <1>9 DEF TypeOf
  <2>2. GoodInfer(f.save) /\ f.save.type # Error
    BY <1>9 DEF FrameTyped
  <2>3. GoodType(ArrayType(f.save.type, Uint8(f.node.arity))) /\ GoodType(PlainType(f.save.type))
    BY <1>1, <2>2, ArrayGood
  <2> QED
    BY <2>1, <2>3
<1>10. CASE f.node.kind = "construct"
  <2>1. TypeOf(f) = PlainType(f.node.prim) /\ IsValueType(f.node.prim)
    BY <1>10 DEF TypeOf, LeaveOK, CheckConstructor
  <2> QED
    BY <1>2, <2>1, PlainGood
<1>11. CASE f.node.kind = "call"
  <2> DEFINE args == ArgTypes(f)
             e == Chosen(f.node.name, args)
  <2>1. TypeOf(f) = ReturnType(e, args) /\ CheckFunction(f.node.name, args)
    BY <1>11 DEF TypeOf, LeaveOK
  <2> HIDE DEF args
  <2>2. GoodEntry(e) /\ EntryMatches(e, args)
    BY <1>1, <2>1, ChosenEntry DEF args
  <2> HIDE DEF e
  <2>3. GoodType(ReturnType(e, args))
    BY <1>1, <2>2, ReturnGood DEF args
  <2> QED
    BY <2>1, <2>3
<1> QED
  BY <1>1, <1>3, <1>4, <1>5, <1>6, <1>7, <1>8, <1>9, <1>10, <1>11 DEF Kinds

LEMMA FreshExpr ==
  ASSUME NEW vt \in HLSVType, NEW constant \in BOOLEAN, NEW reads \in SUBSET Scopes
  PROVE  [type |-> vt, is_literal |-> FALSE, is_compile_constant |-> constant, bits |-> 0,
          reads |-> reads, written |-> 0] \in Expr
<1>1. 0 \in 0 .. UINT32_MAX
  BY WordAssumption
<1> QED
  BY <1>1 DEF Expr

LEMMA ReadsOfScopes ==
  ASSUME NEW f, FrameSound(f), FrameTyped(f) PROVE Reads(f) \subseteq Scopes
<1>1. DOMAIN f.args = 1 .. Len(f.args)
  BY LenProperties DEF FrameSound, IsASequence
<1>2. ASSUME NEW k \in DOMAIN f.args PROVE f.args[k].reads \subseteq Scopes
  BY <1>1 DEF FrameTyped, GoodExpr, Expr
<1> QED
  BY <1>2 DEF Reads

LEMMA ExprOfGood ==
  ASSUME NEW f, FrameSound(f), FrameTyped(f), Complete(f), LeaveOK(f), GoodInfer(infer_type_)
  PROVE  GoodExpr(ExprOf(f))
<1>1. /\ GoodType(TypeOf(f)) /\ TypeOf(f) \in HLSVType /\ Reads(f) \in SUBSET Scopes
      /\ GoodExpr(Arg(f, 1))
  BY TypeOfGood, ReadsOfScopes, TypesOfArguments DEF GoodType
<1>2. AllConstant(f) \in BOOLEAN
  BY DEF AllConstant
<1> DEFINE E(constant) ==
             [type |-> TypeOf(f), is_literal |-> FALSE, is_compile_constant |-> constant, bits |-> 0,
              reads |-> Reads(f), written |-> 0]
<1>3. \A constant \in BOOLEAN : GoodExpr(E(constant))
  BY <1>1, FreshExpr DEF GoodExpr
<1>4. CASE f.node.kind = "paren"
  BY <1>1, <1>4 DEF ExprOf
<1>5. CASE f.node.kind \in {"list", "construct"}
  <2>1. ExprOf(f) = E(AllConstant(f))
    BY <1>5 DEF ExprOf, NewExpr
  <2> HIDE DEF E
  <2> QED
    BY <1>2, <1>3, <2>1, Zenon
<1>6. CASE f.node.kind \notin {"paren", "list", "construct"}
  <2>1. ExprOf(f) = E(FALSE)
    BY <1>6 DEF ExprOf, NewExpr
  <2> HIDE DEF E
  <2> QED
    BY <1>3, <2>1
<1> QED
  BY <1>4, <1>5, <1>6

-----------------------------------------------------------------------------
(* The inductive invariant of the types, beside the one above: the nodes   *)
(* below the last one are those that wait for an operand.                  *)

StackTyped(fs) ==
  /\ \A k \in 1 .. Len(fs) : FrameTyped(fs[k])
  /\ \A k \in 1 .. Len(fs) - 1 : Len(fs[k].args) < fs[k].node.arity
Typed(stat, val) ==
  /\ stat \in {"visiting", "done", "failed"}
  /\ val \in Expr /\ (stat = "done" => GoodType(val.type))

TypedInv ==
  /\ StackTyped(frames) /\ Typed(status, value)
  /\ context \in Contexts /\ GoodInfer(infer_type_)

LEMMA NewExprGood ==
  ASSUME NEW vt \in HLSVType PROVE NewExpr(vt) \in Expr
BY FreshExpr DEF NewExpr

\* The leaves.
LEMMA Changed ==
  ASSUME NEW e \in Expr
  PROVE  /\ \A r \in SUBSET Scopes : [e EXCEPT !.reads = r] \in Expr /\ [e EXCEPT !.reads = r].type = e.type
         /\ \A b \in BOOLEAN : /\ [e EXCEPT !.is_literal = b] \in Expr
                               /\ [e EXCEPT !.is_literal = b].type = e.type
                               /\ [e EXCEPT !.is_compile_constant = b] \in Expr
                               /\ [e EXCEPT !.is_compile_constant = b].type = e.type
         /\ \A n \in 0 .. UINT32_MAX : [e EXCEPT !.bits = n] \in Expr /\ [e EXCEPT !.bits = n].type = e.type
         /\ \A n \in Int : [e EXCEPT !.written = n] \in Expr /\ [e EXCEPT !.written = n].type = e.type
BY DEF Expr

LEMMA VariableGood == ASSUME NEW v \in Variables PROVE GoodExpr(VariableExpr(v))
<1>1. v.type \in HLSVType /\ v.scope \in Scopes /\ GoodType(v.type)
  BY VariablesAssumption DEF IsVariableType, GoodType
<1>2. IsCompileConstant(v) \in BOOLEAN /\ {v.scope} \in SUBSET Scopes
  BY <1>1 DEF IsCompileConstant
<1>3. NewExpr(v.type) \in Expr /\ NewExpr(v.type).type = v.type
  BY <1>1, NewExprGood DEF NewExpr
<1> DEFINE d == [NewExpr(v.type) EXCEPT !.is_compile_constant = IsCompileConstant(v)]
<1>4. d \in Expr /\ d.type = v.type
  BY <1>2, <1>3, Changed, Zenon
<1> HIDE DEF d
<1>5. [d EXCEPT !.reads = {v.scope}] \in Expr /\ [d EXCEPT !.reads = {v.scope}].type = v.type
  BY <1>2, <1>4, Changed
<1>6. VariableExpr(v) = [d EXCEPT !.reads = {v.scope}]
  BY DEF VariableExpr, d
<1> QED
  BY <1>1, <1>5, <1>6 DEF GoodExpr

LEMMA StepGood ==
  ASSUME NEW v \in Variables, IsIndexType(v.type)
  PROVE  GoodExpr([NewExpr(PlainType(v.type.type)) EXCEPT !.reads = {v.scope}])
<1> DEFINE vt == PlainType(v.type.type)
           e == [NewExpr(vt) EXCEPT !.reads = {v.scope}]
<1>1. v.scope \in Scopes /\ v.type.type \in ArgumentTypes
  BY VariablesAssumption DEF IsVariableType, HLSVType, ArgumentTypes
<1>2. GoodType(vt) /\ vt \in HLSVType
  BY <1>1, PlainGood DEF GoodType
<1> HIDE DEF vt
<1>3. NewExpr(vt) \in Expr /\ NewExpr(vt).type = vt /\ {v.scope} \in SUBSET Scopes
  BY <1>1, <1>2, NewExprGood DEF NewExpr
<1>4. e \in Expr /\ e.type = vt
  BY <1>3, Changed
<1> QED
  BY <1>2, <1>4 DEF GoodExpr, vt

LEMMA LiteralGood ==
  ASSUME NEW t \in ScalarTypes, NEW bits \in 0 .. UINT32_MAX, NEW written \in Int
  PROVE  GoodExpr(LiteralExpr(t, bits, written))
<1> DEFINE vt == PlainType(t)
           a == [NewExpr(vt) EXCEPT !.is_literal = TRUE]
           b == [a EXCEPT !.is_compile_constant = TRUE]
           c == [b EXCEPT !.bits = bits]
           e == [c EXCEPT !.written = written]
<1>1. GoodType(vt) /\ vt \in HLSVType
  BY PlainGood, ScalarRanks DEF GoodType, ScalarTypes
<1>2. LiteralExpr(t, bits, written) = e
  BY DEF LiteralExpr
<1> HIDE DEF vt
<1>3. NewExpr(vt) \in Expr /\ NewExpr(vt).type = vt
  BY <1>1, NewExprGood DEF NewExpr
<1>4. a \in Expr /\ a.type = vt
  BY <1>3, Changed
<1> HIDE DEF a
<1>5. b \in Expr /\ b.type = vt
  BY <1>4, Changed
<1> HIDE DEF b
<1>6. c \in Expr /\ c.type = vt
  BY <1>5, Changed
<1> HIDE DEF c
<1>7. e \in Expr /\ e.type = vt
  BY <1>6, Changed
<1> QED
  BY <1>1, <1>2, <1>7 DEF GoodExpr

LEMMA IntegerGood ==
  ASSUME NEW tk \in Literals, IntegerLiteralOK(tk) PROVE GoodExpr(IntegerExpr(tk))
<1>1. tk.number \in Nat /\ tk.neg \in BOOLEAN
  BY IntegersAssumption DEF IsIntegerToken
<1>2. UINT32_MAX \in Nat /\ INT32_MAX \in Nat /\ 2 * INT32_MAX <= UINT32_MAX
  BY WordAssumption DEF INT32_MAX
<1>3. Written(tk) \in Int /\ Written(tk) < UINT32_MAX /\ Written(tk) >= - INT32_MAX
  BY <1>1, <1>2 DEF IntegerLiteralOK, Written
<1>4. LiteralBits(tk) \in 0 .. UINT32_MAX
  BY <1>2, <1>3 DEF LiteralBits, Word
<1>5. SInt \in ScalarTypes /\ UInt \in ScalarTypes
  BY ScalarRanks
<1> QED
  BY <1>3, <1>4, <1>5, LiteralGood DEF IntegerExpr

LEMMA OperandTyped ==
  ASSUME NEW f, FrameSound(f), FrameTyped(f), NEW e, GoodExpr(e), Len(f.args) < f.node.arity,
         NEW g, g = [f EXCEPT !.args = Append(@, e)]
  PROVE  FrameTyped(g)
<1>1. g = [node |-> f.node, save |-> f.save, args |-> Append(f.args, e)]
  BY DEF FrameSound, IsFrame
<1>2. /\ Len(f.args) \in Nat /\ Len(Append(f.args, e)) = Len(f.args) + 1
      /\ \A i \in 1 .. Len(f.args) : Append(f.args, e)[i] = f.args[i]
      /\ Append(f.args, e)[Len(f.args) + 1] = e
  BY AppendToSequence DEF FrameSound
<1>3. g.node = f.node /\ g.save = f.save /\ g.args = Append(f.args, e)
  BY <1>1
<1>4. \A i \in 1 .. Len(g.args) : GoodExpr(g.args[i])
  <2> TAKE i \in 1 .. Len(g.args)
  <2>1. i \in 1 .. Len(f.args) \/ i = Len(f.args) + 1
    BY <1>2, <1>3
  <2> QED
    BY <1>2, <1>3, <2>1 DEF FrameTyped
<1>5. f.node.arity \in Nat
  BY NodesAssumption DEF FrameTyped
<1>6. Len(g.args) <= g.node.arity
  BY <1>2, <1>3, <1>5
<1> QED
  BY <1>3, <1>4, <1>6 DEF FrameTyped

LEMMA DeliveredTyped ==
  ASSUME NEW fs, StackSound(fs), StackTyped(fs), NEW e, GoodExpr(e), Typed(status, value),
         fs # <<>> => Len(fs[Len(fs)].args) < fs[Len(fs)].node.arity,
         Deliver(fs, e)
  PROVE  StackTyped(frames') /\ Typed(status', value')
<1>0. IsASequence(fs) /\ Len(fs) \in Nat /\ (fs = <<>> <=> Len(fs) = 0)
  BY EmptyStack DEF StackSound
<1>1. CASE fs = <<>>
  <2>1. frames' = fs /\ value' = e /\ status' = "done"
    BY <1>1 DEF Deliver
  <2> QED
    BY <2>1 DEF Typed, GoodExpr
<1>2. CASE fs # <<>>
  <2> DEFINE n == Len(fs)
             g == [fs[n] EXCEPT !.args = Append(@, e)]
  <2>1. /\ frames' = [fs EXCEPT ![n] = g]
        /\ status' = IF OperandOK(fs[n], e) THEN status ELSE "failed"
        /\ value' = value
    BY <1>2 DEF Deliver
  <2>2. n \in 1 .. n /\ n >= 1
    BY <1>0, <1>2
  <2>3. FrameTyped(g)
    BY <1>2, <2>2, OperandTyped DEF StackSound, StackTyped
  <2> HIDE DEF g
  <2>4. /\ Len(frames') = n /\ frames'[n] = g
        /\ \A i \in 1 .. n - 1 : frames'[i] = fs[i]
    <3>1. /\ Len([fs EXCEPT ![Len(fs)] = g]) = Len(fs)
          /\ [fs EXCEPT ![Len(fs)] = g][Len(fs)] = g
          /\ \A i \in 1 .. Len(fs) - 1 : [fs EXCEPT ![Len(fs)] = g][i] = fs[i]
      BY <1>0, <2>2, ExceptSequence
    <3> QED
      BY <2>1, <3>1, Zenon
  <2>5. ASSUME NEW k \in 1 .. n PROVE FrameTyped(frames'[k])
    <3>1. k = n \/ k \in 1 .. n - 1
      BY <1>0
    <3> QED
      BY <2>3, <2>4, <3>1 DEF StackTyped
  <2>6. \A k \in 1 .. n - 1 : Len(frames'[k].args) < frames'[k].node.arity
    BY <2>4 DEF StackTyped
  <2>7. Typed(status', value')
    BY <2>1 DEF Typed
  <2> QED
    BY <2>4, <2>5, <2>6, <2>7 DEF StackTyped
<1> QED
  BY <1>1, <1>2

LEMMA InitTyped == ASSUME Init PROVE TypedInv
<1>1. Len(<<>>) = 0
  OBVIOUS
<1>2. StackTyped(frames)
  BY <1>1 DEF Init, StackTyped
<1>3. ErrorType \in HLSVType
  BY DEF ErrorType, PlainType, HLSVType, PrimTypes, uint8
<1>4. Typed(status, value)
  BY <1>3, NewExprGood DEF Init, Typed
<1>5. GoodInfer(context)
  BY ContextsAssumption DEF Init, GoodInfer
<1> QED
  BY <1>2, <1>4, <1>5 DEF Init, TypedInv

LEMMA ErrorTyped == ASSUME TypedInv, ERROR PROVE TypedInv'
BY DEF ERROR, TypedInv, Typed, StackTyped

LEMMA LeafTyped ==
  ASSUME IInv, TypedInv, NEW ok, NEW e, ok => GoodExpr(e), Leaf(ok, e)
  PROVE  TypedInv'
<1>1. CASE ok
  <2>1. /\ Deliver(frames, e) /\ UNCHANGED <<infer_type_, context>>
        /\ frames # <<>> => Len(frames[Len(frames)].args) < frames[Len(frames)].node.arity
        /\ StackSound(frames) /\ StackTyped(frames) /\ Typed(status, value) /\ GoodExpr(e)
    BY <1>1 DEF Leaf, Expected, Here, Depth, IInv, TypedInv
  <2>2. StackTyped(frames') /\ Typed(status', value')
    BY <2>1, DeliveredTyped
  <2> QED
    BY <2>1, <2>2 DEF TypedInv
<1>2. CASE ~ ok
  BY <1>2, ErrorTyped DEF Leaf
<1> QED
  BY <1>1, <1>2

LEMMA InferInGood == ASSUME NEW f, GoodInfer(f.save) PROVE GoodInfer(InferIn(f))
<1>1. ErrorType \in HLSVType /\ ErrorType.type = Error
  BY DEF ErrorType, PlainType, HLSVType, PrimTypes, uint8
<1>2. GoodInfer(PlainType(f.save.type))
  BY DEF GoodInfer, PlainType, HLSVType, uint8
<1>3. GoodInfer(ErrorType)
  BY <1>1 DEF GoodInfer
<1> QED
  BY <1>2, <1>3 DEF InferIn

LEMMA EnterTyped == ASSUME IInv, TypedInv, NEW node \in Nodes, Enter(node) PROVE TypedInv'
<1> DEFINE f == Frame(node, infer_type_)
<1>1. CASE EnterOK(node)
  <2>1. /\ frames' = Append(frames, f) /\ infer_type_' = InferIn(f)
        /\ UNCHANGED <<status, context, value>>
        /\ frames # <<>> => Len(frames[Len(frames)].args) < frames[Len(frames)].node.arity
    BY <1>1 DEF Enter, Expected, Here, Depth
  <2>2. f.node = node /\ f.save = infer_type_ /\ f.args = <<>> /\ Len(<<>>) = 0
    BY DEF Frame
  <2>3. FrameTyped(f)
    <3>1. node.kind = "list" => infer_type_.type # Error
      BY <1>1 DEF EnterOK
    <3>2. node.kind = "swizzle" => node.length <= 4
      BY <1>1 DEF EnterOK
    <3>3. node.arity \in Nat \ {0}
      BY NodesAssumption
    <3> HIDE DEF f
    <3> QED
      BY <2>2, <3>1, <3>2, <3>3 DEF FrameTyped, TypedInv
  <2> HIDE DEF f
  <2>4. /\ Len(frames) \in Nat /\ Len(frames') = Len(frames) + 1 /\ frames'[Len(frames) + 1] = f
        /\ \A k \in 1 .. Len(frames) : frames'[k] = frames[k]
        /\ frames = <<>> <=> Len(frames) = 0
    <3>1. IsASequence(frames)
      BY DEF IInv, StackSound
    <3> QED
      BY <2>1, <3>1, AppendToSequence, EmptyStack
  <2>5. ASSUME NEW k \in 1 .. Len(frames') PROVE FrameTyped(frames'[k])
    <3>1. k \in 1 .. Len(frames) \/ k = Len(frames) + 1
      BY <2>4
    <3> QED
      BY <2>3, <2>4, <3>1 DEF TypedInv, StackTyped
  <2>6. ASSUME NEW k \in 1 .. Len(frames') - 1 PROVE Len(frames'[k].args) < frames'[k].node.arity
    <3>1. k \in 1 .. Len(frames) /\ (k = Len(frames) \/ k \in 1 .. Len(frames) - 1)
      BY <2>4
    <3>2. Len(frames[k].args) < frames[k].node.arity
      BY <2>1, <2>4, <3>1 DEF TypedInv, StackTyped
    <3> QED
      BY <2>4, <3>1, <3>2
  <2>7. GoodInfer(infer_type_')
    BY <2>1, <2>3, InferInGood DEF FrameTyped
  <2> QED
    BY <2>1, <2>5, <2>6, <2>7 DEF TypedInv, StackTyped
<1>2. CASE ~ EnterOK(node)
  BY <1>2, ErrorTyped DEF Enter
<1> QED
  BY <1>1, <1>2

LEMMA LeaveTyped == ASSUME IInv, TypedInv, Leave PROVE TypedInv'
<1> DEFINE fs == SubSeq(frames, 1, Depth - 1)
<1>1. CASE LeaveOK(Here)
  <2>1. /\ Deliver(fs, ExprOf(Here)) /\ infer_type_' = Restored(Here) /\ context' = context
        /\ frames # <<>> /\ Complete(Here) /\ status = "visiting"
        /\ StackSound(frames) /\ StackChecked(frames) /\ StackTyped(frames)
        /\ Typed(status, value) /\ GoodInfer(infer_type_)
    BY <1>1 DEF Leave, IInv, TypedInv, Complete
  <2>2. /\ StackSound(fs) /\ Depth \in Nat /\ Depth >= 1 /\ Len(fs) = Depth - 1
        /\ \A k \in 1 .. Depth - 1 : fs[k] = frames[k]
    BY <2>1, Popped
  <2> HIDE DEF fs
  <2>3. FrameSound(Here) /\ FrameTyped(Here)
    <3>1. Depth \in 1 .. Depth
      BY <2>2
    <3> QED
      BY <2>1, <3>1 DEF StackSound, StackTyped, Here, Depth
  <2>4. GoodExpr(ExprOf(Here))
    BY <1>1, <2>1, <2>3, ExprOfGood
  <2>5. /\ \A k \in 1 .. Len(fs) : FrameTyped(fs[k]) /\ Len(fs[k].args) < fs[k].node.arity
    <3>1. \A k \in 1 .. Depth - 1 : k \in 1 .. Depth
      BY <2>2
    <3> QED
      BY <2>1, <2>2, <3>1 DEF StackTyped, Depth
  <2>6. StackTyped(fs) /\ (fs # <<>> => Len(fs[Len(fs)].args) < fs[Len(fs)].node.arity)
    <3>1. Len(fs) \in Nat /\ (fs = <<>> <=> Len(fs) = 0)
      BY <2>2, EmptyStack DEF StackSound
    <3>2. /\ \A k \in 1 .. Len(fs) - 1 : k \in 1 .. Len(fs)
          /\ fs # <<>> => Len(fs) \in 1 .. Len(fs)
      BY <3>1
    <3> QED
      BY <2>5, <3>2 DEF StackTyped
  <2>7. StackTyped(frames') /\ Typed(status', value')
    BY <2>1, <2>2, <2>4, <2>6, DeliveredTyped
  <2>8. GoodInfer(infer_type_')
    BY <2>1, <2>3 DEF Restored, FrameTyped
  <2> QED
    BY <2>1, <2>7, <2>8 DEF TypedInv
<1>2. CASE ~ LeaveOK(Here)
  BY <1>2, ErrorTyped DEF Leave
<1> QED
  BY <1>1, <1>2

LEMMA NextTyped == ASSUME IInv, TypedInv, [Next]_vars PROVE TypedInv'
<1>1. CASE UNCHANGED vars
  BY <1>1 DEF vars, TypedInv, Typed, StackTyped
<1>2. ASSUME NEW v \in Variables, VariableAtom(v) PROVE TypedInv'
  BY <1>2, VariableGood, LeafTyped DEF VariableAtom
<1>3. ASSUME NEW v \in Variables, Step(v) PROVE TypedInv'
  <2> DEFINE ok == v.writable /\ IsIndexType(v.type)
             e  == [NewExpr(PlainType(v.type.type)) EXCEPT !.reads = {v.scope}]
  <2>1. ok => GoodExpr(e)
    BY StepGood
  <2>2. Leaf(ok, e)
    BY <1>3 DEF Step
  <2> HIDE DEF ok, e
  <2> QED
    BY <2>1, <2>2, LeafTyped
<1>4. SInt \in ScalarTypes /\ UInt \in ScalarTypes /\ Bool \in ScalarTypes /\ Float \in ScalarTypes
  BY ScalarRanks
<1>5. 0 \in 0 .. UINT32_MAX
  BY WordAssumption
<1>6. CASE BooleanLiteral
  <2>1. GoodExpr(LiteralExpr(Bool, 0, 0))
    BY <1>4, <1>5, LiteralGood
  <2> QED
    BY <1>6, <2>1, LeafTyped DEF BooleanLiteral
<1>7. CASE FloatLiteral
  <2>1. GoodExpr(LiteralExpr(Float, 0, 0))
    BY <1>4, <1>5, LiteralGood
  <2> QED
    BY <1>7, <2>1, LeafTyped DEF FloatLiteral
<1>8. ASSUME NEW tk \in Literals, IntegerLiteral(tk) PROVE TypedInv'
  <2>1. IntegerLiteralOK(tk) => GoodExpr(IntegerExpr(tk))
    BY IntegerGood
  <2> QED
    BY <1>8, <2>1, LeafTyped DEF IntegerLiteral
<1>9. ASSUME NEW node \in Nodes, Enter(node) PROVE TypedInv'
  BY <1>9, EnterTyped
<1>10. CASE Leave
  BY <1>10, LeaveTyped
<1>11. CASE Ended
  BY <1>1, <1>11 DEF Ended
<1> QED
  BY <1>1, <1>2, <1>3, <1>6, <1>7, <1>8, <1>9, <1>10, <1>11 DEF Next

THEOREM TypesInductive == Spec => []TypedInv
<1>1. Init => TypedInv
  BY InitTyped
<1>2. IInv /\ TypedInv /\ [Next]_vars => TypedInv'
  BY NextTyped
<1> QED
  BY <1>1, <1>2, Inductive, PTL DEF Spec

-----------------------------------------------------------------------------
(* The theorems about types and calls. *)

LEMMA GoodIsNoError == ASSUME NEW vt, GoodType(vt) PROVE vt.type # Error
BY TypeCodes DEF GoodType

LEMMA TypesHold == ASSUME IInv, TypedInv PROVE TypeOK
<1>1. ASSUME NEW k \in 1 .. Depth
      PROVE  /\ frames[k].node \in Nodes /\ frames[k].save \in HLSVType
             /\ Len(frames[k].args) <= frames[k].node.arity
             /\ \A e \in ToSet(frames[k].args) : e \in Expr /\ e.type.type # Error
  <2>1. FrameSound(frames[k]) /\ FrameTyped(frames[k])
    BY DEF IInv, TypedInv, StackSound, StackTyped, Depth
  <2>2. DOMAIN frames[k].args = 1 .. Len(frames[k].args)
    BY <2>1, LenProperties DEF FrameSound, IsASequence
  <2>3. ASSUME NEW e \in ToSet(frames[k].args) PROVE e \in Expr /\ e.type.type # Error
    <3>1. GoodExpr(e)
      BY <2>1, <2>2 DEF ToSet, FrameTyped
    <3> QED
      BY <3>1, GoodIsNoError DEF GoodExpr
  <2> QED
    BY <2>1, <2>3 DEF FrameTyped, GoodInfer
<1>2. value \in Expr /\ (status = "done" => value.type.type # Error)
  BY GoodIsNoError DEF TypedInv, Typed
<1>3. status \in {"visiting", "done", "failed"} /\ infer_type_ \in HLSVType /\ context \in Contexts
  BY DEF TypedInv, Typed, GoodInfer
<1> QED
  BY <1>1, <1>2, <1>3 DEF TypeOK

\* Every expression the visitor returns has a type of the language and none
\* the error type, whatever the tree, the variables and the literals: the
\* arithmetic on type codes of casts, swizzles, indexes and generic returns
\* never makes one up.
THEOREM ExpressionsHaveTypes == Spec => []TypeOK
<1>1. IInv /\ TypedInv => TypeOK
  BY TypesHold
<1> QED
  BY <1>1, Inductive, TypesInductive, PTL

LEMMA CallsConvertLast == ASSUME IInv, TypedInv PROVE NoNeedlessConversion
<1> SUFFICES ASSUME NEW k \in 1 .. Depth, frames[k].node.kind = "call",
                    status = "visiting", Complete(frames[k]), LeaveOK(frames[k])
             PROVE  \/ NoConversion(Chosen(frames[k].node.name, ArgTypes(frames[k])), ArgTypes(frames[k]))
                    \/ \A j \in Matching(frames[k].node.name, ArgTypes(frames[k])) :
                         ~ NoConversion(Functions[frames[k].node.name][j], ArgTypes(frames[k]))
  BY DEF NoNeedlessConversion
<1> DEFINE f    == frames[k]
           name == f.node.name
           args == ArgTypes(f)
<1>1. FrameSound(f) /\ FrameTyped(f)
  BY DEF IInv, TypedInv, StackSound, StackTyped, Depth
<1>2. DOMAIN args = 1 .. Len(args) /\ \A i \in DOMAIN args : GoodType(args[i])
  BY <1>1, TypesOfArguments
<1>3. CheckFunction(name, args)
  BY DEF LeaveOK
<1> HIDE DEF f, name, args
<1>4. \A j \in Matching(name, args) :
        NoConversion(Functions[name][j], args) => NoConversion(Chosen(name, args), args)
  BY <1>2, <1>3, ChosenEntry
<1> QED
  BY <1>4 DEF f, name, args

\* Overloads of a function are tried in the order of its table and the first
\* match is taken.  The tables of all the functions are ordered well enough
\* for that: a call with arguments of any types, in an expression of any
\* depth, converts an argument only if every overload that matches does.
THEOREM FirstMatchIsBest == Spec => []NoNeedlessConversion
<1>1. IInv /\ TypedInv => NoNeedlessConversion
  BY CallsConvertLast
<1> QED
  BY <1>1, Inductive, TypesInductive, PTL
=============================================================================
