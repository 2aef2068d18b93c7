--------------------------- MODULE TopLevelProofs ---------------------------
(***************************************************************************)
(* Theorems about TopLevel for every program and every limit, checked by   *)
(* TLAPS: the types of its state, and its tables -- the symbols, the       *)
(* uniforms and their blocks, the push constants -- with what sort() makes *)
(* of them.                                                                *)
(***************************************************************************)
EXTENDS TopLevel, StateSequences, WellFoundedInduction, FiniteSetTheorems

-----------------------------------------------------------------------------
(* A bounded set of naturals has a greatest element.                       *)

LEMMA GreatestElement ==
  ASSUME NEW n \in Nat, NEW T, T \subseteq 0 .. n, T # {}
  PROVE  \E x \in T : \A y \in T : y <= x
<1> DEFINE S == {k \in 0 .. n : n - k \in T}
<1>1. PICK t \in T : TRUE
  OBVIOUS
<1>2. \A y \in T : n - y \in S
  <2> TAKE y \in T
  <2>1. n - y \in 0 .. n /\ n - (n - y) = y
    OBVIOUS
  <2> QED
    BY <2>1
<1>3. S \subseteq Nat /\ S # {}
  BY <1>1, <1>2
<1>4. PICK x \in S : \A y \in S : x <= y
  <2> HIDE DEF S
  <2> QED
    BY <1>3, LeastElement
<1>5. ASSUME NEW y \in T PROVE y <= n - x
  <2>1. x <= n - y
    BY <1>2, <1>4
  <2>2. x \in 0 .. n /\ y \in 0 .. n
    OBVIOUS
  <2> QED
    BY <2>1, <2>2
<1> QED
  BY <1>5

-----------------------------------------------------------------------------
(* Widths and types of what the helpers return.                            *)

LEMMA Uint8Type == ASSUME NEW n \in Nat PROVE Uint8(n) \in uint8
  BY DEF Uint8, uint8

LEMMA InInterval == ASSUME NEW m \in Nat, NEW k \in Nat, k < m + 1 PROVE k \in 0 .. m
  OBVIOUS

LEMMA Below16 == \A n \in uint16 : n \in Nat /\ n < 65536
<1>1. PICK top \in Nat : top = 65535
  OBVIOUS
<1>2. uint16 = 0 .. top
  BY <1>1 DEF uint16
<1> TAKE n \in uint16
<1>3. n \in Nat /\ n <= top
  BY <1>2
<1>4. top < 65536
  BY <1>1
<1> QED
  BY <1>3, <1>4

LEMMA Uint16Type == ASSUME NEW n \in Nat PROVE Uint16(n) \in uint16
<1> DEFINE k == Uint16(n)
<1>1. PICK top \in Nat : top = 65535
  OBVIOUS
<1>2. uint16 = 0 .. top
  BY <1>1 DEF uint16
<1>3. k \in Nat /\ k < top + 1
  BY <1>1 DEF Uint16
<1> HIDE DEF k
<1>4. k \in uint16
  BY <1>2, <1>3, InInterval
<1> QED
  BY <1>4 DEF k

LEMMA WidthsNat == uint8 \subseteq Nat /\ uint16 \subseteq Nat
  BY DEF uint8, uint16

LEMMA Uint8Small == ASSUME NEW n \in uint8 PROVE Uint8(n) = n
  BY DEF Uint8, uint8

LEMMA PrimTypesNat == PrimTypes \subseteq uint8
  BY DEF uint8, PrimTypes, ValueTypes, ScalarOrVector, Matrices, Handles, Void, Error, Bool, Mat2,
         Mat4, Tex1D, SubpassInput

LEMMA SlotCountType ==
  ASSUME NEW t \in PrimTypes PROVE GetPrimitiveSlotCount(t) \in {1, 2, 3, 4}
  BY DEF GetPrimitiveSlotCount

LEMMA TypeSlotSizeType ==
  ASSUME NEW vt \in HLSVType PROVE GetTypeSlotSize(vt) \in uint8
<1>1. vt.type \in PrimTypes /\ vt.count \in Nat
  BY WidthsNat DEF HLSVType
<1>2. TrueSlots(vt) \in Nat
  BY <1>1, SlotCountType DEF TrueSlots
<1> QED
  BY <1>2, Uint8Type DEF GetTypeSlotSize

LEMMA ValueTypeSizeType ==
  ASSUME NEW t \in PrimTypes PROVE GetValueTypeSize(t) \in uint8
<1>1. CASE ~ IsValueType(t)
  BY <1>1 DEF GetValueTypeSize, uint8
<1>2. CASE IsValueType(t)
  <2>1. t \in 1 .. 16 \/ t \in 150 .. 152
    BY <1>2 DEF IsValueType, ValueTypes, ScalarOrVector, Matrices, Bool, Mat2, Mat4
  <2>2. GetComponentCount(t) \in Nat
    BY <2>1 DEF GetComponentCount, IsHandleType, IsMatrixType, Handles, Matrices, Tex1D,
                SubpassInput, Mat2, Mat4, Void
  <2> QED
    BY <1>2, <2>2, Uint8Type DEF GetValueTypeSize
<1> QED
  BY <1>1, <1>2

LEMMA ScalarLayoutSizeType ==
  ASSUME NEW vt \in HLSVType PROVE ScalarLayoutSize(vt) \in uint16
<1>1. vt.type \in PrimTypes /\ vt.count \in Nat
  BY WidthsNat DEF HLSVType
<1>2. GetValueTypeSize(vt.type) \in Nat
  BY <1>1, ValueTypeSizeType, WidthsNat
<1> DEFINE bytes == GetValueTypeSize(vt.type) * (IF vt.is_array THEN vt.count ELSE 1)
<1>3. bytes \in Nat
  BY <1>1, <1>2
<1>4. ScalarLayoutSize(vt) = Uint16(bytes)
  BY DEF ScalarLayoutSize
<1> HIDE DEF bytes
<1> QED
  BY <1>3, <1>4, Uint16Type

LEMMA AlignedOffsetType ==
  ASSUME NEW offset \in uint16 PROVE AlignedOffset(offset) \in uint16
<1> DEFINE next == offset + (ScalarAlign - (offset % ScalarAlign))
<1>1. next \in Nat
  BY WidthsNat DEF ScalarAlign
<1>2. AlignedOffset(offset) \in {offset, Uint16(next)}
  BY DEF AlignedOffset
<1> HIDE DEF next
<1> QED
  BY <1>1, <1>2, Uint16Type

LEMMA ParsedTypeType ==
  ASSUME NEW d \in Decls, NEW taken, ParseVariableOK(d, taken)
  PROVE  ParsedType(d) \in HLSVType /\ d.name \in Names /\ d.prim \in PrimTypes
<1>1. IsDeclaration(d)
  BY DeclsAssumption
<1>2. d.name \in Names /\ d.prim \in PrimTypes
  BY <1>1 DEF IsDeclaration
<1>3. d.size = NoSize \/ d.size \in 1 .. 255
  BY DEF ParseVariableOK
<1>4. d.targ.kind = "none" \/ d.targ.val \in Nat
  <2>1. d.targ.kind \in {"none", "format"} => d.targ.val \in PrimTypes
    BY <1>1 DEF IsDeclaration
  <2>2. d.targ.kind = "index" => d.targ.val # Unparsable
    BY DEF ParseVariableOK, TypeArgumentOK
  <2>3. \/ d.targ.kind \in {"none", "format"}
        \/ d.targ.kind = "index" /\ d.targ.val \in Nat \cup {Unparsable}
    BY <1>1 DEF IsDeclaration
  <2>4. \A t \in PrimTypes : t \in Nat
    BY PrimTypesNat, WidthsNat
  <2>5. CASE d.targ.kind \in {"none", "format"}
    BY <2>1, <2>4, <2>5
  <2>6. CASE d.targ.kind = "index" /\ d.targ.val \in Nat \cup {Unparsable}
    BY <2>2, <2>6
  <2> QED
    BY <2>3, <2>5, <2>6
<1>5. (IF d.targ.kind = "none" THEN 0 ELSE Uint8(d.targ.val)) \in uint8
  <2>1. 0 \in uint8
    BY DEF uint8
  <2> QED
    BY <1>4, <2>1, Uint8Type
<1>6. (IF d.size = NoSize THEN 1 ELSE d.size) \in uint8
  BY <1>3 DEF uint8
<1> QED
  BY <1>2, <1>5, <1>6 DEF ParsedType, HLSVType

LEMMA BelowType ==
  ASSUME NEW literal \in Literals, NEW limit \in Nat, Below(literal, limit)
  PROVE  literal \in Nat /\ literal < limit
  BY LiteralsAssumption DEF Below, Unparsable

LEMMA LimitsType ==
  /\ Limits.vertex_attribute_slots \in Nat /\ Limits.fragment_outputs \in Nat
  /\ Limits.uniform_sets \in Nat /\ Limits.uniform_bindings \in Nat
  /\ Limits.uniform_block_size \in Nat /\ Limits.push_constants_size \in Nat
  BY LimitsAssumption DEF LimitNames

LEMMA GlobalType ==
  ASSUME NEW d \in Decls, NEW taken, ParseVariableOK(d, taken),
         NEW scope \in {"Attribute", "Output", "Local", "Uniform", "PushConstant", "Constant"}
  PROVE  Global(d, scope) \in Variable
  BY ParsedTypeType DEF Global, Variable

-----------------------------------------------------------------------------
(* Sorting reorders: same length, same elements.                           *)

LEMMA ReorderingType ==
  ASSUME NEW S, NEW s \in Seq(S), NEW t \in Reorderings(s)
  PROVE  t \in Seq(S) /\ DOMAIN t = DOMAIN s
<1>1. PICK p \in Bijection(DOMAIN s, DOMAIN s) : t = [i \in DOMAIN s |-> s[p[i]]]
  BY DEF Reorderings
<1>2. p \in [DOMAIN s -> DOMAIN s]
  BY <1>1 DEF Bijection, Injection
<1>3. Len(s) \in Nat /\ DOMAIN s = 1 .. Len(s)
  OBVIOUS
<1>4. t \in [1 .. Len(s) -> S]
  BY <1>1, <1>2, <1>3
<1> QED
  BY <1>3, <1>4

-----------------------------------------------------------------------------
(* Type correctness: the initial state and one lemma per group of actions. *)

LEMMA InitTypeOK == Init => TypeOK
<1> SUFFICES ASSUME Init PROVE TypeOK
  OBVIOUS
<1>1. 0 \in uint8 /\ 0 \in uint16
  BY DEF uint8, uint16
<1>2. open \in OpenBlock
  BY <1>1 DEF Init, NoBlock, OpenBlock
<1>3. push_layout \in [packed : BOOLEAN, size : uint16]
  BY <1>1 DEF Init
<1> QED
  BY <1>2, <1>3 DEF Init, TypeOK, Statuses, Stages

LEMMA StutterTypeOK == TypeOK /\ UNCHANGED vars => TypeOK'
  BY DEF TypeOK, vars, reflection

LEMMA ThrowTypeOK == TypeOK /\ Throw => TypeOK'
  BY DEF TypeOK, Throw, reflection, Statuses

LEMMA VersionTypeOK ==
  ASSUME NEW ver, NEW compute, TypeOK, ShaderVersionStatement(ver, compute) PROVE TypeOK'
<1>1. CASE VersionOK(ver, compute)
  BY <1>1 DEF ShaderVersionStatement, TypeOK, reflection, Statuses
<1>2. CASE ~ VersionOK(ver, compute)
  BY <1>2, ThrowTypeOK DEF ShaderVersionStatement
<1> QED
  BY <1>1, <1>2

LEMMA AttributeTypeOK ==
  ASSUME NEW d \in Decls, NEW index \in Literals, TypeOK, VertexAttributeStatement(d, index)
  PROVE  TypeOK'
<1>1. ParseVariableOK(d, Declared) /\ Below(index, Limits.vertex_attribute_slots)
  BY DEF VertexAttributeStatement, AttributeOK
<1>2. ParsedType(d) \in HLSVType /\ d.name \in Names
  BY <1>1, ParsedTypeType
<1>3. Uint8(index) \in uint8
  BY <1>1, LimitsType, BelowType, Uint8Type
<1>4. NewAttribute(d, index) \in Attribute
  BY <1>2, <1>3, TypeSlotSizeType DEF NewAttribute, Attribute
<1>5. Global(d, "Attribute") \in Variable
  BY <1>1, GlobalType
<1> QED
  BY <1>4, <1>5 DEF VertexAttributeStatement, TypeOK, AddGlobal

LEMMA OutputTypeOK ==
  ASSUME NEW d \in Decls, NEW index \in Literals, TypeOK, FragmentOutputStatement(d, index)
  PROVE  TypeOK'
<1>1. ParseVariableOK(d, Declared) /\ Below(index, Limits.fragment_outputs)
  BY DEF FragmentOutputStatement, OutputOK
<1>2. ParsedType(d) \in HLSVType /\ d.name \in Names
  BY <1>1, ParsedTypeType
<1>3. Uint8(index) \in uint8
  BY <1>1, LimitsType, BelowType, Uint8Type
<1>4. [name |-> d.name, type |-> ParsedType(d), location |-> Uint8(index)] \in Output
  BY <1>2, <1>3 DEF Output
<1>5. Global(d, "Output") \in Variable
  BY <1>1, GlobalType
<1> QED
  BY <1>4, <1>5 DEF FragmentOutputStatement, TypeOK, AddGlobal

LEMMA LocalTypeOK ==
  ASSUME NEW d \in Decls, NEW flat \in BOOLEAN, TypeOK, LocalStatement(d, flat)
  PROVE  TypeOK'
<1>1. ParseVariableOK(d, Declared)
  BY DEF LocalStatement, LocalOK
<1>2. Global(d, "Local") \in Variable
  BY <1>1, GlobalType
<1>3. (flat \/ IsIntegerType(d.prim)) \in BOOLEAN
  OBVIOUS
<1> DEFINE g == [Global(d, "Local") EXCEPT !.flat = flat \/ IsIntegerType(d.prim)]
<1>4. g \in Variable
  BY <1>2, <1>3 DEF Variable
<1>5. globals' = Append(globals, g)
  BY DEF LocalStatement, AddGlobal
<1> HIDE DEF g
<1> QED
  BY <1>4, <1>5 DEF LocalStatement, TypeOK, reflection

LEMMA NewUniformType ==
  ASSUME NEW d \in Decls, ParseVariableOK(d, Declared), NEW set \in Nat, NEW binding \in Nat,
         NEW index \in uint8, NEW offset \in uint16, NEW size \in uint16
  PROVE  NewUniform(d, set, binding, index, offset, size) \in Uniform
<1>1. ParsedType(d) \in HLSVType /\ d.name \in Names
  BY ParsedTypeType
<1>2. Uint8(set) \in uint8 /\ Uint8(binding) \in uint8
  BY Uint8Type
<1> QED
  BY <1>1, <1>2 DEF NewUniform, Uniform

LEMMA UniformLocationType ==
  ASSUME NEW set \in Literals, NEW binding \in Literals, UniformLocationOK(set, binding)
  PROVE  set \in Nat /\ binding \in Nat /\ set < Limits.uniform_sets
           /\ binding < Limits.uniform_bindings
  BY LimitsType, BelowType DEF UniformLocationOK

LEMMA HandleTypeOK ==
  ASSUME NEW d \in Decls, NEW set \in Literals, NEW binding \in Literals,
         TypeOK, HandleUniformStatement(d, set, binding)
  PROVE  TypeOK'
<1>1. ParseVariableOK(d, Declared) /\ UniformLocationOK(set, binding)
  BY DEF HandleUniformStatement, HandleOK
<1>2. set \in Nat /\ binding \in Nat
  BY <1>1, UniformLocationType
<1>3. 0 \in uint8 /\ 0 \in uint16
  BY DEF uint8, uint16
<1>4. NewUniform(d, set, binding, 0, 0, 0) \in Uniform
  BY <1>1, <1>2, <1>3, NewUniformType
<1>5. Global(d, "Uniform") \in Variable
  BY <1>1, GlobalType
<1> QED
  BY <1>4, <1>5 DEF HandleUniformStatement, TypeOK, AddGlobal

LEMMA OpenBlockTypeOK ==
  ASSUME NEW set \in Literals, NEW binding \in Literals, TypeOK, OpenUniformBlock(set, binding)
  PROVE  TypeOK'
<1>1. set \in Nat /\ binding \in Nat
  BY UniformLocationType DEF OpenUniformBlock
<1>2. Uint8(Len(blocks)) \in uint8
  BY Uint8Type DEF TypeOK
<1>3. 0 \in uint16
  BY DEF uint16
<1>4. open' \in OpenBlock
  BY <1>1, <1>2, <1>3 DEF OpenUniformBlock, NoBlock, OpenBlock
<1> QED
  BY <1>4 DEF OpenUniformBlock, TypeOK, reflection, Statuses

\* A member moves the end of the block by its size, in 16 bits.
LEMMA ExtendedType ==
  ASSUME NEW d \in Decls, ParseVariableOK(d, Declared), TypeOK, NEW members \in SUBSET uint8
  PROVE  /\ AlignedOffset(open.offset) \in uint16
         /\ ScalarLayoutSize(ParsedType(d)) \in uint16
         /\ Extended(d, members) \in OpenBlock
<1>1. open \in OpenBlock
  BY DEF TypeOK
<1>2. AlignedOffset(open.offset) \in uint16
  BY <1>1, AlignedOffsetType DEF OpenBlock
<1>3. ScalarLayoutSize(ParsedType(d)) \in uint16
  BY ParsedTypeType, ScalarLayoutSizeType
<1> DEFINE end == AlignedOffset(open.offset) + ScalarLayoutSize(ParsedType(d))
           flag == open.packed /\ AlignedOffset(open.offset) = open.offset
<1>4. Uint16(end) \in uint16
  <2>1. AlignedOffset(open.offset) \in Nat /\ ScalarLayoutSize(ParsedType(d)) \in Nat
    BY <1>2, <1>3, WidthsNat
  <2>2. end \in Nat
    BY <2>1
  <2> HIDE DEF end
  <2> QED
    BY <2>2, Uint16Type
<1>5. flag \in BOOLEAN
  BY <1>1 DEF OpenBlock
<1>6. Extended(d, members) = [open EXCEPT !.offset = Uint16(end), !.packed = flag,
                                          !.members = members]
  BY DEF Extended
<1> HIDE DEF end, flag
<1> QED
  BY <1>1, <1>2, <1>3, <1>4, <1>5, <1>6 DEF OpenBlock

LEMMA BlockMemberTypeOK ==
  ASSUME NEW d \in Decls, TypeOK, UniformBlockMember(d) PROVE TypeOK'
<1> DEFINE offset  == AlignedOffset(open.offset)
           size    == ScalarLayoutSize(ParsedType(d))
           members == open.members \cup {Uint8(Len(uniforms))}
           u       == NewUniform(d, open.set, open.binding, open.index, offset, size)
<1>1. ParseVariableOK(d, Declared)
  BY DEF UniformBlockMember, MemberOK
<1>2. /\ open.set \in Nat /\ open.binding \in Nat /\ open.index \in uint8
      /\ open.members \in SUBSET uint8
  BY DEF TypeOK, OpenBlock
<1>3. members \in SUBSET uint8
  <2>1. Uint8(Len(uniforms)) \in uint8
    BY Uint8Type DEF TypeOK
  <2> QED
    BY <1>2, <2>1
<1>4. offset \in uint16 /\ size \in uint16 /\ Extended(d, members) \in OpenBlock
  BY <1>1, <1>3, ExtendedType
<1>5. u \in Uniform
  BY <1>1, <1>2, <1>4, NewUniformType
<1>6. Global(d, "Uniform") \in Variable
  BY <1>1, GlobalType
<1>7. uniforms' = Append(uniforms, u) /\ open' = Extended(d, members)
  BY DEF UniformBlockMember
<1> HIDE DEF u, members
<1> QED
  BY <1>4, <1>5, <1>6, <1>7 DEF UniformBlockMember, TypeOK, AddGlobal

LEMMA CloseBlockTypeOK == TypeOK /\ CloseUniformBlock => TypeOK'
<1> SUFFICES ASSUME TypeOK, CloseUniformBlock PROVE TypeOK'
  OBVIOUS
<1>1. open \in OpenBlock
  BY DEF TypeOK
<1>2. Uint8(open.set) \in uint8 /\ Uint8(open.binding) \in uint8
  BY <1>1, Uint8Type DEF OpenBlock
<1> DEFINE b == [set |-> Uint8(open.set), binding |-> Uint8(open.binding), size |-> open.offset,
                 packed |-> open.packed, members |-> open.members]
<1>3. b \in Block
  BY <1>1, <1>2 DEF OpenBlock, Block
<1>4. blocks' = Append(blocks, b)
  BY DEF CloseUniformBlock
<1>5. NoBlock \in OpenBlock
  <2>1. 0 \in uint8 /\ 0 \in uint16
    BY DEF uint8, uint16
  <2> QED
    BY <2>1 DEF NoBlock, OpenBlock
<1> HIDE DEF b
<1> QED
  BY <1>3, <1>4, <1>5 DEF CloseUniformBlock, TypeOK, Statuses

LEMMA OpenPushTypeOK == TypeOK /\ OpenPushBlock => TypeOK'
<1> SUFFICES ASSUME TypeOK, OpenPushBlock PROVE TypeOK'
  OBVIOUS
<1>1. 0 \in uint8 /\ 0 \in uint16
  BY DEF uint8, uint16
<1>2. NoBlock \in OpenBlock
  BY <1>1 DEF NoBlock, OpenBlock
<1> QED
  BY <1>2 DEF OpenPushBlock, TypeOK, Statuses, reflection

LEMMA PushMemberTypeOK ==
  ASSUME NEW d \in Decls, TypeOK, PushBlockMember(d) PROVE TypeOK'
<1> DEFINE pc == [name |-> d.name, type |-> ParsedType(d),
                  offset |-> AlignedOffset(open.offset),
                  size |-> ScalarLayoutSize(ParsedType(d))]
<1>1. ParseVariableOK(d, Declared)
  BY DEF PushBlockMember, MemberOK
<1>2. ParsedType(d) \in HLSVType /\ d.name \in Names
  BY <1>1, ParsedTypeType
<1>3. open.members \in SUBSET uint8
  BY DEF TypeOK, OpenBlock
<1>4. /\ AlignedOffset(open.offset) \in uint16 /\ ScalarLayoutSize(ParsedType(d)) \in uint16
      /\ Extended(d, open.members) \in OpenBlock
  BY <1>1, <1>3, ExtendedType
<1>5. pc \in PushConst
  BY <1>2, <1>4 DEF PushConst
<1>6. Global(d, "PushConstant") \in Variable
  BY <1>1, GlobalType
<1>7. push_constants' = Append(push_constants, pc)
  BY DEF PushBlockMember
<1> HIDE DEF pc
<1> QED
  BY <1>4, <1>5, <1>6, <1>7 DEF PushBlockMember, TypeOK, AddGlobal

LEMMA ClosePushTypeOK == TypeOK /\ ClosePushBlock => TypeOK'
<1> SUFFICES ASSUME TypeOK, ClosePushBlock PROVE TypeOK'
  OBVIOUS
<1>1. 0 \in uint8 /\ 0 \in uint16
  BY DEF uint8, uint16
<1>2. NoBlock \in OpenBlock
  BY <1>1 DEF NoBlock, OpenBlock
<1>3. push_layout' \in [packed : BOOLEAN, size : uint16]
  BY DEF ClosePushBlock, TypeOK, OpenBlock
<1> QED
  BY <1>2, <1>3 DEF ClosePushBlock, TypeOK, Statuses

-----------------------------------------------------------------------------
(* Constants: what an initialiser evaluates to is typed.                   *)

LEMMA FindType ==
  ASSUME TypeOK, NEW n \in Declared PROVE Find(n) \in Variable
<1>1. PICK i \in DOMAIN globals : globals[i].name = n
  BY DEF Declared
<1> DEFINE k == CHOOSE j \in DOMAIN globals : globals[j].name = n
<1>2. k \in DOMAIN globals
  BY <1>1
<1>3. Find(n) = globals[k]
  BY DEF Find
<1> HIDE DEF k
<1> QED
  BY <1>2, <1>3 DEF TypeOK

\* The values an expression carries are integers.
HasValues(e) == e.value \in Int /\ e.source \in Int /\ e.glsl \in Int

LEMMA AtomExprType ==
  ASSUME TypeOK, NEW a, IsAtom(a), a.kind = "var" => a.name \in Declared
  PROVE  HasValues(AtomExpr(a))
<1>1. CASE a.kind = "literal"
  <2>1. a.value \in Int
    BY <1>1 DEF IsAtom
  <2>2. AtomExpr(a) = [type |-> PlainType(a.prim), const |-> TRUE,
                       value |-> a.value, source |-> a.value, glsl |-> a.value]
    BY <1>1 DEF AtomExpr
  <2> QED
    BY <2>1, <2>2 DEF HasValues
<1>2. CASE a.kind = "var"
  <2>1. Find(a.name) \in Variable
    BY <1>2, FindType
  <2>2. a.kind # "literal"
    BY <1>2
  <2>3. AtomExpr(a) = [type |-> Find(a.name).type,
                       const |-> Find(a.name).scope \in {"Constant", "PushConstant"},
                       value |-> 0, source |-> Find(a.name).source, glsl |-> Find(a.name).glsl]
    BY <2>2 DEF AtomExpr
  <2> QED
    BY <2>1, <2>3 DEF HasValues, Variable
<1> QED
  BY <1>1, <1>2 DEF IsAtom

LEMMA EvaluateType ==
  ASSUME TypeOK, NEW init \in Inits, NEW infer, InitialiserOK(init, infer)
  PROVE  HasValues(Evaluate(init, infer))
<1>1. IsInitialiser(init)
  BY InitsAssumption
<1>2. \A a \in Atoms(init) : a.kind = "var" => a.name \in Declared
  BY DEF InitialiserOK, Referenced
<1>3. CASE init.kind \in {"literal", "var"}
  <2>1. IsAtom(init) /\ init \in Atoms(init)
    BY <1>1, <1>3 DEF IsInitialiser, Atoms
  <2>2. HasValues(AtomExpr(init))
    BY <1>2, <2>1, AtomExprType
  <2> QED
    BY <1>3, <2>2 DEF Evaluate
<1>4. CASE init.kind = "other"
  BY <1>4 DEF Evaluate, HasValues
<1>5. CASE init.kind \in {"list", "cast"}
  <2> DEFINE exprs  == [i \in DOMAIN init.args |-> AtomExpr(init.args[i])]
             vt     == IF init.kind = "cast" THEN PlainType(init.prim)
                       ELSE IF infer.is_array THEN ArrayType(infer.type, Len(exprs))
                       ELSE PlainType(infer.type)
             scalar == Len(exprs) = 1 /\ IsScalarType(vt.type)
             e      == [type |-> vt, const |-> \A i \in DOMAIN exprs : exprs[i].const,
                        value |-> 0,
                        source |-> IF scalar THEN exprs[1].source ELSE 0,
                        glsl |-> IF scalar THEN exprs[1].glsl ELSE 0]
  <2>1. IsSequenceOfAtoms(init.args)
    BY <1>1, <1>5 DEF IsInitialiser
  <2>2. Evaluate(init, infer) = e
    <3>1. init.kind \notin {"literal", "var"} /\ init.kind # "other"
      BY <1>5
    <3> QED
      BY <3>1 DEF Evaluate, ComposedExpr
  <2>3. Atoms(init) = ToSet(init.args)
    BY <1>5 DEF Atoms
  <2>4. \A i \in DOMAIN init.args : HasValues(AtomExpr(init.args[i]))
    BY <1>2, <2>1, <2>3, AtomExprType DEF IsSequenceOfAtoms, ToSet
  <2>5. ASSUME scalar PROVE HasValues(exprs[1])
    <3> DEFINE S == {AtomExpr(init.args[i]) : i \in DOMAIN init.args}
    <3>1. Len(init.args) \in Nat /\ DOMAIN init.args = 1 .. Len(init.args)
      BY <2>1 DEF IsSequenceOfAtoms
    <3>2. exprs \in [1 .. Len(init.args) -> S]
      BY <3>1
    <3>3. exprs \in Seq(S)
      BY <3>1, <3>2
    <3>4. Len(exprs) = 1
      BY <2>5
    <3>5. DOMAIN exprs = 1 .. 1
      <4> HIDE DEF exprs, S
      <4> QED
        BY <3>3, <3>4
    <3>6. DOMAIN exprs = DOMAIN init.args
      OBVIOUS
    <3>7. 1 \in DOMAIN init.args
      <4> HIDE DEF exprs
      <4> QED
        BY <3>5, <3>6
    <3> QED
      BY <3>7, <2>4
  <2>6. HasValues(e)
    <3>1. CASE scalar
      <4> HIDE DEF exprs, vt, scalar
      <4>1. e.source = exprs[1].source /\ e.glsl = exprs[1].glsl /\ e.value = 0
        BY <3>1
      <4> HIDE DEF e
      <4> QED
        BY <4>1, <2>5, <3>1 DEF HasValues
    <3>2. CASE ~ scalar
      <4> HIDE DEF exprs, vt, scalar
      <4>1. e.source = 0 /\ e.glsl = 0 /\ e.value = 0
        BY <3>2
      <4> HIDE DEF e
      <4> QED
        BY <4>1 DEF HasValues
    <3> QED
      BY <3>1, <3>2
  <2> QED
    BY <2>2, <2>6
<1> QED
  BY <1>1, <1>3, <1>4, <1>5 DEF IsInitialiser

LEMMA GlobalConstantTypeOK ==
  ASSUME NEW d \in Decls, NEW init \in Inits, TypeOK, GlobalConstantStatement(d, init)
  PROVE  TypeOK'
<1> DEFINE e == Evaluate(init, ParsedType(d))
           g == [Global(d, "Constant") EXCEPT !.source = e.source, !.glsl = e.glsl]
<1>1. ParseVariableOK(d, Declared) /\ InitialiserOK(init, ParsedType(d))
  BY DEF GlobalConstantStatement, ConstantOK
<1>2. e.source \in Int /\ e.glsl \in Int
  BY <1>1, EvaluateType DEF HasValues
<1>3. Global(d, "Constant") \in Variable
  BY <1>1, GlobalType
<1>4. g \in Variable
  <2> HIDE DEF e
  <2> QED
    BY <1>2, <1>3 DEF Variable
<1>5. globals' = Append(globals, g)
  BY DEF GlobalConstantStatement, AddGlobal
<1> HIDE DEF e, g
<1> QED
  BY <1>4, <1>5 DEF GlobalConstantStatement, TypeOK, reflection

LEMMA SpecConstantTypeOK ==
  ASSUME NEW d \in Decls, NEW index \in Literals, NEW init \in Inits, TypeOK,
         SpecConstantStatement(d, index, init)
  PROVE  TypeOK'
<1> DEFINE e  == Evaluate(init, ParsedType(d))
           sc == [name |-> d.name, type |-> ParsedType(d), index |-> index,
                  size |-> ScalarLayoutSize(ParsedType(d)), default_value |-> e.value]
           text == IF RewrittenAsFloat(d, e) THEN e.value ELSE e.glsl
           g  == [Global(d, "Constant") EXCEPT !.source = e.source, !.glsl = text]
<1>1. /\ ParseVariableOK(d, Declared) /\ InitialiserOK(init, ParsedType(d))
      /\ Below(index, 256)
  BY DEF SpecConstantStatement, SpecConstantOK, ConstantOK
<1>2. e.value \in Int /\ e.source \in Int /\ e.glsl \in Int
  BY <1>1, EvaluateType DEF HasValues
<1>3. Global(d, "Constant") \in Variable
  BY <1>1, GlobalType
<1>4. ParsedType(d) \in HLSVType /\ d.name \in Names
  BY <1>1, ParsedTypeType
<1>5. index \in uint8
  BY <1>1, BelowType DEF uint8
<1>6. sc \in SpecConst
  <2> HIDE DEF e
  <2> QED
    BY <1>2, <1>4, <1>5, ScalarLayoutSizeType DEF SpecConst
<1>7. text \in Int
  BY <1>2
<1>8. g \in Variable
  <2> HIDE DEF e, text
  <2> QED
    BY <1>2, <1>3, <1>7 DEF Variable
<1>9. spec_constants' = Append(spec_constants, sc) /\ globals' = Append(globals, g)
  BY DEF SpecConstantStatement, AddGlobal
<1> HIDE DEF e, sc, text, g
<1> QED
  BY <1>6, <1>8, <1>9 DEF SpecConstantStatement, TypeOK

LEMMA StageTypeOK ==
  ASSUME NEW stage \in Stages, TypeOK, EnterStage(stage) PROVE TypeOK'
  BY DEF EnterStage, TypeOK, Stages, Statuses

LEMMA LeaveStageTypeOK == TypeOK /\ LeaveStage => TypeOK'
  BY DEF LeaveStage, TypeOK, reflection, Statuses

-----------------------------------------------------------------------------
(* The end of the file: sort() keeps every table typed.                    *)

LEMMA ReindexedType ==
  ASSUME NEW u \in Uniform, NEW n \in Nat, NEW bs, DOMAIN bs = 1 .. n
  PROVE  Reindexed(u, bs) \in Uniform
<1> DEFINE mine == {k \in DOMAIN bs : SameLocation(u, bs[k])}
<1>1. CASE mine = {}
  BY <1>1 DEF Reindexed
<1>2. CASE mine # {}
  <2> DEFINE last == CHOOSE k \in mine : \A j \in mine : j <= k
  <2>1. mine \subseteq 0 .. n /\ mine \subseteq 1 .. n
    OBVIOUS
  <2>2. \E k \in mine : \A j \in mine : j <= k
    <3> HIDE DEF mine
    <3> QED
      BY <1>2, <2>1, GreatestElement
  <2>3. last \in 1 .. n
    <3> HIDE DEF mine
    <3> QED
      BY <2>1, <2>2
  <2>4. Reindexed(u, bs) = [u EXCEPT !.block.index = Uint8(last - 1)]
    BY <1>2 DEF Reindexed
  <2> HIDE DEF last, mine
  <2>5. last - 1 \in Nat
    BY <2>3
  <2>6. Uint8(last - 1) \in uint8
    BY <2>5, Uint8Type
  <2> QED
    BY <2>4, <2>6 DEF Uniform
<1> QED
  BY <1>1, <1>2

LEMMA MembersOfType ==
  ASSUME NEW blk, NEW us \in Seq(Uniform) PROVE MembersOf(blk, us) \in SUBSET uint8
<1>1. ASSUME NEW i \in DOMAIN us PROVE Uint8(i - 1) \in uint8
  <2>1. i - 1 \in Nat
    OBVIOUS
  <2> QED
    BY <2>1, Uint8Type
<1> QED
  BY <1>1 DEF MembersOf

LEMMA FunctionIsSequence ==
  ASSUME NEW S, NEW n \in Nat, NEW f \in [1 .. n -> S] PROVE f \in Seq(S)
  OBVIOUS

LEMMA SortTypeOK ==
  ASSUME attributes \in Seq(Attribute), outputs \in Seq(Output), uniforms \in Seq(Uniform),
         blocks \in Seq(Block), push_constants \in Seq(PushConst), Sort
  PROVE  /\ attributes' \in Seq(Attribute) /\ outputs' \in Seq(Output)
         /\ uniforms' \in Seq(Uniform) /\ blocks' \in Seq(Block)
         /\ push_constants' \in Seq(PushConst)
<1>1. /\ attributes' \in Reorderings(attributes) /\ outputs' \in Reorderings(outputs)
      /\ push_constants' \in Reorderings(push_constants)
  BY DEF Sort, SortedVersions
<1>2. /\ attributes' \in Seq(Attribute) /\ outputs' \in Seq(Output)
      /\ push_constants' \in Seq(PushConst)
  BY <1>1, ReorderingType
<1>3. PICK us \in Reorderings(uniforms), bs \in Reorderings(blocks) :
        /\ uniforms' = [i \in DOMAIN us |-> Reindexed(us[i], bs)]
        /\ blocks' = [k \in DOMAIN bs |-> [bs[k] EXCEPT !.members = MembersOf(bs[k], us)]]
  BY DEF Sort, SortedVersions
<1>4. us \in Seq(Uniform) /\ bs \in Seq(Block)
  BY <1>3, ReorderingType
<1>5. uniforms' \in Seq(Uniform)
  <2>1. Len(bs) \in Nat /\ DOMAIN bs = 1 .. Len(bs)
    BY <1>4
  <2>2. \A i \in DOMAIN us : Reindexed(us[i], bs) \in Uniform
    BY <1>4, <2>1, ReindexedType
  <2>3. Len(us) \in Nat /\ DOMAIN us = 1 .. Len(us)
    BY <1>4
  <2> DEFINE n == Len(us)
  <2>4. uniforms' \in [1 .. n -> Uniform]
    <3>1. uniforms' = [i \in DOMAIN us |-> Reindexed(us[i], bs)]
      BY <1>3
    <3> QED
      BY <2>2, <2>3, <3>1
  <2>5. n \in Nat
    BY <2>3
  <2> HIDE DEF n
  <2> QED
    BY <2>4, <2>5, FunctionIsSequence
<1>6. blocks' \in Seq(Block)
  <2>1. \A k \in DOMAIN bs : [bs[k] EXCEPT !.members = MembersOf(bs[k], us)] \in Block
    <3> TAKE k \in DOMAIN bs
    <3>1. bs[k] \in Block /\ MembersOf(bs[k], us) \in SUBSET uint8
      BY <1>4, MembersOfType
    <3> QED
      BY <3>1 DEF Block
  <2>2. Len(bs) \in Nat /\ DOMAIN bs = 1 .. Len(bs)
    BY <1>4
  <2>3. blocks' \in [1 .. Len(bs) -> Block]
    BY <1>3, <2>1, <2>2
  <2> QED
    BY <2>2, <2>3
<1> QED
  BY <1>2, <1>5, <1>6

LEMMA FinishTypeOK == TypeOK /\ Finish => TypeOK'
<1> SUFFICES ASSUME TypeOK, Finish PROVE TypeOK'
  OBVIOUS
<1>1. Sort
  BY DEF Finish
<1>2. /\ attributes' \in Seq(Attribute) /\ outputs' \in Seq(Output)
      /\ uniforms' \in Seq(Uniform) /\ blocks' \in Seq(Block)
      /\ push_constants' \in Seq(PushConst)
  BY <1>1, SortTypeOK DEF TypeOK
<1> QED
  BY <1>2 DEF Finish, TypeOK, Statuses

LEMMA FinishWithoutStageTypeOK == TypeOK /\ FinishWithoutStage => TypeOK'
  BY DEF FinishWithoutStage, TypeOK, reflection, Statuses

-----------------------------------------------------------------------------
\* The statements in error, and the end of the visit, change nothing but status.
LEMMA RejectedTypeOK ==
  ASSUME TypeOK,
         \/ \E d \in Decls, index \in Literals : AttributeRejected(d, index)
         \/ \E d \in Decls, index \in Literals : OutputRejected(d, index)
         \/ \E d \in Decls : LocalRejected(d) \/ MemberRejected(d)
         \/ \E d \in Decls, set, binding \in Literals : HandleRejected(d, set, binding)
         \/ \E d \in Decls, init \in Inits, index \in Literals \cup {NoIndex} :
              ConstantRejected(d, index, init)
         \/ UniformBlockRejected \/ SecondPushBlock \/ StageBodyRejected
         \/ \E stage \in Stages : SecondStage(stage)
  PROVE  TypeOK'
<1>1. Throw
  BY DEF AttributeRejected, OutputRejected, LocalRejected, MemberRejected, HandleRejected,
         ConstantRejected, UniformBlockRejected, SecondPushBlock, StageBodyRejected, SecondStage
<1> QED
  BY <1>1, ThrowTypeOK

LEMMA InterfaceTypeOK == TypeOK /\ Interface => TypeOK'
<1> SUFFICES ASSUME TypeOK, Interface PROVE TypeOK'
  OBVIOUS
<1>1. CASE \E d \in Decls, index \in Literals : VertexAttributeStatement(d, index)
  BY <1>1, AttributeTypeOK
<1>2. CASE \E d \in Decls, index \in Literals : FragmentOutputStatement(d, index)
  BY <1>2, OutputTypeOK
<1>3. CASE \E d \in Decls, flat \in BOOLEAN : LocalStatement(d, flat)
  BY <1>3, LocalTypeOK
<1>4. CASE \/ \E d \in Decls, index \in Literals : AttributeRejected(d, index)
           \/ \E d \in Decls, index \in Literals : OutputRejected(d, index)
           \/ \E d \in Decls : LocalRejected(d)
  BY <1>4, RejectedTypeOK
<1> QED
  BY <1>1, <1>2, <1>3, <1>4 DEF Interface

LEMMA ResourcesTypeOK == TypeOK /\ Resources => TypeOK'
<1> SUFFICES ASSUME TypeOK, Resources PROVE TypeOK'
  OBVIOUS
<1>1. CASE \E d \in Decls, set, binding \in Literals : HandleUniformStatement(d, set, binding)
  BY <1>1, HandleTypeOK
<1>2. CASE \E set, binding \in Literals : OpenUniformBlock(set, binding)
  BY <1>2, OpenBlockTypeOK
<1>3. CASE \E d \in Decls : UniformBlockMember(d)
  BY <1>3, BlockMemberTypeOK
<1>4. CASE \E d \in Decls : PushBlockMember(d)
  BY <1>4, PushMemberTypeOK
<1>5. CASE CloseUniformBlock
  BY <1>5, CloseBlockTypeOK
<1>6. CASE OpenPushBlock
  BY <1>6, OpenPushTypeOK
<1>7. CASE ClosePushBlock
  BY <1>7, ClosePushTypeOK
<1>8. CASE \/ \E d \in Decls, set, binding \in Literals : HandleRejected(d, set, binding)
           \/ \E d \in Decls : MemberRejected(d)
           \/ UniformBlockRejected \/ SecondPushBlock
  BY <1>8, RejectedTypeOK
<1> QED
  BY <1>1, <1>2, <1>3, <1>4, <1>5, <1>6, <1>7, <1>8 DEF Resources

LEMMA ConstantsTypeOK == TypeOK /\ Constants => TypeOK'
<1> SUFFICES ASSUME TypeOK, Constants PROVE TypeOK'
  OBVIOUS
<1>1. CASE \E d \in Decls, init \in Inits : GlobalConstantStatement(d, init)
  BY <1>1, GlobalConstantTypeOK
<1>2. CASE \E d \in Decls, init \in Inits, index \in Literals :
             SpecConstantStatement(d, index, init)
  BY <1>2, SpecConstantTypeOK
<1>3. CASE \E d \in Decls, init \in Inits, index \in Literals \cup {NoIndex} :
             ConstantRejected(d, index, init)
  BY <1>3, RejectedTypeOK
<1> QED
  BY <1>1, <1>2, <1>3 DEF Constants

LEMMA FunctionsTypeOK == TypeOK /\ Functions => TypeOK'
<1> SUFFICES ASSUME TypeOK, Functions PROVE TypeOK'
  OBVIOUS
<1>1. CASE \E stage \in Stages : EnterStage(stage)
  BY <1>1, StageTypeOK
<1>2. CASE \E stage \in Stages : SecondStage(stage)
  BY <1>2, RejectedTypeOK
<1> QED
  BY <1>1, <1>2 DEF Functions

LEMMA NextTypeOK == TypeOK /\ [Next]_vars => TypeOK'
<1> SUFFICES ASSUME TypeOK, [Next]_vars PROVE TypeOK'
  OBVIOUS
<1>1. CASE \E ver \in Versions, compute \in BOOLEAN : ShaderVersionStatement(ver, compute)
  BY <1>1, VersionTypeOK
<1>2. CASE Interface
  BY <1>2, InterfaceTypeOK
<1>3. CASE Resources
  BY <1>3, ResourcesTypeOK
<1>4. CASE Constants
  BY <1>4, ConstantsTypeOK
<1>5. CASE Functions
  BY <1>5, FunctionsTypeOK
<1>6. CASE LeaveStage
  BY <1>6, LeaveStageTypeOK
<1>7. CASE StageBodyRejected
  BY <1>7, RejectedTypeOK
<1>8. CASE Finish \/ FinishWithoutStage
  BY <1>8, FinishTypeOK, FinishWithoutStageTypeOK
<1>9. CASE Terminated \/ UNCHANGED vars
  BY <1>9, StutterTypeOK DEF Terminated
<1> QED
  BY <1>1, <1>2, <1>3, <1>4, <1>5, <1>6, <1>7, <1>8, <1>9 DEF Next

\* Whatever the program, the limits and the initialisers, every value the
\* visitor stores fits the C++ field it is stored in, and a stage is current
\* while its function is visited.
THEOREM TypeCorrect == Spec => []TypeOK
<1>1. Init => TypeOK
  BY InitTypeOK
<1>2. TypeOK /\ [Next]_vars => TypeOK'
  BY NextTypeOK
<1> QED
  BY <1>1, <1>2, PTL DEF Spec

-----------------------------------------------------------------------------
\* The steps that change a table of bindings or the symbol table.
LEMMA WhoChangesWhat ==
  ASSUME [Next]_vars
  PROVE  /\ \/ attributes' = attributes
            \/ \E d \in Decls, index \in Literals : VertexAttributeStatement(d, index)
            \/ Finish
         /\ \/ outputs' = outputs
            \/ \E d \in Decls, index \in Literals : FragmentOutputStatement(d, index)
            \/ Finish
<1>1. CASE \E ver \in Versions, compute \in BOOLEAN : ShaderVersionStatement(ver, compute)
  BY <1>1 DEF ShaderVersionStatement, Throw, reflection
<1>2. CASE Interface
  BY <1>2 DEF Interface, VertexAttributeStatement, FragmentOutputStatement, LocalStatement,
       AttributeRejected, OutputRejected, LocalRejected, Throw, reflection
<1>3. CASE Resources
  BY <1>3 DEF Resources, HandleUniformStatement, HandleRejected, OpenUniformBlock,
       UniformBlockRejected, UniformBlockMember, PushBlockMember, MemberRejected,
       CloseUniformBlock, OpenPushBlock, SecondPushBlock, ClosePushBlock, Throw, reflection
<1>4. CASE Constants
  BY <1>4 DEF Constants, GlobalConstantStatement, SpecConstantStatement, ConstantRejected, Throw,
       reflection
<1>5. CASE Functions
  BY <1>5 DEF Functions, EnterStage, SecondStage, Throw, reflection
<1>6. CASE LeaveStage \/ StageBodyRejected
  BY <1>6 DEF LeaveStage, StageBodyRejected, Throw, reflection
<1>7. CASE Finish
  BY <1>7
<1>8. CASE FinishWithoutStage
  BY <1>8 DEF FinishWithoutStage, reflection
<1>9. CASE Terminated \/ UNCHANGED vars
  BY <1>9 DEF Terminated, vars, reflection
<1> QED
  BY <1>1, <1>2, <1>3, <1>4, <1>5, <1>6, <1>7, <1>8, <1>9 DEF Next

-----------------------------------------------------------------------------
(* The attribute slots.                                                    *)

LEMMA NarrowIndex ==
  ASSUME NEW literal \in Literals, NEW limit \in Nat, limit <= 256, Below(literal, limit)
  PROVE  literal \in Nat /\ literal < limit /\ Uint8(literal) = literal
<1>1. literal \in Nat /\ literal < limit
  BY BelowType
<1>2. literal \in uint8
  BY <1>1 DEF uint8
<1> QED
  BY <1>1, <1>2, Uint8Small

\* The overlap test of visitVertexAttributeStatement is exact.
LEMMA NoOverlapDisjoint ==
  ASSUME NEW index \in Nat, NEW scount \in Nat, NEW attr,
         attr.location \in Nat, attr.slot_count \in Nat,
         ~ AttributeOverlap(index, scount, attr)
  PROVE  (index .. (index + scount - 1)) \cap SlotsOf(attr) = {}
  BY DEF AttributeOverlap, SlotsOf

LEMMA AttributeKeepsDisjoint ==
  ASSUME NarrowLimits, TypeOK, AttributesDisjoint, NEW d \in Decls, NEW index \in Literals,
         VertexAttributeStatement(d, index)
  PROVE  AttributesDisjoint'
<1> DEFINE new == NewAttribute(d, index)
           vt  == ParsedType(d)
<1>1. /\ ParseVariableOK(d, Declared) /\ Below(index, Limits.vertex_attribute_slots)
      /\ index + GetTypeSlotSize(vt) <= Limits.vertex_attribute_slots
      /\ \A i \in DOMAIN attributes :
           ~ AttributeOverlap(index, GetTypeSlotSize(vt), attributes[i])
  BY DEF VertexAttributeStatement, AttributeOK
<1>2. index \in Nat /\ Uint8(index) = index
  BY <1>1, LimitsType, NarrowIndex DEF NarrowLimits
<1>3. GetTypeSlotSize(vt) \in Nat
  BY <1>1, ParsedTypeType, TypeSlotSizeType, WidthsNat
<1>4. new.location = index /\ new.slot_count = GetTypeSlotSize(vt)
  BY <1>2 DEF NewAttribute
<1>5. attributes' = Append(attributes, new)
  BY DEF VertexAttributeStatement
<1>6. attributes \in Seq(Attribute)
  BY DEF TypeOK
<1>7. \A i \in DOMAIN attributes :
        attributes[i].location \in Nat /\ attributes[i].slot_count \in Nat
  <2> TAKE i \in DOMAIN attributes
  <2>1. attributes[i] \in Attribute
    BY <1>6
  <2>2. attributes[i].location \in uint8 /\ attributes[i].slot_count \in uint8
    BY <2>1 DEF Attribute
  <2> QED
    BY <2>2, WidthsNat
<1>8. \A i \in DOMAIN attributes : SlotsOf(new) \cap SlotsOf(attributes[i]) = {}
  <2> TAKE i \in DOMAIN attributes
  <2>1. SlotsOf(new) = index .. (index + GetTypeSlotSize(vt) - 1)
    BY <1>4 DEF SlotsOf
  <2> HIDE DEF new, vt
  <2> QED
    BY <1>1, <1>2, <1>3, <1>7, <2>1, NoOverlapDisjoint
<1> HIDE DEF new, vt
<1> DEFINE n == Len(attributes)
<1>9. /\ n \in Nat /\ DOMAIN attributes = 1 .. n /\ DOMAIN attributes' = 1 .. n + 1
      /\ \A i \in 1 .. n : attributes'[i] = attributes[i]
      /\ attributes'[n + 1] = new
  BY <1>5, <1>6
<1> HIDE DEF n
<1>10. ASSUME NEW i \in DOMAIN attributes', NEW j \in DOMAIN attributes', i # j
       PROVE  SlotsOf(attributes'[i]) \cap SlotsOf(attributes'[j]) = {}
  <2>1. CASE i \in 1 .. n /\ j \in 1 .. n
    BY <1>9, <2>1, <1>10 DEF AttributesDisjoint
  <2>2. CASE i \in 1 .. n /\ j = n + 1
    BY <1>8, <1>9, <2>2
  <2>3. CASE i = n + 1 /\ j \in 1 .. n
    BY <1>8, <1>9, <2>3
  <2> QED
    BY <1>9, <1>10, <2>1, <2>2, <2>3
<1>11. ASSUME NEW i \in DOMAIN attributes'
       PROVE  attributes'[i].location + attributes'[i].slot_count
                <= Limits.vertex_attribute_slots
  <2>1. CASE i \in 1 .. n
    BY <1>9, <2>1 DEF AttributesDisjoint
  <2>2. CASE i = n + 1
    BY <1>1, <1>4, <1>9, <2>2
  <2> QED
    BY <1>9, <2>1, <2>2
<1> QED
  BY <1>10, <1>11 DEF AttributesDisjoint, SlotsOf

LEMMA SortKeepsDisjoint ==
  ASSUME TypeOK, AttributesDisjoint, Finish PROVE AttributesDisjoint'
<1>1. attributes \in Seq(Attribute) /\ attributes' \in Reorderings(attributes)
  BY DEF TypeOK, Finish, Sort, SortedVersions
<1>2. PICK p \in Bijection(DOMAIN attributes, DOMAIN attributes) :
        attributes' = [i \in DOMAIN attributes |-> attributes[p[i]]]
  BY <1>1 DEF Reorderings
<1>3. /\ \A i \in DOMAIN attributes : p[i] \in DOMAIN attributes
      /\ \A i, j \in DOMAIN attributes : p[i] = p[j] => i = j
  BY DEF Bijection, Injection, IsInjective
<1>4. ASSUME NEW i \in DOMAIN attributes', NEW j \in DOMAIN attributes', i # j
      PROVE  SlotsOf(attributes'[i]) \cap SlotsOf(attributes'[j]) = {}
  BY <1>2, <1>3, <1>4 DEF AttributesDisjoint
<1>5. ASSUME NEW i \in DOMAIN attributes'
      PROVE  attributes'[i].location + attributes'[i].slot_count
               <= Limits.vertex_attribute_slots
  BY <1>2, <1>3 DEF AttributesDisjoint
<1> QED
  BY <1>4, <1>5 DEF AttributesDisjoint, SlotsOf

\* With limits that fit the 8 bits of a location, no program makes two
\* attributes share a slot or pass the limit, before or after sort().
THEOREM AttributesNeverOverlap == NarrowLimits => (Spec => []AttributesDisjoint)
<1> SUFFICES ASSUME NarrowLimits PROVE Spec => []AttributesDisjoint
  OBVIOUS
<1>1. Init => AttributesDisjoint
  BY DEF Init, AttributesDisjoint
<1>2. TypeOK /\ AttributesDisjoint /\ [Next]_vars => AttributesDisjoint'
  <2> SUFFICES ASSUME TypeOK, AttributesDisjoint, [Next]_vars PROVE AttributesDisjoint'
    OBVIOUS
  <2>1. CASE attributes' = attributes
    BY <2>1 DEF AttributesDisjoint, SlotsOf
  <2>2. CASE \E d \in Decls, index \in Literals : VertexAttributeStatement(d, index)
    BY <2>2, AttributeKeepsDisjoint
  <2>3. CASE Finish
    BY <2>3, SortKeepsDisjoint
  <2> QED
    BY <2>1, <2>2, <2>3, WhoChangesWhat
<1> QED
  BY <1>1, <1>2, TypeCorrect, PTL DEF Spec

-----------------------------------------------------------------------------
(* The fragment outputs. *)

LEMMA OutputKeepsDistinct ==
  ASSUME NarrowLimits, TypeOK, OutputsDistinct, NEW d \in Decls, NEW index \in Literals,
         FragmentOutputStatement(d, index)
  PROVE  OutputsDistinct'
<1> DEFINE new == [name |-> d.name, type |-> ParsedType(d), location |-> Uint8(index)]
           n   == Len(outputs)
<1>1. /\ Below(index, Limits.fragment_outputs)
      /\ \A i \in DOMAIN outputs : outputs[i].location # index
  BY DEF FragmentOutputStatement, OutputOK
<1>2. index \in Nat /\ Uint8(index) = index
  BY <1>1, LimitsType, NarrowIndex DEF NarrowLimits
<1>3. new.location = index
  BY <1>2
<1>4. outputs' = Append(outputs, new) /\ outputs \in Seq(Output)
  BY DEF FragmentOutputStatement, TypeOK
<1> HIDE DEF new
<1>5. /\ n \in Nat /\ DOMAIN outputs = 1 .. n /\ DOMAIN outputs' = 1 .. n + 1
      /\ \A i \in 1 .. n : outputs'[i] = outputs[i]
      /\ outputs'[n + 1] = new
  BY <1>4
<1> HIDE DEF n
<1>6. ASSUME NEW i \in DOMAIN outputs', NEW j \in DOMAIN outputs', i # j
      PROVE  outputs'[i].location # outputs'[j].location
  <2>1. CASE i \in 1 .. n /\ j \in 1 .. n
    BY <1>5, <1>6, <2>1 DEF OutputsDistinct
  <2>2. CASE i \in 1 .. n /\ j = n + 1
    BY <1>1, <1>3, <1>5, <2>2
  <2>3. CASE i = n + 1 /\ j \in 1 .. n
    BY <1>1, <1>3, <1>5, <2>3
  <2> QED
    BY <1>5, <1>6, <2>1, <2>2, <2>3
<1> QED
  BY <1>6 DEF OutputsDistinct

LEMMA SortKeepsDistinct ==
  ASSUME TypeOK, OutputsDistinct, Finish PROVE OutputsDistinct'
<1>1. outputs' \in Reorderings(outputs)
  BY DEF Finish, Sort, SortedVersions
<1>2. PICK p \in Bijection(DOMAIN outputs, DOMAIN outputs) :
        outputs' = [i \in DOMAIN outputs |-> outputs[p[i]]]
  BY <1>1 DEF Reorderings
<1>3. /\ \A i \in DOMAIN outputs : p[i] \in DOMAIN outputs
      /\ \A i, j \in DOMAIN outputs : p[i] = p[j] => i = j
  BY DEF Bijection, Injection, IsInjective
<1> QED
  BY <1>2, <1>3 DEF OutputsDistinct

\* With limits that fit the 8 bits of a location, no program gives two
\* fragment outputs the same location (visitFragmentOutputStatement, sort()).
THEOREM OutputsNeverCollide == NarrowLimits => (Spec => []OutputsDistinct)
<1> SUFFICES ASSUME NarrowLimits PROVE Spec => []OutputsDistinct
  OBVIOUS
<1>1. Init => OutputsDistinct
  BY DEF Init, OutputsDistinct
<1>2. TypeOK /\ OutputsDistinct /\ [Next]_vars => OutputsDistinct'
  <2> SUFFICES ASSUME TypeOK, OutputsDistinct, [Next]_vars PROVE OutputsDistinct'
    OBVIOUS
  <2>1. CASE outputs' = outputs
    BY <2>1 DEF OutputsDistinct
  <2>2. CASE \E d \in Decls, index \in Literals : FragmentOutputStatement(d, index)
    BY <2>2, OutputKeepsDistinct
  <2>3. CASE Finish
    BY <2>3, SortKeepsDistinct
  <2> QED
    BY <2>1, <2>2, <2>3, WhoChangesWhat
<1> QED
  BY <1>1, <1>2, TypeCorrect, PTL DEF Spec

-----------------------------------------------------------------------------
(* Steps that declare, place and sort nothing. *)
Quiet ==
  /\ UNCHANGED <<attributes, outputs, uniforms, blocks, push_constants, push_layout,
                 spec_constants, globals, open, vert_vars, frag_vars>>
  /\ \/ status' \in {status, "failed"}
     \/ status \in {"version", "toplevel", "stage"} /\ status' \in {"toplevel", "stage"}

LEMMA ThrowIsQuiet == Throw => Quiet
  BY DEF Throw, Quiet, reflection

LEMMA StepKinds ==
  ASSUME [Next]_vars
  PROVE  \/ Quiet
         \/ \E d \in Decls, index \in Literals :
              \/ VertexAttributeStatement(d, index)
              \/ FragmentOutputStatement(d, index)
         \/ \E d \in Decls, flat \in BOOLEAN : LocalStatement(d, flat)
         \/ \E d \in Decls, set, binding \in Literals : HandleUniformStatement(d, set, binding)
         \/ \E set, binding \in Literals : OpenUniformBlock(set, binding)
         \/ \E d \in Decls : UniformBlockMember(d) \/ PushBlockMember(d)
         \/ CloseUniformBlock \/ OpenPushBlock \/ ClosePushBlock
         \/ \E d \in Decls, init \in Inits :
              \/ GlobalConstantStatement(d, init)
              \/ \E index \in Literals : SpecConstantStatement(d, index, init)
         \/ Finish \/ FinishWithoutStage
<1>1. CASE \E ver \in Versions, compute \in BOOLEAN : ShaderVersionStatement(ver, compute)
  BY <1>1, ThrowIsQuiet DEF ShaderVersionStatement, Quiet, reflection
<1>2. CASE Interface
  BY <1>2, ThrowIsQuiet DEF Interface, AttributeRejected, OutputRejected, LocalRejected
<1>3. CASE Resources
  BY <1>3, ThrowIsQuiet DEF Resources, HandleRejected, UniformBlockRejected, MemberRejected,
       SecondPushBlock
<1>4. CASE Constants
  BY <1>4, ThrowIsQuiet DEF Constants, ConstantRejected
<1>5. CASE Functions
  BY <1>5, ThrowIsQuiet DEF Functions, EnterStage, SecondStage, Quiet
<1>6. CASE LeaveStage \/ StageBodyRejected
  BY <1>6, ThrowIsQuiet DEF LeaveStage, StageBodyRejected, Quiet, reflection
<1>7. CASE Terminated \/ UNCHANGED vars
  BY <1>7 DEF Terminated, vars, reflection, Quiet
<1> QED
  BY <1>1, <1>2, <1>3, <1>4, <1>5, <1>6, <1>7 DEF Next

-----------------------------------------------------------------------------
(* Tables that grow by one entry, and tables that sort() reorders. *)

LEMMA Appended ==
  ASSUME NEW S, NEW s \in Seq(S), NEW x
  PROVE  /\ Len(s) \in Nat /\ DOMAIN s = 1 .. Len(s)
         /\ Len(Append(s, x)) = Len(s) + 1
         /\ DOMAIN Append(s, x) = 1 .. Len(s) + 1
         /\ \A i \in 1 .. Len(s) : Append(s, x)[i] = s[i]
         /\ Append(s, x)[Len(s) + 1] = x
<1>1. s \in Seq(S \cup {x}) /\ x \in S \cup {x}
  BY SeqMonotonic
<1> QED
  BY <1>1, AppendProperties, LenProperties

\* p is a permutation of the positions D.
Permutes(p, D) ==
  /\ \A i \in D : p[i] \in D
  /\ \A i, j \in D : p[i] = p[j] => i = j
  /\ \A j \in D : \E i \in D : p[i] = j

LEMMA Permuted ==
  ASSUME NEW s, NEW t \in Reorderings(s)
  PROVE  /\ DOMAIN t = DOMAIN s
         /\ \E p : Permutes(p, DOMAIN s) /\ \A i \in DOMAIN s : t[i] = s[p[i]]
<1>1. PICK p \in Bijection(DOMAIN s, DOMAIN s) : t = [i \in DOMAIN s |-> s[p[i]]]
  BY DEF Reorderings
<1>2. Permutes(p, DOMAIN s)
  BY <1>1 DEF Bijection, Injection, IsInjective, Surjection, Permutes
<1> QED
  BY <1>1, <1>2

-----------------------------------------------------------------------------
(* The uniforms and their blocks. *)

\* What a step that is not about uniforms leaves alone.
UniformsQuiet ==
  /\ UNCHANGED <<uniforms, blocks>>
  /\ status' = "block" => status = "block" /\ open' = open
  /\ status' = "done" => status = "done"

LEMMA UniformSteps ==
  ASSUME [Next]_vars
  PROVE  \/ UniformsQuiet
         \/ \E d \in Decls, set, binding \in Literals : HandleUniformStatement(d, set, binding)
         \/ \E set, binding \in Literals : OpenUniformBlock(set, binding)
         \/ \E d \in Decls : UniformBlockMember(d)
         \/ CloseUniformBlock
         \/ Finish
<1>1. CASE \E d \in Decls, index \in Literals :
             VertexAttributeStatement(d, index) \/ FragmentOutputStatement(d, index)
  BY <1>1 DEF VertexAttributeStatement, FragmentOutputStatement, UniformsQuiet
<1>2. CASE \E d \in Decls, flat \in BOOLEAN : LocalStatement(d, flat)
  BY <1>2 DEF LocalStatement, UniformsQuiet, reflection
<1>3. CASE OpenPushBlock \/ ClosePushBlock \/ \E d \in Decls : PushBlockMember(d)
  BY <1>3 DEF OpenPushBlock, ClosePushBlock, PushBlockMember, UniformsQuiet, reflection
<1>4. CASE \E d \in Decls, init \in Inits :
             \/ GlobalConstantStatement(d, init)
             \/ \E index \in Literals : SpecConstantStatement(d, index, init)
  BY <1>4 DEF GlobalConstantStatement, SpecConstantStatement, UniformsQuiet, reflection
<1>5. CASE FinishWithoutStage
  BY <1>5 DEF FinishWithoutStage, UniformsQuiet, reflection
<1>6. CASE Quiet
  BY <1>6 DEF Quiet, UniformsQuiet
<1> QED
  BY <1>1, <1>2, <1>3, <1>4, <1>5, <1>6, StepKinds

\* No two blocks are at one location, each has a member, and the block that
\* is being visited has its location for itself.
BlocksApart ==
  /\ \A k, l \in DOMAIN blocks : k # l => ~ SameLocation(blocks[k], blocks[l])
  /\ \A k \in DOMAIN blocks : \E i \in DOMAIN uniforms : SameLocation(uniforms[i], blocks[k])
  /\ status = "block" =>
       /\ open.set \in uint8 /\ open.binding \in uint8
       /\ \A k \in DOMAIN blocks : ~ SameLocation(blocks[k], open)
       /\ open.members # {} => \E i \in DOMAIN uniforms : SameLocation(uniforms[i], open)
       /\ \A i \in DOMAIN uniforms : SameLocation(uniforms[i], open) =>
            /\ IsValueType(uniforms[i].type.type)
            /\ uniforms[i].block.index = open.index

LocationsInv == UniformLocationExclusive /\ BlocksApart

\* With limits of at most 256, the location that is checked is the location
\* that is stored.
LEMMA NarrowLocation ==
  ASSUME NarrowLimits, NEW set \in Literals, NEW binding \in Literals,
         UniformLocationOK(set, binding)
  PROVE  /\ set \in uint8 /\ binding \in uint8 /\ Uint8(set) = set /\ Uint8(binding) = binding
         /\ \A i \in DOMAIN uniforms : ~ (uniforms[i].set = set /\ uniforms[i].binding = binding)
<1>1. /\ set \in Nat /\ set < Limits.uniform_sets /\ Uint8(set) = set
      /\ binding \in Nat /\ binding < Limits.uniform_bindings /\ Uint8(binding) = binding
  BY NarrowIndex, LimitsType DEF UniformLocationOK, NarrowLimits
<1>2. set \in uint8 /\ binding \in uint8
  BY <1>1, LimitsType DEF NarrowLimits, uint8
<1>3. UniformsAt(set, binding) = {}
  BY DEF UniformLocationOK
<1> QED
  BY <1>1, <1>2, <1>3 DEF UniformsAt

LEMMA HandleKeepsLocations ==
  ASSUME NarrowLimits, TypeOK, LocationsInv, NEW d \in Decls, NEW set \in Literals,
         NEW binding \in Literals, HandleUniformStatement(d, set, binding)
  PROVE  LocationsInv'
<1> DEFINE new == NewUniform(d, set, binding, 0, 0, 0)
           n   == Len(uniforms)
<1>1. UniformLocationOK(set, binding) /\ status = "toplevel" /\ status' = "toplevel"
  BY DEF HandleUniformStatement
<1>2. uniforms' = Append(uniforms, new) /\ uniforms \in Seq(Uniform) /\ blocks' = blocks
  BY DEF HandleUniformStatement, TypeOK
<1>3. \A i \in DOMAIN uniforms : ~ SameLocation(uniforms[i], new) /\ ~ SameLocation(new, uniforms[i])
  BY <1>1, NarrowLocation DEF SameLocation, NewUniform
<1> HIDE DEF new
<1>4. /\ n \in Nat /\ DOMAIN uniforms = 1 .. n /\ DOMAIN uniforms' = 1 .. n + 1
      /\ \A i \in 1 .. n : uniforms'[i] = uniforms[i]
      /\ uniforms'[n + 1] = new
  BY <1>2, Appended
<1> HIDE DEF n
<1>5. UniformLocationExclusive'
  BY <1>3, <1>4 DEF LocationsInv, UniformLocationExclusive
<1>6. BlocksApart'
  BY <1>1, <1>2, <1>4 DEF LocationsInv, BlocksApart
<1> QED
  BY <1>5, <1>6 DEF LocationsInv

LEMMA OpenKeepsLocations ==
  ASSUME NarrowLimits, TypeOK, LocationsInv, NEW set \in Literals,
         NEW binding \in Literals, OpenUniformBlock(set, binding)
  PROVE  LocationsInv'
<1>1. /\ UniformLocationOK(set, binding) /\ UNCHANGED <<uniforms, blocks>>
      /\ open'.set = set /\ open'.binding = binding /\ open'.members = {}
  BY DEF OpenUniformBlock, NoBlock, reflection
<1>2. \A i \in DOMAIN uniforms : ~ SameLocation(uniforms[i], open')
  BY <1>1, NarrowLocation DEF SameLocation
<1>3. \A k \in DOMAIN blocks : ~ SameLocation(blocks[k], open')
  BY <1>2 DEF LocationsInv, BlocksApart, SameLocation
<1>4. open'.set \in uint8 /\ open'.binding \in uint8
  BY <1>1, NarrowLocation
<1>5. UniformLocationExclusive'
  BY <1>1 DEF LocationsInv, UniformLocationExclusive
<1>6. BlocksApart'
  BY <1>1, <1>2, <1>3, <1>4 DEF LocationsInv, BlocksApart
<1> QED
  BY <1>5, <1>6 DEF LocationsInv

LEMMA MemberKeepsLocations ==
  ASSUME TypeOK, LocationsInv, NEW d \in Decls, UniformBlockMember(d)
  PROVE  LocationsInv'
<1> DEFINE offset == AlignedOffset(open.offset)
           size   == ScalarLayoutSize(ParsedType(d))
           new    == NewUniform(d, open.set, open.binding, open.index, offset, size)
           n      == Len(uniforms)
<1>1. /\ status = "block" /\ status' = "block" /\ IsValueType(d.prim)
      /\ uniforms' = Append(uniforms, new) /\ uniforms \in Seq(Uniform) /\ blocks' = blocks
      /\ open' = Extended(d, open.members \cup {Uint8(Len(uniforms))}) /\ open \in OpenBlock
  BY DEF UniformBlockMember, TypeOK, MemberOK
<1>2. open'.set = open.set /\ open'.binding = open.binding /\ open'.index = open.index
  BY <1>1 DEF Extended, OpenBlock
<1>3. /\ SameLocation(new, open) /\ new.type.type = d.prim /\ new.block.index = open.index
      /\ new.set = open.set /\ new.binding = open.binding
  <2>1. Uint8(open.set) = open.set /\ Uint8(open.binding) = open.binding
    BY <1>1, Uint8Small DEF LocationsInv, BlocksApart
  <2> QED
    BY <2>1 DEF SameLocation, NewUniform, ParsedType
<1> HIDE DEF new, offset, size
<1>4. /\ n \in Nat /\ DOMAIN uniforms = 1 .. n /\ DOMAIN uniforms' = 1 .. n + 1
      /\ \A i \in 1 .. n : uniforms'[i] = uniforms[i]
      /\ uniforms'[n + 1] = new
  BY <1>1, Appended
<1> HIDE DEF n
<1>5. ASSUME NEW i \in 1 .. n, SameLocation(uniforms[i], new)
      PROVE  /\ IsValueType(uniforms[i].type.type)
             /\ uniforms[i].block.index = new.block.index
  BY <1>1, <1>3, <1>4, <1>5 DEF LocationsInv, BlocksApart, SameLocation
<1>6. UniformLocationExclusive'
  <2> SUFFICES ASSUME NEW i \in 1 .. n + 1, NEW j \in 1 .. n + 1, i # j,
                      SameLocation(uniforms'[i], uniforms'[j])
               PROVE  /\ IsValueType(uniforms'[i].type.type)
                      /\ uniforms'[i].block.index = uniforms'[j].block.index
    BY <1>4 DEF UniformLocationExclusive
  <2>1. CASE i \in 1 .. n /\ j \in 1 .. n
    BY <1>4, <2>1 DEF LocationsInv, UniformLocationExclusive
  <2>2. CASE i \in 1 .. n /\ j = n + 1
    BY <1>4, <1>5, <2>2
  <2>3. CASE i = n + 1 /\ j \in 1 .. n
    BY <1>1, <1>3, <1>4, <1>5, <2>3 DEF SameLocation
  <2> QED
    BY <1>4, <2>1, <2>2, <2>3
<1>7. ASSUME NEW i \in 1 .. n + 1, SameLocation(uniforms'[i], open')
      PROVE  /\ IsValueType(uniforms'[i].type.type)
             /\ uniforms'[i].block.index = open'.index
  <2>1. CASE i \in 1 .. n
    BY <1>1, <1>2, <1>4, <1>7, <2>1 DEF LocationsInv, BlocksApart, SameLocation
  <2>2. CASE i = n + 1
    BY <1>1, <1>2, <1>3, <1>4, <2>2
  <2> QED
    BY <1>4, <2>1, <2>2
<1>8. SameLocation(uniforms'[n + 1], open')
  BY <1>2, <1>3, <1>4 DEF SameLocation
<1>9. /\ open'.set \in uint8 /\ open'.binding \in uint8
      /\ \A k \in DOMAIN blocks' : ~ SameLocation(blocks'[k], open')
  BY <1>1, <1>2 DEF LocationsInv, BlocksApart, SameLocation
<1>10. /\ \A k, l \in DOMAIN blocks' : k # l => ~ SameLocation(blocks'[k], blocks'[l])
       /\ \A k \in DOMAIN blocks' : \E i \in DOMAIN uniforms' :
            SameLocation(uniforms'[i], blocks'[k])
  BY <1>1, <1>4 DEF LocationsInv, BlocksApart
<1> QED
  BY <1>4, <1>6, <1>7, <1>8, <1>9, <1>10 DEF LocationsInv, BlocksApart

LEMMA CloseKeepsLocations ==
  ASSUME TypeOK, LocationsInv, CloseUniformBlock PROVE LocationsInv'
<1> DEFINE new == [set |-> Uint8(open.set), binding |-> Uint8(open.binding),
                   size |-> open.offset, packed |-> open.packed, members |-> open.members]
           n   == Len(blocks)
<1>1. /\ status = "block" /\ status' = "toplevel" /\ open.members # {} /\ uniforms' = uniforms
      /\ blocks' = Append(blocks, new) /\ blocks \in Seq(Block)
  BY DEF CloseUniformBlock, TypeOK
<1>2. new.set = open.set /\ new.binding = open.binding
  BY <1>1, Uint8Small DEF LocationsInv, BlocksApart
<1> HIDE DEF new
<1>3. /\ n \in Nat /\ DOMAIN blocks = 1 .. n /\ DOMAIN blocks' = 1 .. n + 1
      /\ \A k \in 1 .. n : blocks'[k] = blocks[k]
      /\ blocks'[n + 1] = new
  BY <1>1, Appended
<1> HIDE DEF n
<1>4. \A k \in 1 .. n : ~ SameLocation(blocks[k], new) /\ ~ SameLocation(new, blocks[k])
  BY <1>1, <1>2, <1>3 DEF LocationsInv, BlocksApart, SameLocation
<1>5. \E i \in DOMAIN uniforms : SameLocation(uniforms[i], new)
  BY <1>1, <1>2 DEF LocationsInv, BlocksApart, SameLocation
<1>6. UniformLocationExclusive'
  BY <1>1 DEF LocationsInv, UniformLocationExclusive
<1>7. \A k, l \in DOMAIN blocks' : k # l => ~ SameLocation(blocks'[k], blocks'[l])
  BY <1>3, <1>4 DEF LocationsInv, BlocksApart
<1>8. \A k \in DOMAIN blocks' : \E i \in DOMAIN uniforms' : SameLocation(uniforms'[i], blocks'[k])
  BY <1>1, <1>3, <1>5 DEF LocationsInv, BlocksApart
<1> QED
  BY <1>1, <1>6, <1>7, <1>8 DEF LocationsInv, BlocksApart

-----------------------------------------------------------------------------
(* sort(): the tables after it, entry by entry. *)

\* The uniform v is the uniform u, but for the number of its block.
SameUniform(v, u) ==
  /\ v.name = u.name /\ v.type = u.type /\ v.set = u.set /\ v.binding = u.binding
  /\ v.block.offset = u.block.offset /\ v.block.size = u.block.size

LEMMA ReindexedSame ==
  ASSUME NEW u \in Uniform, NEW bs PROVE SameUniform(Reindexed(u, bs), u)
  BY DEF Reindexed, SameUniform, Uniform

\* Two uniforms at one location get the same number; one at the location of no
\* block keeps it.
LEMMA ReindexedByLocation ==
  ASSUME NEW u \in Uniform, NEW v \in Uniform, NEW bs, SameLocation(u, v),
         u.block.index = v.block.index
  PROVE  Reindexed(u, bs).block.index = Reindexed(v, bs).block.index
<1>1. \A k : SameLocation(u, bs[k]) <=> SameLocation(v, bs[k])
  BY DEF SameLocation
<1> DEFINE mine == {k \in DOMAIN bs : SameLocation(u, bs[k])}
<1>2. mine = {k \in DOMAIN bs : SameLocation(v, bs[k])}
  BY <1>1
<1>3. CASE mine = {}
  BY <1>2, <1>3 DEF Reindexed
<1>4. CASE mine # {}
  <2>1. u.block.index \in uint8 /\ v.block.index \in uint8
    BY DEF Uniform
  <2> DEFINE last == Uint8((CHOOSE k \in mine : \A j \in mine : j <= k) - 1)
  <2>2. /\ Reindexed(u, bs) = [u EXCEPT !.block.index = last]
        /\ Reindexed(v, bs) = [v EXCEPT !.block.index = last]
    BY <1>2, <1>4 DEF Reindexed
  <2> HIDE DEF last
  <2> QED
    BY <2>2 DEF Uniform
<1> QED
  BY <1>3, <1>4

\* The block c is the block b, but for the numbers of its members.
SameBlock(c, b) ==
  c.set = b.set /\ c.binding = b.binding /\ c.size = b.size /\ c.packed = b.packed

SortedUniforms(p, q) ==
  /\ DOMAIN uniforms' = DOMAIN uniforms /\ DOMAIN blocks' = DOMAIN blocks
  /\ Permutes(p, DOMAIN uniforms) /\ Permutes(q, DOMAIN blocks)
  /\ \A i \in DOMAIN uniforms : SameUniform(uniforms'[i], uniforms[p[i]])
  /\ \A k \in DOMAIN blocks : SameBlock(blocks'[k], blocks[q[k]])
  /\ \A j \in DOMAIN uniforms : \A i \in 1 .. j - 1 : ~ ByBlockOffset(uniforms'[j], uniforms'[i])
  /\ \A l \in DOMAIN blocks : \A k \in 1 .. l - 1 : ~ ByBinding(blocks'[l], blocks'[k])

\* What is numbered again: the members of each block, and the blocks of each
\* uniform.
Renumbered ==
  /\ \A k \in DOMAIN blocks' :
       blocks'[k].members = {Uint8(i - 1) : i \in {j \in DOMAIN uniforms' :
                                                     SameLocation(uniforms'[j], blocks'[k])}}
  /\ \A i \in DOMAIN uniforms', k \in DOMAIN blocks' :
       /\ SameLocation(uniforms'[i], blocks'[k])
       /\ \A l \in DOMAIN blocks' : SameLocation(uniforms'[i], blocks'[l]) => l = k
       => uniforms'[i].block.index = Uint8(k - 1)

LEMMA FinishSorts ==
  ASSUME TypeOK, Finish
  PROVE  /\ \E p, q : SortedUniforms(p, q)
         /\ Renumbered
         /\ UniformLocationExclusive => UniformLocationExclusive'
<1>1. PICK us \in SortedVersions(uniforms, ByBlockOffset),
           bs \in SortedVersions(blocks, ByBinding) :
        /\ uniforms' = [i \in DOMAIN us |-> Reindexed(us[i], bs)]
        /\ blocks' = [k \in DOMAIN bs |-> [bs[k] EXCEPT !.members = MembersOf(bs[k], us)]]
  BY DEF Finish, Sort
<1>2. /\ us \in Reorderings(uniforms)
      /\ \A j \in DOMAIN us : \A i \in 1 .. j - 1 : ~ ByBlockOffset(us[j], us[i])
  BY DEF SortedVersions
<1>3. /\ bs \in Reorderings(blocks)
      /\ \A l \in DOMAIN bs : \A k \in 1 .. l - 1 : ~ ByBinding(bs[l], bs[k])
  BY DEF SortedVersions
<1>4. PICK p : Permutes(p, DOMAIN uniforms) /\ \A i \in DOMAIN uniforms : us[i] = uniforms[p[i]]
  BY <1>2, Permuted
<1>5. PICK q : Permutes(q, DOMAIN blocks) /\ \A k \in DOMAIN blocks : bs[k] = blocks[q[k]]
  BY <1>3, Permuted
<1>6. /\ us \in Seq(Uniform) /\ DOMAIN us = DOMAIN uniforms
      /\ bs \in Seq(Block) /\ DOMAIN bs = DOMAIN blocks
  BY <1>2, <1>3, Permuted, ReorderingType DEF TypeOK
<1>7. \A i \in DOMAIN us : us[i] \in Uniform /\ SameUniform(uniforms'[i], us[i])
  BY <1>1, <1>6, ReindexedSame
<1>8. \A k \in DOMAIN bs : /\ SameBlock(blocks'[k], bs[k])
                           /\ blocks'[k].members = MembersOf(bs[k], us)
  <2> TAKE k \in DOMAIN bs
  <2>1. bs[k] \in Block /\ blocks'[k] = [bs[k] EXCEPT !.members = MembersOf(bs[k], us)]
    BY <1>1, <1>6
  <2> QED
    BY <2>1 DEF SameBlock, Block
<1>9. \A i \in DOMAIN us, k \in DOMAIN bs :
        SameLocation(uniforms'[i], blocks'[k]) <=> SameLocation(us[i], bs[k])
  BY <1>7, <1>8 DEF SameLocation, SameUniform, SameBlock
<1>10. DOMAIN uniforms' = DOMAIN us /\ DOMAIN blocks' = DOMAIN bs
  BY <1>1
<1>11. SortedUniforms(p, q)
  <2>1. ASSUME NEW j \in DOMAIN us, NEW i \in 1 .. j - 1
        PROVE  ~ ByBlockOffset(uniforms'[j], uniforms'[i])
    <3>1. i \in DOMAIN us
      BY <1>6
    <3>2. ~ ByBlockOffset(us[j], us[i])
      BY <1>2
    <3>3. SameUniform(uniforms'[i], us[i]) /\ SameUniform(uniforms'[j], us[j])
      BY <1>7, <3>1
    <3> QED
      BY <3>2, <3>3 DEF SameUniform, ByBlockOffset, ByBinding
  <2>2. ASSUME NEW l \in DOMAIN bs, NEW k \in 1 .. l - 1
        PROVE  ~ ByBinding(blocks'[l], blocks'[k])
    <3>1. k \in DOMAIN bs
      BY <1>6
    <3>2. ~ ByBinding(bs[l], bs[k])
      BY <1>3
    <3>3. SameBlock(blocks'[k], bs[k]) /\ SameBlock(blocks'[l], bs[l])
      BY <1>8, <3>1
    <3> QED
      BY <3>2, <3>3 DEF SameBlock, ByBinding
  <2> QED
    BY <1>4, <1>5, <1>6, <1>7, <1>8, <1>10, <2>1, <2>2 DEF SortedUniforms
<1>12. Renumbered
  <2>1. ASSUME NEW k \in DOMAIN bs
        PROVE  blocks'[k].members = {Uint8(i - 1) : i \in {j \in DOMAIN uniforms' :
                                                         SameLocation(uniforms'[j], blocks'[k])}}
    <3>1. {j \in DOMAIN us : SameLocation(us[j], bs[k])}
            = {j \in DOMAIN uniforms' : SameLocation(uniforms'[j], blocks'[k])}
      BY <1>9, <1>10
    <3> QED
      BY <1>8, <3>1 DEF MembersOf
  <2>2. ASSUME NEW i \in DOMAIN us, NEW k \in DOMAIN bs, SameLocation(uniforms'[i], blocks'[k]),
               \A l \in DOMAIN bs : SameLocation(uniforms'[i], blocks'[l]) => l = k
        PROVE  uniforms'[i].block.index = Uint8(k - 1)
    <3>1. {l \in DOMAIN bs : SameLocation(us[i], bs[l])} = {k}
      BY <1>9, <2>2
    <3>2. (CHOOSE l \in {k} : \A j \in {k} : j <= l) = k
      <4>1. k \in Nat
        BY <1>6
      <4> QED
        BY <4>1
    <3>3. uniforms'[i] = [us[i] EXCEPT !.block.index = Uint8(k - 1)]
      BY <1>1, <3>1, <3>2 DEF Reindexed
    <3> QED
      BY <1>7, <3>3 DEF Uniform
  <2> QED
    BY <1>10, <2>1, <2>2 DEF Renumbered
<1>13. ASSUME UniformLocationExclusive PROVE UniformLocationExclusive'
  <2> SUFFICES ASSUME NEW i \in DOMAIN us, NEW j \in DOMAIN us, i # j,
                      SameLocation(uniforms'[i], uniforms'[j])
               PROVE  /\ IsValueType(uniforms'[i].type.type)
                      /\ uniforms'[i].block.index = uniforms'[j].block.index
    BY <1>10 DEF UniformLocationExclusive
  <2>1. SameLocation(us[i], us[j])
    BY <1>7 DEF SameUniform, SameLocation
  <2>2. /\ p[i] \in DOMAIN uniforms /\ p[j] \in DOMAIN uniforms /\ p[i] # p[j]
        /\ us[i] = uniforms[p[i]] /\ us[j] = uniforms[p[j]]
    BY <1>4, <1>6 DEF Permutes
  <2>3. IsValueType(us[i].type.type) /\ us[i].block.index = us[j].block.index
    BY <1>13, <2>1, <2>2 DEF UniformLocationExclusive
  <2>4. uniforms'[i] = Reindexed(us[i], bs) /\ uniforms'[j] = Reindexed(us[j], bs)
    BY <1>1
  <2> QED
    BY <1>7, <2>1, <2>3, <2>4, ReindexedByLocation DEF SameUniform
<1> QED
  BY <1>11, <1>12, <1>13

LEMMA FinishKeepsLocations ==
  ASSUME TypeOK, LocationsInv, Finish PROVE LocationsInv'
<1>1. PICK p, q : SortedUniforms(p, q)
  BY FinishSorts DEF LocationsInv
<1>2. status' = "done"
  BY DEF Finish
<1>3. ASSUME NEW k \in DOMAIN blocks', NEW l \in DOMAIN blocks', k # l
      PROVE  ~ SameLocation(blocks'[k], blocks'[l])
  <2>1. q[k] \in DOMAIN blocks /\ q[l] \in DOMAIN blocks /\ q[k] # q[l]
    BY <1>1, <1>3 DEF SortedUniforms, Permutes
  <2>2. ~ SameLocation(blocks[q[k]], blocks[q[l]])
    BY <2>1 DEF LocationsInv, BlocksApart
  <2>3. SameBlock(blocks'[k], blocks[q[k]]) /\ SameBlock(blocks'[l], blocks[q[l]])
    BY <1>1 DEF SortedUniforms
  <2> QED
    BY <2>2, <2>3 DEF SameBlock, SameLocation
<1>4. ASSUME NEW k \in DOMAIN blocks'
      PROVE  \E i \in DOMAIN uniforms' : SameLocation(uniforms'[i], blocks'[k])
  <2>1. k \in DOMAIN blocks /\ q[k] \in DOMAIN blocks /\ SameBlock(blocks'[k], blocks[q[k]])
    BY <1>1 DEF SortedUniforms, Permutes
  <2>2. PICK j \in DOMAIN uniforms : SameLocation(uniforms[j], blocks[q[k]])
    BY <2>1 DEF LocationsInv, BlocksApart
  <2>3. PICK i \in DOMAIN uniforms : p[i] = j
    BY <1>1 DEF SortedUniforms, Permutes
  <2>4. i \in DOMAIN uniforms' /\ SameUniform(uniforms'[i], uniforms[j])
    BY <1>1, <2>3 DEF SortedUniforms
  <2> QED
    BY <2>1, <2>2, <2>4 DEF SameUniform, SameBlock, SameLocation
<1> QED
  BY <1>2, <1>3, <1>4, FinishSorts DEF LocationsInv, BlocksApart

LEMMA LocationsInductive == NarrowLimits => (Spec => []LocationsInv)
<1> SUFFICES ASSUME NarrowLimits PROVE Spec => []LocationsInv
  OBVIOUS
<1>1. Init => LocationsInv
  BY DEF Init, LocationsInv, UniformLocationExclusive, BlocksApart
<1>2. TypeOK /\ LocationsInv /\ [Next]_vars => LocationsInv'
  <2> SUFFICES ASSUME TypeOK, LocationsInv, [Next]_vars PROVE LocationsInv'
    OBVIOUS
  <2>1. CASE UniformsQuiet
    BY <2>1 DEF UniformsQuiet, LocationsInv, UniformLocationExclusive, BlocksApart
  <2>2. CASE \E d \in Decls, set, binding \in Literals : HandleUniformStatement(d, set, binding)
    BY <2>2, HandleKeepsLocations
  <2>3. CASE \E set, binding \in Literals : OpenUniformBlock(set, binding)
    BY <2>3, OpenKeepsLocations
  <2>4. CASE \E d \in Decls : UniformBlockMember(d)
    BY <2>4, MemberKeepsLocations
  <2>5. CASE CloseUniformBlock
    BY <2>5, CloseKeepsLocations
  <2>6. CASE Finish
    BY <2>6, FinishKeepsLocations
  <2> QED
    BY <2>1, <2>2, <2>3, <2>4, <2>5, <2>6, UniformSteps
<1> QED
  BY <1>1, <1>2, TypeCorrect, PTL DEF Spec

\* Two uniforms share a location only as value members of one block, whatever
\* the order of handles and blocks, in the middle of a block, and after sort()
\* has numbered the blocks again (visitUniformStatement, get_uniform_at).
THEOREM UniformLocationsAreExclusive == NarrowLimits => (Spec => []UniformLocationExclusive)
<1>1. LocationsInv => UniformLocationExclusive
  BY DEF LocationsInv
<1> QED
  BY <1>1, LocationsInductive, PTL

LEMMA SubpassInductive ==
  TypeOK /\ SubpassIndexesUnique /\ [Next]_vars => SubpassIndexesUnique'
<1> SUFFICES ASSUME TypeOK, SubpassIndexesUnique, [Next]_vars PROVE SubpassIndexesUnique'
  OBVIOUS
<1>1. CASE UniformsQuiet
  BY <1>1 DEF UniformsQuiet, SubpassIndexesUnique
<1>2. ASSUME NEW d \in Decls, NEW set \in Literals, NEW binding \in Literals,
             HandleUniformStatement(d, set, binding)
      PROVE  SubpassIndexesUnique'
  <2> DEFINE new == NewUniform(d, set, binding, 0, 0, 0)
             n   == Len(uniforms)
  <2>1. HandleOK(d) /\ uniforms' = Append(uniforms, new) /\ uniforms \in Seq(Uniform)
    BY <1>2 DEF HandleUniformStatement, TypeOK
  <2>2. \A i \in DOMAIN uniforms :
          ParsedType(d).type = SubpassInput /\ uniforms[i].type.type = SubpassInput =>
            uniforms[i].type.extra # ParsedType(d).extra
    BY <2>1 DEF HandleOK
  <2>3. new.type = ParsedType(d)
    BY DEF NewUniform
  <2> HIDE DEF new
  <2>4. /\ n \in Nat /\ DOMAIN uniforms = 1 .. n /\ DOMAIN uniforms' = 1 .. n + 1
        /\ \A i \in 1 .. n : uniforms'[i] = uniforms[i]
        /\ uniforms'[n + 1] = new
    BY <2>1, Appended
  <2> HIDE DEF n
  <2> QED
    BY <2>2, <2>3, <2>4 DEF SubpassIndexesUnique
<1>3. CASE \E set, binding \in Literals : OpenUniformBlock(set, binding)
  BY <1>3 DEF OpenUniformBlock, reflection, SubpassIndexesUnique
<1>4. ASSUME NEW d \in Decls, UniformBlockMember(d) PROVE SubpassIndexesUnique'
  <2> DEFINE new == NewUniform(d, open.set, open.binding, open.index,
                               AlignedOffset(open.offset), ScalarLayoutSize(ParsedType(d)))
             n   == Len(uniforms)
  <2>1. /\ IsValueType(d.prim) /\ uniforms' = Append(uniforms, new)
        /\ uniforms \in Seq(Uniform)
    BY <1>4 DEF UniformBlockMember, MemberOK, TypeOK
  <2>2. new.type.type = d.prim
    BY DEF NewUniform, ParsedType
  <2>3. d.prim # SubpassInput
    BY <2>1 DEF IsValueType, ValueTypes, ScalarOrVector, Matrices, Bool, Mat2, Mat4, SubpassInput
  <2> HIDE DEF new
  <2>4. /\ n \in Nat /\ DOMAIN uniforms = 1 .. n /\ DOMAIN uniforms' = 1 .. n + 1
        /\ \A i \in 1 .. n : uniforms'[i] = uniforms[i]
        /\ uniforms'[n + 1] = new
    BY <2>1, Appended
  <2> HIDE DEF n
  <2> QED
    BY <2>2, <2>3, <2>4 DEF SubpassIndexesUnique
<1>5. CASE CloseUniformBlock
  BY <1>5 DEF CloseUniformBlock, SubpassIndexesUnique
<1>6. CASE Finish
  <2>1. PICK p, q : SortedUniforms(p, q)
    BY <1>6, FinishSorts
  <2>2. /\ DOMAIN uniforms' = DOMAIN uniforms
        /\ \A i \in DOMAIN uniforms : /\ p[i] \in DOMAIN uniforms
                                      /\ uniforms'[i].type = uniforms[p[i]].type
        /\ \A i, j \in DOMAIN uniforms : i # j => p[i] # p[j]
    BY <2>1 DEF SortedUniforms, Permutes, SameUniform
  <2> QED
    BY <2>2 DEF SubpassIndexesUnique
<1> QED
  BY <1>1, <1>2, <1>3, <1>4, <1>5, <1>6, UniformSteps

\* No input attachment is read by two subpass inputs, though the index is cut
\* to 8 bits before it is compared and stored (visitUniformStatement).
THEOREM SubpassIndexesAreUnique == Spec => []SubpassIndexesUnique
<1>1. Init => SubpassIndexesUnique
  BY DEF Init, SubpassIndexesUnique
<1> QED
  BY <1>1, SubpassInductive, TypeCorrect, PTL DEF Spec

-----------------------------------------------------------------------------
(* The numbers of the blocks and of their members. *)

\* Modulo 256, a closed block lists the uniforms at its location and each of
\* them names it; the block that is being visited already has its number.
NumbersInv ==
  /\ \A k \in DOMAIN blocks :
       /\ blocks[k].members = MembersOf(blocks[k], uniforms)
       /\ \A i \in DOMAIN uniforms : SameLocation(uniforms[i], blocks[k]) =>
            uniforms[i].block.index = Uint8(k - 1)
  /\ status = "block" =>
       /\ open.index = Uint8(Len(blocks))
       /\ open.members = MembersOf(open, uniforms)

\* A uniform elsewhere is no member; one at the location of b is the last.
LEMMA MembersAppended ==
  ASSUME NEW b, NEW s \in Seq(Uniform), NEW u
  PROVE  MembersOf(b, Append(s, u)) =
           IF SameLocation(u, b) THEN MembersOf(b, s) \cup {Uint8(Len(s))} ELSE MembersOf(b, s)
<1> DEFINE n == Len(s)
           t == Append(s, u)
<1>1. /\ n \in Nat /\ DOMAIN s = 1 .. n /\ DOMAIN t = 1 .. n + 1
      /\ \A i \in 1 .. n : t[i] = s[i]
      /\ t[n + 1] = u
  BY Appended
<1> HIDE DEF t, n
<1> DEFINE Old == {j \in DOMAIN s : SameLocation(s[j], b)}
           New == {j \in DOMAIN t : SameLocation(t[j], b)}
<1>2. CASE SameLocation(u, b)
  <2>1. New = Old \cup {n + 1}
    BY <1>1, <1>2
  <2>2. (n + 1) - 1 = n
    BY <1>1
  <2>3. {Uint8(i - 1) : i \in New} = {Uint8(i - 1) : i \in Old} \cup {Uint8(n)}
    <3> HIDE DEF New, Old
    <3> QED
      BY <2>1, <2>2
  <2> QED
    BY <1>2, <2>3 DEF MembersOf, n, t
<1>3. CASE ~ SameLocation(u, b)
  <2>1. New = Old
    BY <1>1, <1>3
  <2> QED
    BY <1>3, <2>1 DEF MembersOf, t
<1> QED
  BY <1>2, <1>3

LEMMA HandleKeepsNumbers ==
  ASSUME NarrowLimits, TypeOK, LocationsInv, NumbersInv, NEW d \in Decls, NEW set \in Literals,
         NEW binding \in Literals, HandleUniformStatement(d, set, binding)
  PROVE  NumbersInv'
<1> DEFINE new == NewUniform(d, set, binding, 0, 0, 0)
           n   == Len(uniforms)
<1>1. UniformLocationOK(set, binding) /\ status' = "toplevel"
  BY DEF HandleUniformStatement
<1>2. uniforms' = Append(uniforms, new) /\ uniforms \in Seq(Uniform) /\ blocks' = blocks
  BY DEF HandleUniformStatement, TypeOK
<1>3. \A i \in DOMAIN uniforms : ~ SameLocation(uniforms[i], new)
  BY <1>1, NarrowLocation DEF SameLocation, NewUniform
<1> HIDE DEF new
<1>4. \A k \in DOMAIN blocks : ~ SameLocation(new, blocks[k])
  BY <1>3 DEF LocationsInv, BlocksApart, SameLocation
<1>5. /\ n \in Nat /\ DOMAIN uniforms = 1 .. n /\ DOMAIN uniforms' = 1 .. n + 1
      /\ \A i \in 1 .. n : uniforms'[i] = uniforms[i]
      /\ uniforms'[n + 1] = new
  BY <1>2, Appended
<1>6. ASSUME NEW k \in DOMAIN blocks
      PROVE  blocks'[k].members = MembersOf(blocks'[k], uniforms')
  BY <1>2, <1>4, MembersAppended DEF NumbersInv
<1> HIDE DEF n
<1>7. ASSUME NEW k \in DOMAIN blocks, NEW i \in 1 .. n + 1,
             SameLocation(uniforms'[i], blocks[k])
      PROVE  uniforms'[i].block.index = Uint8(k - 1)
  BY <1>4, <1>5, <1>7 DEF NumbersInv
<1> QED
  BY <1>1, <1>2, <1>5, <1>6, <1>7 DEF NumbersInv

LEMMA OpenKeepsNumbers ==
  ASSUME NarrowLimits, TypeOK, LocationsInv, NumbersInv, NEW set \in Literals,
         NEW binding \in Literals, OpenUniformBlock(set, binding)
  PROVE  NumbersInv'
<1>1. /\ UniformLocationOK(set, binding) /\ UNCHANGED <<uniforms, blocks>>
      /\ open'.set = set /\ open'.binding = binding /\ open'.members = {}
      /\ open'.index = Uint8(Len(blocks))
  BY DEF OpenUniformBlock, NoBlock, reflection
<1>2. \A i \in DOMAIN uniforms : ~ SameLocation(uniforms[i], open')
  BY <1>1, NarrowLocation DEF SameLocation
<1>3. MembersOf(open', uniforms') = {}
  BY <1>1, <1>2 DEF MembersOf
<1> QED
  BY <1>1, <1>3 DEF NumbersInv

LEMMA MemberKeepsNumbers ==
  ASSUME TypeOK, LocationsInv, NumbersInv, NEW d \in Decls, UniformBlockMember(d)
  PROVE  NumbersInv'
<1> DEFINE new == NewUniform(d, open.set, open.binding, open.index,
                             AlignedOffset(open.offset), ScalarLayoutSize(ParsedType(d)))
           n   == Len(uniforms)
<1>1. /\ status = "block" /\ uniforms' = Append(uniforms, new) /\ uniforms \in Seq(Uniform)
      /\ blocks' = blocks /\ open \in OpenBlock
      /\ open' = Extended(d, open.members \cup {Uint8(n)})
  BY DEF UniformBlockMember, TypeOK
<1>2. /\ open'.set = open.set /\ open'.binding = open.binding /\ open'.index = open.index
      /\ open'.members = open.members \cup {Uint8(n)}
  BY <1>1 DEF Extended, OpenBlock
<1>3. new.set = open.set /\ new.binding = open.binding
  BY <1>1, Uint8Small DEF LocationsInv, BlocksApart, NewUniform
<1> HIDE DEF new
<1>4. SameLocation(new, open') /\ \A k \in DOMAIN blocks : ~ SameLocation(new, blocks[k])
  BY <1>1, <1>2, <1>3 DEF LocationsInv, BlocksApart, SameLocation
<1>5. /\ n \in Nat /\ DOMAIN uniforms = 1 .. n /\ DOMAIN uniforms' = 1 .. n + 1
      /\ \A i \in 1 .. n : uniforms'[i] = uniforms[i]
      /\ uniforms'[n + 1] = new
  BY <1>1, Appended
<1>6. ASSUME NEW k \in DOMAIN blocks
      PROVE  blocks'[k].members = MembersOf(blocks'[k], uniforms')
  BY <1>1, <1>4, MembersAppended DEF NumbersInv
<1>7. open'.members = MembersOf(open', uniforms')
  <2>1. MembersOf(open', uniforms') = MembersOf(open', uniforms) \cup {Uint8(n)}
    BY <1>1, <1>4, MembersAppended
  <2>2. MembersOf(open', uniforms) = MembersOf(open, uniforms)
    BY <1>2 DEF MembersOf, SameLocation
  <2> QED
    BY <1>1, <1>2, <2>1, <2>2 DEF NumbersInv
<1> HIDE DEF n
<1>8. ASSUME NEW k \in DOMAIN blocks, NEW i \in 1 .. n + 1,
             SameLocation(uniforms'[i], blocks[k])
      PROVE  uniforms'[i].block.index = Uint8(k - 1)
  BY <1>4, <1>5, <1>8 DEF NumbersInv
<1> QED
  BY <1>1, <1>2, <1>5, <1>6, <1>7, <1>8 DEF NumbersInv

LEMMA CloseKeepsNumbers ==
  ASSUME TypeOK, LocationsInv, NumbersInv, CloseUniformBlock PROVE NumbersInv'
<1> DEFINE new == [set |-> Uint8(open.set), binding |-> Uint8(open.binding),
                   size |-> open.offset, packed |-> open.packed, members |-> open.members]
           n   == Len(blocks)
<1>1. /\ status = "block" /\ status' = "toplevel" /\ uniforms' = uniforms
      /\ blocks' = Append(blocks, new) /\ blocks \in Seq(Block)
  BY DEF CloseUniformBlock, TypeOK
<1>2. new.set = open.set /\ new.binding = open.binding /\ new.members = open.members
  BY <1>1, Uint8Small DEF LocationsInv, BlocksApart
<1>3. new.members = MembersOf(new, uniforms)
  <2>1. MembersOf(new, uniforms) = MembersOf(open, uniforms)
    BY <1>2 DEF MembersOf, SameLocation
  <2> QED
    BY <1>1, <1>2, <2>1 DEF NumbersInv
<1>4. \A i \in DOMAIN uniforms : SameLocation(uniforms[i], new) =>
        uniforms[i].block.index = Uint8(n)
  BY <1>1, <1>2 DEF LocationsInv, BlocksApart, NumbersInv, SameLocation
<1> HIDE DEF new
<1>5. /\ n \in Nat /\ DOMAIN blocks = 1 .. n /\ DOMAIN blocks' = 1 .. n + 1
      /\ \A k \in 1 .. n : blocks'[k] = blocks[k]
      /\ blocks'[n + 1] = new
  BY <1>1, Appended
<1> HIDE DEF n
<1>6. n + 1 - 1 = n
  BY <1>5
<1>7. ASSUME NEW k \in 1 .. n + 1
      PROVE  /\ blocks'[k].members = MembersOf(blocks'[k], uniforms)
             /\ \A i \in DOMAIN uniforms : SameLocation(uniforms[i], blocks'[k]) =>
                  uniforms[i].block.index = Uint8(k - 1)
  <2>1. CASE k \in 1 .. n
    BY <1>5, <2>1 DEF NumbersInv
  <2>2. CASE k = n + 1
    BY <1>3, <1>4, <1>5, <1>6, <2>2
  <2> QED
    BY <1>5, <2>1, <2>2
<1> QED
  BY <1>1, <1>5, <1>7 DEF NumbersInv

LEMMA FinishKeepsNumbers ==
  ASSUME TypeOK, LocationsInv, Finish PROVE NumbersInv'
<1>1. LocationsInv' /\ Renumbered /\ status' = "done"
  BY FinishKeepsLocations, FinishSorts DEF Finish
<1>2. ASSUME NEW k \in DOMAIN blocks', NEW i \in DOMAIN uniforms',
             SameLocation(uniforms'[i], blocks'[k])
      PROVE  uniforms'[i].block.index = Uint8(k - 1)
  <2>1. \A l \in DOMAIN blocks' : l # k => ~ SameLocation(blocks'[l], blocks'[k])
    BY <1>1 DEF LocationsInv, BlocksApart
  <2>2. \A l \in DOMAIN blocks' : SameLocation(uniforms'[i], blocks'[l]) => l = k
    BY <1>2, <2>1 DEF SameLocation
  <2> QED
    BY <1>1, <1>2, <2>2 DEF Renumbered
<1> QED
  BY <1>1, <1>2 DEF NumbersInv, Renumbered, MembersOf

LEMMA NumbersInductive == NarrowLimits => (Spec => []NumbersInv)
<1> SUFFICES ASSUME NarrowLimits PROVE Spec => []NumbersInv
  OBVIOUS
<1>1. Init => NumbersInv
  BY DEF Init, NumbersInv
<1>2. TypeOK /\ LocationsInv /\ NumbersInv /\ [Next]_vars => NumbersInv'
  <2> SUFFICES ASSUME TypeOK, LocationsInv, NumbersInv, [Next]_vars PROVE NumbersInv'
    OBVIOUS
  <2>1. CASE UniformsQuiet
    BY <2>1 DEF UniformsQuiet, NumbersInv
  <2>2. CASE \E d \in Decls, set, binding \in Literals : HandleUniformStatement(d, set, binding)
    BY <2>2, HandleKeepsNumbers
  <2>3. CASE \E set, binding \in Literals : OpenUniformBlock(set, binding)
    BY <2>3, OpenKeepsNumbers
  <2>4. CASE \E d \in Decls : UniformBlockMember(d)
    BY <2>4, MemberKeepsNumbers
  <2>5. CASE CloseUniformBlock
    BY <2>5, CloseKeepsNumbers
  <2>6. CASE Finish
    BY <2>6, FinishKeepsNumbers
  <2> QED
    BY <2>1, <2>2, <2>3, <2>4, <2>5, <2>6, UniformSteps
<1> QED
  BY <1>1, <1>2, LocationsInductive, TypeCorrect, PTL DEF Spec

\* Below the point where an index no longer fits its uint8.
FewUniforms == Len(uniforms) <= 256 /\ Len(blocks) <= 256

\* As long as the tables have no more entries than a uint8 can number, a block
\* and its members name each other, between statements and after sort()
\* (visitUniformStatement, ReflectionInfo::sort).
THEOREM BlocksAreNumbered ==
  NarrowLimits => (Spec => [](FewUniforms => BlockIndexesConsistent))
<1>1. TypeOK /\ NumbersInv => (FewUniforms => BlockIndexesConsistent)
  <2> SUFFICES ASSUME TypeOK, NumbersInv, FewUniforms, NEW k \in DOMAIN blocks
               PROVE  LET mine == UniformsAt(blocks[k].set, blocks[k].binding) IN
                      /\ blocks[k].members = {i - 1 : i \in mine}
                      /\ \A i \in mine : uniforms[i].block.index = k - 1
    BY DEF BlockIndexesConsistent
  <2> DEFINE mine == UniformsAt(blocks[k].set, blocks[k].binding)
  <2>1. mine = {i \in DOMAIN uniforms : SameLocation(uniforms[i], blocks[k])}
    BY DEF UniformsAt, SameLocation
  <2>2. \A i \in DOMAIN uniforms : Uint8(i - 1) = i - 1
    <3> DEFINE n == Len(uniforms)
    <3>1. n \in Nat /\ DOMAIN uniforms = 1 .. n /\ n <= 256
      BY DEF TypeOK, FewUniforms
    <3> HIDE DEF n
    <3>2. ASSUME NEW i \in DOMAIN uniforms PROVE i - 1 \in uint8
      <4>1. i \in 1 .. n /\ i \in Nat /\ n \in Nat /\ n <= 256
        BY <3>1
      <4>2. i - 1 >= 0 /\ i - 1 <= 255 /\ i - 1 \in Int
        BY <4>1
      <4> QED
        BY <4>1, <4>2 DEF uint8
    <3> QED
      BY <3>2, Uint8Small
  <2>3. Uint8(k - 1) = k - 1
    <3> DEFINE n == Len(blocks)
    <3>1. n \in Nat /\ DOMAIN blocks = 1 .. n /\ n <= 256
      BY DEF TypeOK, FewUniforms
    <3> HIDE DEF n
    <3>2. k - 1 \in uint8
      <4>1. k \in 1 .. n /\ k \in Nat /\ n \in Nat /\ n <= 256
        BY <3>1
      <4>2. k - 1 >= 0 /\ k - 1 <= 255 /\ k - 1 \in Int
        BY <4>1
      <4> QED
        BY <4>1, <4>2 DEF uint8
    <3> QED
      BY <3>2, Uint8Small
  <2>4. blocks[k].members = {Uint8(i - 1) : i \in mine}
    BY <2>1 DEF NumbersInv, MembersOf
  <2>5. {Uint8(i - 1) : i \in mine} = {i - 1 : i \in mine}
    BY <2>1, <2>2
  <2>6. \A i \in mine : uniforms[i].block.index = k - 1
    BY <2>1, <2>3 DEF NumbersInv
  <2> QED
    BY <2>4, <2>5, <2>6
<1> QED
  BY <1>1, NumbersInductive, TypeCorrect, PTL

-----------------------------------------------------------------------------
(* The layout of the uniform blocks.  Offsets are kept in a uint16, so the *)
(* limit on a block has to fit one.                                        *)
FitsUint16(size) == size <= 65535
BlockSizeFits    == FitsUint16(Limits.uniform_block_size)
PushSizeFits     == FitsUint16(Limits.push_constants_size)

Aligned(offset) == offset % ScalarAlign = 0

LEMMA Uint16Fits ==
  ASSUME NEW limit \in Nat, FitsUint16(limit), NEW n \in Nat, n <= limit PROVE Uint16(n) = n
<1>1. n < 65536
  BY DEF FitsUint16
<1> QED
  BY <1>1 DEF Uint16

LEMMA ValueSize ==
  ASSUME NEW t, IsValueType(t) PROVE GetValueTypeSize(t) \in {4, 8, 12, 16, 36, 64}
<1>1. t \in 1 .. 16 \/ t \in {150, 151, 152}
  BY DEF IsValueType, ValueTypes, ScalarOrVector, Matrices, Bool, Mat2, Mat4
<1>2. GetComponentCount(t) \in {1, 2, 3, 4, 9, 16}
  BY <1>1 DEF GetComponentCount, IsHandleType, IsMatrixType, Handles, Matrices, Tex1D,
              SubpassInput, Mat2, Mat4, Void
<1> QED
  BY <1>2 DEF GetValueTypeSize, Uint8

\* Every member takes a multiple of four bytes, and at least four.
LEMMA MemberSize ==
  ASSUME NEW d \in Decls, NEW taken, ParseVariableOK(d, taken), IsValueType(d.prim)
  PROVE  /\ ScalarLayoutSize(ParsedType(d)) \in Nat
         /\ ScalarLayoutSize(ParsedType(d)) > 0
         /\ Aligned(ScalarLayoutSize(ParsedType(d)))
<1> DEFINE v == GetValueTypeSize(d.prim)
<1>1. PICK c \in 1 .. 255 : ScalarLayoutSize(ParsedType(d)) = Uint16(v * c)
  BY DEF ParseVariableOK, ParsedType, ScalarLayoutSize
<1>2. v \in {4, 8, 12, 16, 36, 64}
  BY ValueSize
<1> HIDE DEF v
<1>3. Uint16(v * c) \in Nat /\ Uint16(v * c) > 0 /\ Aligned(Uint16(v * c))
  BY <1>2 DEF Uint16, Aligned, ScalarAlign
<1> QED
  BY <1>1, <1>3

\* A member goes to the end of its block, without padding.
LEMMA MemberPlaced ==
  ASSUME TypeOK, NEW d \in Decls, NEW limit \in Nat, FitsUint16(limit), MemberOK(d, limit),
         Aligned(open.offset), NEW members
  PROVE  /\ open.offset \in Nat /\ AlignedOffset(open.offset) = open.offset
         /\ Extended(d, members).set = open.set /\ Extended(d, members).binding = open.binding
         /\ Extended(d, members).offset = open.offset + ScalarLayoutSize(ParsedType(d))
         /\ Extended(d, members).offset <= limit
         /\ Aligned(Extended(d, members).offset)
<1> DEFINE size == ScalarLayoutSize(ParsedType(d))
           offset == open.offset
<1>1. size \in Nat /\ size > 0 /\ Aligned(size)
  BY MemberSize DEF MemberOK
<1>2. offset \in Nat /\ open \in OpenBlock
  <2>1. open \in OpenBlock
    BY DEF TypeOK
  <2>2. open.offset \in uint16
    BY <2>1 DEF OpenBlock
  <2>3. open.offset \in Nat
    BY <2>2, WidthsNat
  <2> QED
    BY <2>1, <2>3
<1>3. AlignedOffset(offset) = offset
  BY DEF AlignedOffset, Aligned
<1>4. offset + size <= limit
  BY <1>3 DEF MemberOK
<1>5. /\ Extended(d, members).offset = Uint16(offset + size)
      /\ Extended(d, members).set = open.set /\ Extended(d, members).binding = open.binding
  BY <1>2, <1>3 DEF Extended, OpenBlock
<1>6. Aligned(offset)
  OBVIOUS
<1> HIDE DEF size, offset
<1> DEFINE end == offset + size
<1>7. end \in Nat /\ end <= limit /\ Aligned(end)
  BY <1>1, <1>2, <1>4, <1>6 DEF Aligned, ScalarAlign
<1> HIDE DEF end
<1>8. Uint16(end) = end
  BY <1>7, Uint16Fits
<1> QED
  BY <1>2, <1>3, <1>5, <1>7, <1>8 DEF size, offset, end

\* The uniforms at the location of b follow each other and end within end.
LaidOut(us, b, end) ==
  /\ \A i \in DOMAIN us : SameLocation(us[i], b) =>
       /\ Aligned(us[i].block.offset)
       /\ us[i].block.size > 0
       /\ us[i].block.offset + us[i].block.size <= end
  /\ \A i, j \in DOMAIN us : i < j /\ SameLocation(us[i], b) /\ SameLocation(us[j], b) =>
       us[i].block.offset + us[i].block.size <= us[j].block.offset

LayoutInv ==
  /\ \A k \in DOMAIN blocks : /\ blocks[k].size <= Limits.uniform_block_size
                              /\ LaidOut(uniforms, blocks[k], blocks[k].size)
  /\ status = "block" => /\ Aligned(open.offset)
                         /\ open.offset <= Limits.uniform_block_size
                         /\ LaidOut(uniforms, open, open.offset)

\* A uniform elsewhere leaves a block as it was laid out.
LEMMA LaidOutElsewhere ==
  ASSUME NEW b, NEW s \in Seq(Uniform), NEW u, NEW end, ~ SameLocation(u, b), LaidOut(s, b, end)
  PROVE  LaidOut(Append(s, u), b, end)
<1> DEFINE n == Len(s)
           t == Append(s, u)
<1>1. /\ n \in Nat /\ DOMAIN s = 1 .. n /\ DOMAIN t = 1 .. n + 1
      /\ \A i \in 1 .. n : t[i] = s[i]
      /\ t[n + 1] = u
  BY Appended
<1> HIDE DEF t, n
<1>2. \A i \in DOMAIN t : SameLocation(t[i], b) => i \in 1 .. n
  BY <1>1
<1>3. LaidOut(t, b, end)
  BY <1>1, <1>2 DEF LaidOut
<1> QED
  BY <1>3 DEF t

\* A uniform put at the end of a block is laid out after the others.
LEMMA LaidOutNext ==
  ASSUME NEW b, NEW s \in Seq(Uniform), NEW u, NEW end \in Nat, LaidOut(s, b, end),
         u.block.offset = end, u.block.size \in Nat, u.block.size > 0, Aligned(end)
  PROVE  LaidOut(Append(s, u), b, end + u.block.size)
<1> DEFINE n == Len(s)
           t == Append(s, u)
           last == end + u.block.size
<1>1. /\ n \in Nat /\ DOMAIN s = 1 .. n /\ DOMAIN t = 1 .. n + 1
      /\ \A i \in 1 .. n : t[i] = s[i]
      /\ t[n + 1] = u
  BY Appended
<1> HIDE DEF t, n
<1>2. \A i \in 1 .. n : s[i].block.offset \in Nat /\ s[i].block.size \in Nat
  <2>1. \A i \in 1 .. n : s[i] \in Uniform
    BY <1>1
  <2> QED
    BY <2>1, WidthsNat DEF Uniform
<1>3. ASSUME NEW i \in 1 .. n + 1, SameLocation(t[i], b)
      PROVE  /\ Aligned(t[i].block.offset) /\ t[i].block.size > 0
             /\ t[i].block.offset + t[i].block.size <= last
  <2>1. CASE i \in 1 .. n
    <3>1. t[i].block.offset + t[i].block.size <= end
      BY <1>1, <1>3, <2>1 DEF LaidOut
    <3>2. end <= last /\ last \in Nat /\ t[i].block.offset + t[i].block.size \in Nat
      BY <1>1, <1>2, <2>1
    <3>3. t[i].block.offset + t[i].block.size <= last
      BY <3>1, <3>2
    <3> QED
      BY <1>1, <1>3, <2>1, <3>3 DEF LaidOut
  <2>2. CASE i = n + 1
    BY <1>1, <2>2
  <2> QED
    BY <1>1, <2>1, <2>2
<1>4. ASSUME NEW i \in 1 .. n + 1, NEW j \in 1 .. n + 1, i < j, SameLocation(t[i], b),
             SameLocation(t[j], b)
      PROVE  t[i].block.offset + t[i].block.size <= t[j].block.offset
  <2>1. CASE j \in 1 .. n
    <3>1. i \in 1 .. n
      BY <1>1, <1>4, <2>1
    <3> QED
      BY <1>1, <1>4, <2>1, <3>1 DEF LaidOut
  <2>2. CASE j = n + 1
    <3>1. i \in 1 .. n
      BY <1>1, <1>4, <2>2
    <3> QED
      BY <1>1, <1>4, <2>2, <3>1 DEF LaidOut
  <2> QED
    BY <1>1, <2>1, <2>2
<1>5. LaidOut(t, b, last)
  BY <1>1, <1>3, <1>4 DEF LaidOut
<1> QED
  BY <1>5 DEF t

LEMMA HandleKeepsLayout ==
  ASSUME NarrowLimits, TypeOK, LocationsInv, LayoutInv, NEW d \in Decls, NEW set \in Literals,
         NEW binding \in Literals, HandleUniformStatement(d, set, binding)
  PROVE  LayoutInv'
<1> DEFINE new == NewUniform(d, set, binding, 0, 0, 0)
<1>1. UniformLocationOK(set, binding) /\ status' = "toplevel"
  BY DEF HandleUniformStatement
<1>2. uniforms' = Append(uniforms, new) /\ uniforms \in Seq(Uniform) /\ blocks' = blocks
  BY DEF HandleUniformStatement, TypeOK
<1>3. \A i \in DOMAIN uniforms : ~ SameLocation(uniforms[i], new)
  BY <1>1, NarrowLocation DEF SameLocation, NewUniform
<1> HIDE DEF new
<1>4. \A k \in DOMAIN blocks : ~ SameLocation(new, blocks[k])
  BY <1>3 DEF LocationsInv, BlocksApart, SameLocation
<1>5. \A k \in DOMAIN blocks : LaidOut(uniforms', blocks[k], blocks[k].size)
  BY <1>2, <1>4, LaidOutElsewhere DEF LayoutInv
<1> QED
  BY <1>1, <1>2, <1>5 DEF LayoutInv

LEMMA OpenKeepsLayout ==
  ASSUME NarrowLimits, TypeOK, LayoutInv, NEW set \in Literals,
         NEW binding \in Literals, OpenUniformBlock(set, binding)
  PROVE  LayoutInv'
<1>1. /\ UniformLocationOK(set, binding) /\ UNCHANGED <<uniforms, blocks>>
      /\ open'.set = set /\ open'.binding = binding /\ open'.offset = 0
  BY DEF OpenUniformBlock, NoBlock, reflection
<1>2. \A i \in DOMAIN uniforms : ~ SameLocation(uniforms[i], open')
  BY <1>1, NarrowLocation DEF SameLocation
<1>3. LaidOut(uniforms', open', open'.offset)
  BY <1>1, <1>2 DEF LaidOut
<1>4. Aligned(open'.offset) /\ open'.offset <= Limits.uniform_block_size
  BY <1>1, LimitsType DEF Aligned, ScalarAlign
<1> QED
  BY <1>1, <1>3, <1>4 DEF LayoutInv

LEMMA MemberKeepsLayout ==
  ASSUME BlockSizeFits, TypeOK, LocationsInv, LayoutInv, NEW d \in Decls, UniformBlockMember(d)
  PROVE  LayoutInv'
<1> DEFINE size    == ScalarLayoutSize(ParsedType(d))
           new     == NewUniform(d, open.set, open.binding, open.index, open.offset, size)
           members == open.members \cup {Uint8(Len(uniforms))}
<1>1. /\ status = "block" /\ blocks' = blocks /\ uniforms \in Seq(Uniform)
      /\ MemberOK(d, Limits.uniform_block_size)
      /\ open' = Extended(d, members)
  BY DEF UniformBlockMember, TypeOK
<1>2. Aligned(open.offset) /\ LaidOut(uniforms, open, open.offset)
  BY <1>1 DEF LayoutInv
<1>3. /\ open.offset \in Nat /\ AlignedOffset(open.offset) = open.offset
      /\ open'.set = open.set /\ open'.binding = open.binding
      /\ open'.offset = open.offset + size
      /\ open'.offset <= Limits.uniform_block_size
      /\ Aligned(open'.offset)
  BY <1>1, <1>2, LimitsType, MemberPlaced DEF BlockSizeFits
<1>4. uniforms' = Append(uniforms, new)
  BY <1>3 DEF UniformBlockMember
<1>5. size \in Nat /\ size > 0
  BY <1>1, MemberSize DEF MemberOK
<1>6. /\ new.set = open.set /\ new.binding = open.binding
      /\ new.block.offset = open.offset /\ new.block.size = size
  BY <1>1, Uint8Small DEF LocationsInv, BlocksApart, NewUniform
<1> HIDE DEF new, size
<1>7. \A k \in DOMAIN blocks : ~ SameLocation(new, blocks[k])
  BY <1>1, <1>6 DEF LocationsInv, BlocksApart, SameLocation
<1>8. \A k \in DOMAIN blocks : LaidOut(uniforms', blocks[k], blocks[k].size)
  BY <1>1, <1>4, <1>7, LaidOutElsewhere DEF LayoutInv
<1>9. LaidOut(uniforms', open', open'.offset)
  <2>1. LaidOut(Append(uniforms, new), open, open.offset + new.block.size)
    BY <1>1, <1>2, <1>3, <1>5, <1>6, LaidOutNext
  <2>2. LaidOut(uniforms', open, open'.offset)
    BY <1>3, <1>4, <1>6, <2>1
  <2> QED
    BY <1>3, <2>2 DEF LaidOut, SameLocation
<1> QED
  BY <1>1, <1>3, <1>8, <1>9 DEF LayoutInv

LEMMA CloseKeepsLayout ==
  ASSUME TypeOK, LocationsInv, LayoutInv, CloseUniformBlock PROVE LayoutInv'
<1> DEFINE new == [set |-> Uint8(open.set), binding |-> Uint8(open.binding),
                   size |-> open.offset, packed |-> open.packed, members |-> open.members]
           n   == Len(blocks)
<1>1. /\ status = "block" /\ status' = "toplevel" /\ uniforms' = uniforms
      /\ blocks' = Append(blocks, new) /\ blocks \in Seq(Block)
  BY DEF CloseUniformBlock, TypeOK
<1>2. new.set = open.set /\ new.binding = open.binding /\ new.size = open.offset
  BY <1>1, Uint8Small DEF LocationsInv, BlocksApart
<1>3. LaidOut(uniforms, new, new.size) /\ new.size <= Limits.uniform_block_size
  <2>1. LaidOut(uniforms, open, new.size) /\ new.size <= Limits.uniform_block_size
    BY <1>1, <1>2 DEF LayoutInv
  <2> HIDE DEF new
  <2> QED
    BY <1>2, <2>1 DEF LaidOut, SameLocation
<1> HIDE DEF new
<1>4. /\ n \in Nat /\ DOMAIN blocks = 1 .. n /\ DOMAIN blocks' = 1 .. n + 1
      /\ \A k \in 1 .. n : blocks'[k] = blocks[k]
      /\ blocks'[n + 1] = new
  BY <1>1, Appended
<1> HIDE DEF n
<1>5. ASSUME NEW k \in 1 .. n + 1
      PROVE  /\ blocks'[k].size <= Limits.uniform_block_size
             /\ LaidOut(uniforms, blocks'[k], blocks'[k].size)
  <2>1. CASE k \in 1 .. n
    BY <1>4, <2>1 DEF LayoutInv
  <2>2. CASE k = n + 1
    BY <1>3, <1>4, <2>2
  <2> QED
    BY <1>4, <2>1, <2>2
<1> QED
  BY <1>1, <1>4, <1>5 DEF LayoutInv

\* sort() puts the members of a block by offset, which is the order they were
\* declared in.
LEMMA SortKeepsLaidOut ==
  ASSUME TypeOK, NEW p, NEW q, SortedUniforms(p, q), NEW b, NEW end, LaidOut(uniforms, b, end)
  PROVE  LaidOut(uniforms', b, end)
<1> DEFINE n == Len(uniforms)
<1>1. n \in Nat /\ DOMAIN uniforms = 1 .. n /\ DOMAIN uniforms' = 1 .. n
  BY DEF TypeOK, SortedUniforms
<1> HIDE DEF n
<1>2. \A i \in 1 .. n : /\ p[i] \in 1 .. n
                        /\ SameUniform(uniforms'[i], uniforms[p[i]])
                        /\ SameLocation(uniforms'[i], b) => SameLocation(uniforms[p[i]], b)
  BY <1>1 DEF SortedUniforms, Permutes, SameUniform, SameLocation
<1>3. ASSUME NEW i \in 1 .. n, SameLocation(uniforms'[i], b)
      PROVE  /\ Aligned(uniforms'[i].block.offset) /\ uniforms'[i].block.size > 0
             /\ uniforms'[i].block.offset + uniforms'[i].block.size <= end
  BY <1>1, <1>2, <1>3 DEF LaidOut, SameUniform
<1>4. ASSUME NEW i \in 1 .. n, NEW j \in 1 .. n, i < j, SameLocation(uniforms'[i], b),
             SameLocation(uniforms'[j], b)
      PROVE  uniforms'[i].block.offset + uniforms'[i].block.size <= uniforms'[j].block.offset
  <2> DEFINE x == uniforms'[i].block
             y == uniforms'[j].block
  <2>1. /\ x.offset \in Nat /\ x.size \in Nat /\ y.offset \in Nat /\ y.size \in Nat
        /\ x.size > 0 /\ y.size > 0
    <3>1. uniforms[p[i]] \in Uniform /\ uniforms[p[j]] \in Uniform
      <4>1. p[i] \in 1 .. n /\ p[j] \in 1 .. n
        BY <1>2
      <4>2. \A k \in 1 .. n : uniforms[k] \in Uniform
        BY <1>1 DEF TypeOK
      <4> QED
        BY <4>1, <4>2
    <3>2. x.offset \in uint16 /\ x.size \in uint16 /\ y.offset \in uint16 /\ y.size \in uint16
      BY <1>2, <3>1 DEF SameUniform, Uniform
    <3> QED
      BY <1>3, <1>4, <3>2, WidthsNat
  <2>2. ~ (y.offset < x.offset)
    <3>1. ~ ByBlockOffset(uniforms'[j], uniforms'[i])
      <4>1. i \in 1 .. j - 1
        BY <1>1, <1>4
      <4> QED
        BY <1>1, <4>1 DEF SortedUniforms
    <3> QED
      BY <1>4, <3>1 DEF ByBlockOffset, SameLocation
  <2>3. p[i] # p[j]
    <3>1. i # j
      BY <1>1, <1>4
    <3>2. \A k, l \in 1 .. n : p[k] = p[l] => k = l
      BY <1>1 DEF SortedUniforms, Permutes
    <3> QED
      BY <3>1, <3>2
  <2>4. CASE p[i] < p[j]
    BY <1>1, <1>2, <1>4, <2>4 DEF LaidOut, SameUniform
  <2>5. CASE p[j] < p[i]
    <3>1. y.offset + y.size <= x.offset
      BY <1>1, <1>2, <1>4, <2>5 DEF LaidOut, SameUniform
    <3> HIDE DEF x, y
    <3> QED
      BY <2>1, <2>2, <3>1
  <2> QED
    BY <1>1, <1>2, <2>3, <2>4, <2>5
<1> QED
  BY <1>1, <1>3, <1>4 DEF LaidOut

LEMMA FinishKeepsLayout ==
  ASSUME TypeOK, LayoutInv, Finish PROVE LayoutInv'
<1>1. status' = "done"
  BY DEF Finish
<1>2. PICK p, q : SortedUniforms(p, q)
  BY FinishSorts
<1>3. ASSUME NEW k \in DOMAIN blocks'
      PROVE  /\ blocks'[k].size <= Limits.uniform_block_size
             /\ LaidOut(uniforms', blocks'[k], blocks'[k].size)
  <2>1. q[k] \in DOMAIN blocks /\ SameBlock(blocks'[k], blocks[q[k]])
    BY <1>2 DEF SortedUniforms, Permutes
  <2>2. /\ blocks[q[k]].size <= Limits.uniform_block_size
        /\ LaidOut(uniforms, blocks[q[k]], blocks[q[k]].size)
    BY <2>1 DEF LayoutInv
  <2>3. LaidOut(uniforms', blocks[q[k]], blocks[q[k]].size)
    BY <1>2, <2>2, SortKeepsLaidOut
  <2> QED
    BY <2>1, <2>2, <2>3 DEF SameBlock, LaidOut, SameLocation
<1> QED
  BY <1>1, <1>3 DEF LayoutInv

LEMMA LayoutInductive == NarrowLimits /\ BlockSizeFits => (Spec => []LayoutInv)
<1> SUFFICES ASSUME NarrowLimits, BlockSizeFits PROVE Spec => []LayoutInv
  OBVIOUS
<1>1. Init => LayoutInv
  BY DEF Init, LayoutInv
<1>2. TypeOK /\ LocationsInv /\ LayoutInv /\ [Next]_vars => LayoutInv'
  <2> SUFFICES ASSUME TypeOK, LocationsInv, LayoutInv, [Next]_vars PROVE LayoutInv'
    OBVIOUS
  <2>1. CASE UniformsQuiet
    BY <2>1 DEF UniformsQuiet, LayoutInv
  <2>2. CASE \E d \in Decls, set, binding \in Literals : HandleUniformStatement(d, set, binding)
    BY <2>2, HandleKeepsLayout
  <2>3. CASE \E set, binding \in Literals : OpenUniformBlock(set, binding)
    BY <2>3, OpenKeepsLayout
  <2>4. CASE \E d \in Decls : UniformBlockMember(d)
    BY <2>4, MemberKeepsLayout
  <2>5. CASE CloseUniformBlock
    BY <2>5, CloseKeepsLayout
  <2>6. CASE Finish
    BY <2>6, FinishKeepsLayout
  <2> QED
    BY <2>1, <2>2, <2>3, <2>4, <2>5, <2>6, UniformSteps
<1> QED
  BY <1>1, <1>2, LocationsInductive, TypeCorrect, PTL DEF Spec

\* The values of an injective function on a finite set are as many as its
\* arguments.
LEMMA ImageCardinality ==
  ASSUME NEW D, IsFiniteSet(D), NEW f, DOMAIN f = D, \A i, j \in D : i # j => f[i] # f[j]
  PROVE  Cardinality({f[i] : i \in D}) = Cardinality(D)
<1> DEFINE T == {f[i] : i \in D}
           g == [i \in D |-> f[i]]
<1>1. g \in Bijection(D, T)
  BY DEF Bijection, Injection, IsInjective, Surjection
<1>2. ExistsBijection(D, T)
  BY <1>1 DEF ExistsBijection
<1> QED
  BY <1>2, FS_Bijection

\* The members of every uniform block lie side by side within the size
\* reflected for it and within the limit, whatever is declared between and
\* after them (visitUniformStatement, sort()).
THEOREM BlocksLaidOut ==
  NarrowLimits /\ BlockSizeFits => (Spec => []BlockLayoutSound)
<1>1. TypeOK /\ LayoutInv => BlockLayoutSound
  <2> SUFFICES ASSUME TypeOK, LayoutInv, NEW k \in DOMAIN blocks
               PROVE  LET b == blocks[k] IN
                      /\ b.size <= Limits.uniform_block_size
                      /\ SideBySide({uniforms[i].block : i \in UniformsAt(b.set, b.binding)},
                                    b.size)
                      /\ Cardinality({uniforms[i].block.offset :
                                        i \in UniformsAt(b.set, b.binding)})
                           = Cardinality(UniformsAt(b.set, b.binding))
    BY DEF BlockLayoutSound
  <2> DEFINE b    == blocks[k]
             mine == UniformsAt(b.set, b.binding)
             n    == Len(uniforms)
             at   == [i \in mine |-> uniforms[i].block.offset]
  <2>1. n \in Nat /\ DOMAIN uniforms = 1 .. n
    BY DEF TypeOK
  <2>2. mine = {i \in 1 .. n : SameLocation(uniforms[i], b)}
    BY <2>1 DEF UniformsAt, SameLocation
  <2>3. b.size <= Limits.uniform_block_size /\ LaidOut(uniforms, b, b.size)
    BY DEF LayoutInv
  <2>4. \A i \in mine : uniforms[i].block.offset \in Nat /\ uniforms[i].block.size \in Nat
    <3>1. \A i \in mine : uniforms[i] \in Uniform
      BY <2>1, <2>2 DEF TypeOK
    <3> QED
      BY <3>1, WidthsNat DEF Uniform
  <2> HIDE DEF b, mine, n
  <2>5. ASSUME NEW i \in mine
        PROVE  /\ uniforms[i].block.offset % ScalarAlign = 0 /\ uniforms[i].block.size > 0
               /\ uniforms[i].block.offset + uniforms[i].block.size <= b.size
    BY <2>1, <2>2, <2>3 DEF LaidOut, Aligned
  <2>6. ASSUME NEW i \in mine, NEW j \in mine, i < j
        PROVE  uniforms[i].block.offset + uniforms[i].block.size <= uniforms[j].block.offset
    BY <2>1, <2>2, <2>3, <2>6 DEF LaidOut
  <2>7. \A i, j \in mine : i # j => i < j \/ j < i
    BY <2>1, <2>2
  <2>8. SideBySide({uniforms[i].block : i \in mine}, b.size)
    BY <2>5, <2>6, <2>7 DEF SideBySide
  <2>9. \A i, j \in mine : i # j => at[i] # at[j]
    <3> SUFFICES ASSUME NEW i \in mine, NEW j \in mine, i < j PROVE at[i] # at[j]
      BY <2>7
    <3> QED
      BY <2>4, <2>5, <2>6
  <2>10. IsFiniteSet(mine)
    BY <2>1, <2>2, FS_Interval, FS_Subset
  <2>11. Cardinality({uniforms[i].block.offset : i \in mine}) = Cardinality(mine)
    <3>1. Cardinality({at[i] : i \in mine}) = Cardinality(mine)
      <4> HIDE DEF at
      <4>1. DOMAIN at = mine
        BY DEF at
      <4> QED
        BY <2>9, <2>10, <4>1, ImageCardinality
    <3>2. {at[i] : i \in mine} = {uniforms[i].block.offset : i \in mine}
      OBVIOUS
    <3> QED
      BY <3>1, <3>2
  <2> QED
    BY <2>3, <2>8, <2>11 DEF b, mine
<1> QED
  BY <1>1, LayoutInductive, TypeCorrect, PTL

-----------------------------------------------------------------------------
(* The layout of the push constants. *)

PushLaidOut(pcs, end) ==
  /\ \A i \in DOMAIN pcs : /\ Aligned(pcs[i].offset)
                           /\ pcs[i].size > 0
                           /\ pcs[i].offset + pcs[i].size <= end
  /\ \A i, j \in DOMAIN pcs : i < j => pcs[i].offset + pcs[i].size <= pcs[j].offset

\* The layout is recorded when the block is closed; a visit that fails inside
\* the block records none.
PushInv ==
  /\ status = "push" => /\ Aligned(open.offset)
                        /\ open.offset <= Limits.push_constants_size
                        /\ PushLaidOut(push_constants, open.offset)
  /\ status \notin {"push", "failed"} => /\ push_layout.size <= Limits.push_constants_size
                                         /\ PushLaidOut(push_constants, push_layout.size)

\* What a step that is not about push constants leaves alone.
PushQuiet ==
  /\ UNCHANGED <<push_constants, push_layout>>
  /\ status' = "push" => status = "push" /\ open' = open
  /\ status' \notin {"push", "failed"} => status \notin {"push", "failed"}

LEMMA PushSteps ==
  ASSUME [Next]_vars
  PROVE  \/ PushQuiet
         \/ OpenPushBlock
         \/ \E d \in Decls : PushBlockMember(d)
         \/ ClosePushBlock
         \/ Finish
<1>1. CASE \E d \in Decls, index \in Literals :
             VertexAttributeStatement(d, index) \/ FragmentOutputStatement(d, index)
  BY <1>1 DEF VertexAttributeStatement, FragmentOutputStatement, PushQuiet
<1>2. CASE \E d \in Decls, flat \in BOOLEAN : LocalStatement(d, flat)
  BY <1>2 DEF LocalStatement, PushQuiet, reflection
<1>3. CASE \/ \E d \in Decls, set, binding \in Literals : HandleUniformStatement(d, set, binding)
           \/ \E set, binding \in Literals : OpenUniformBlock(set, binding)
           \/ \E d \in Decls : UniformBlockMember(d)
           \/ CloseUniformBlock
  <2>1. CASE \E d \in Decls, set, binding \in Literals : HandleUniformStatement(d, set, binding)
    BY <2>1 DEF HandleUniformStatement, PushQuiet, reflection
  <2>2. CASE \E set, binding \in Literals : OpenUniformBlock(set, binding)
    BY <2>2 DEF OpenUniformBlock, PushQuiet, reflection
  <2>3. CASE \E d \in Decls : UniformBlockMember(d)
    BY <2>3 DEF UniformBlockMember, PushQuiet, reflection
  <2>4. CASE CloseUniformBlock
    BY <2>4 DEF CloseUniformBlock, PushQuiet, reflection
  <2> QED
    BY <1>3, <2>1, <2>2, <2>3, <2>4
<1>4. CASE \E d \in Decls, init \in Inits :
             \/ GlobalConstantStatement(d, init)
             \/ \E index \in Literals : SpecConstantStatement(d, index, init)
  <2>1. CASE \E d \in Decls, init \in Inits : GlobalConstantStatement(d, init)
    BY <2>1 DEF GlobalConstantStatement, PushQuiet, reflection
  <2>2. CASE \E d \in Decls, init \in Inits, index \in Literals :
               SpecConstantStatement(d, index, init)
    BY <2>2 DEF SpecConstantStatement, PushQuiet, reflection
  <2> QED
    BY <1>4, <2>1, <2>2
<1>5. CASE FinishWithoutStage
  BY <1>5 DEF FinishWithoutStage, PushQuiet, reflection
<1>6. CASE Quiet
  BY <1>6 DEF Quiet, PushQuiet
<1> QED
  BY <1>1, <1>2, <1>3, <1>4, <1>5, <1>6, StepKinds

\* A push constant put at the end is laid out after the others.
LEMMA PushLaidOutNext ==
  ASSUME NEW s \in Seq(PushConst), NEW u, NEW end \in Nat, PushLaidOut(s, end),
         u.offset = end, u.size \in Nat, u.size > 0, Aligned(end)
  PROVE  PushLaidOut(Append(s, u), end + u.size)
<1> DEFINE n == Len(s)
           t == Append(s, u)
           last == end + u.size
<1>1. /\ n \in Nat /\ DOMAIN s = 1 .. n /\ DOMAIN t = 1 .. n + 1
      /\ \A i \in 1 .. n : t[i] = s[i]
      /\ t[n + 1] = u
  BY Appended
<1> HIDE DEF t, n
<1>2. \A i \in 1 .. n : s[i].offset \in Nat /\ s[i].size \in Nat
  <2>1. \A i \in 1 .. n : s[i] \in PushConst
    BY <1>1
  <2> QED
    BY <2>1, WidthsNat DEF PushConst
<1>3. ASSUME NEW i \in 1 .. n + 1
      PROVE  Aligned(t[i].offset) /\ t[i].size > 0 /\ t[i].offset + t[i].size <= last
  <2>1. CASE i \in 1 .. n
    <3>1. t[i].offset + t[i].size <= end
      BY <1>1, <2>1 DEF PushLaidOut
    <3>2. end <= last /\ last \in Nat /\ t[i].offset + t[i].size \in Nat
      BY <1>1, <1>2, <2>1
    <3>3. t[i].offset + t[i].size <= last
      BY <3>1, <3>2
    <3> QED
      BY <1>1, <2>1, <3>3 DEF PushLaidOut
  <2>2. CASE i = n + 1
    BY <1>1, <2>2
  <2> QED
    BY <1>1, <2>1, <2>2
<1>4. ASSUME NEW i \in 1 .. n + 1, NEW j \in 1 .. n + 1, i < j
      PROVE  t[i].offset + t[i].size <= t[j].offset
  <2>1. i \in 1 .. n
    BY <1>1, <1>4
  <2>2. CASE j \in 1 .. n
    BY <1>1, <1>4, <2>1, <2>2 DEF PushLaidOut
  <2>3. CASE j = n + 1
    BY <1>1, <2>1, <2>3 DEF PushLaidOut
  <2> QED
    BY <1>1, <2>2, <2>3
<1>5. PushLaidOut(t, last)
  BY <1>1, <1>3, <1>4 DEF PushLaidOut
<1> QED
  BY <1>5 DEF t

LEMMA PushMemberKeepsPush ==
  ASSUME PushSizeFits, TypeOK, PushInv, NEW d \in Decls, PushBlockMember(d) PROVE PushInv'
<1> DEFINE size == ScalarLayoutSize(ParsedType(d))
           new  == [name |-> d.name, type |-> ParsedType(d), offset |-> open.offset,
                    size |-> size]
<1>1. /\ status = "push" /\ status' = "push" /\ push_constants \in Seq(PushConst)
      /\ MemberOK(d, Limits.push_constants_size)
      /\ open' = Extended(d, open.members)
  BY DEF PushBlockMember, TypeOK
<1>2. Aligned(open.offset) /\ PushLaidOut(push_constants, open.offset)
  BY <1>1 DEF PushInv
<1>3. /\ open.offset \in Nat /\ AlignedOffset(open.offset) = open.offset
      /\ open'.offset = open.offset + size
      /\ open'.offset <= Limits.push_constants_size
      /\ Aligned(open'.offset)
  BY <1>1, <1>2, LimitsType, MemberPlaced DEF PushSizeFits
<1>4. push_constants' = Append(push_constants, new)
  BY <1>3 DEF PushBlockMember
<1>5. size \in Nat /\ size > 0
  BY <1>1, MemberSize DEF MemberOK
<1>6. new.offset = open.offset /\ new.size = size
  OBVIOUS
<1> HIDE DEF new, size
<1>7. PushLaidOut(Append(push_constants, new), open.offset + new.size)
  BY <1>1, <1>2, <1>3, <1>5, <1>6, PushLaidOutNext
<1>8. PushLaidOut(push_constants', open'.offset)
  BY <1>3, <1>4, <1>6, <1>7
<1> QED
  BY <1>1, <1>3, <1>8 DEF PushInv

LEMMA FinishKeepsPush ==
  ASSUME TypeOK, PushInv, Finish PROVE PushInv'
<1> DEFINE n == Len(push_constants)
<1>1. /\ status = "toplevel" /\ status' = "done" /\ push_layout' = push_layout
      /\ push_constants' \in SortedVersions(push_constants, ByOffset)
  BY DEF Finish, Sort
<1>2. n \in Nat /\ DOMAIN push_constants = 1 .. n
  BY DEF TypeOK
<1> HIDE DEF n
<1>3. push_constants' \in Reorderings(push_constants)
  BY <1>1 DEF SortedVersions
<1>4. PICK p : /\ Permutes(p, 1 .. n)
               /\ \A i \in 1 .. n : push_constants'[i] = push_constants[p[i]]
  BY <1>2, <1>3, Permuted
<1>5. DOMAIN push_constants' = 1 .. n
  BY <1>2, <1>3, Permuted
<1>6. \A j \in 1 .. n : \A i \in 1 .. j - 1 :
        ~ (push_constants'[j].offset < push_constants'[i].offset)
  BY <1>1, <1>5 DEF SortedVersions, ByOffset
<1>7. /\ push_layout.size <= Limits.push_constants_size
      /\ PushLaidOut(push_constants, push_layout.size)
  BY <1>1 DEF PushInv
<1>8. \A i \in 1 .. n : p[i] \in 1 .. n
  BY <1>4 DEF Permutes
<1>9. ASSUME NEW i \in 1 .. n, NEW j \in 1 .. n, i < j
      PROVE  push_constants'[i].offset + push_constants'[i].size <= push_constants'[j].offset
  <2> DEFINE x == push_constants[p[i]]
             y == push_constants[p[j]]
  <2>1. /\ x.offset \in Nat /\ x.size \in Nat /\ y.offset \in Nat /\ y.size \in Nat
        /\ x.size > 0 /\ y.size > 0
    <3>1. x \in PushConst /\ y \in PushConst
      BY <1>2, <1>8 DEF TypeOK
    <3>2. x.offset \in uint16 /\ x.size \in uint16 /\ y.offset \in uint16 /\ y.size \in uint16
      BY <3>1 DEF PushConst
    <3>3. x.size > 0 /\ y.size > 0
      BY <1>2, <1>7, <1>8 DEF PushLaidOut
    <3> QED
      BY <3>2, <3>3, WidthsNat
  <2>2. ~ (y.offset < x.offset)
    <3>1. i \in 1 .. j - 1
      BY <1>2, <1>9
    <3> QED
      BY <1>4, <1>6, <3>1
  <2>3. p[i] # p[j]
    BY <1>2, <1>4, <1>9 DEF Permutes
  <2>4. CASE p[i] < p[j]
    BY <1>2, <1>4, <1>7, <1>8, <2>4 DEF PushLaidOut
  <2>5. CASE p[j] < p[i]
    <3>1. y.offset + y.size <= x.offset
      BY <1>2, <1>7, <1>8, <2>5 DEF PushLaidOut
    <3> HIDE DEF x, y
    <3> QED
      BY <2>1, <2>2, <3>1
  <2> QED
    BY <1>2, <1>8, <2>3, <2>4, <2>5
<1>10. \A i \in 1 .. n : /\ Aligned(push_constants'[i].offset) /\ push_constants'[i].size > 0
                         /\ push_constants'[i].offset + push_constants'[i].size <= push_layout.size
  BY <1>2, <1>4, <1>7, <1>8 DEF PushLaidOut
<1> QED
  BY <1>1, <1>5, <1>7, <1>9, <1>10 DEF PushInv, PushLaidOut

LEMMA PushInductive == PushSizeFits => (Spec => []PushInv)
<1> SUFFICES ASSUME PushSizeFits PROVE Spec => []PushInv
  OBVIOUS
<1>1. Init => PushInv
  BY LimitsType DEF Init, PushInv, PushLaidOut
<1>2. TypeOK /\ PushInv /\ [Next]_vars => PushInv'
  <2> SUFFICES ASSUME TypeOK, PushInv, [Next]_vars PROVE PushInv'
    OBVIOUS
  <2>1. CASE PushQuiet
    BY <2>1 DEF PushQuiet, PushInv
  <2>2. CASE OpenPushBlock
    <3>1. /\ status' = "push" /\ push_constants' = <<>> /\ open'.offset = 0
      BY <2>2 DEF OpenPushBlock, NoBlock, reflection
    <3>2. Aligned(open'.offset) /\ open'.offset <= Limits.push_constants_size
      BY <3>1, LimitsType DEF Aligned, ScalarAlign
    <3>3. PushLaidOut(push_constants', open'.offset)
      BY <3>1 DEF PushLaidOut
    <3> QED
      BY <3>1, <3>2, <3>3 DEF PushInv
  <2>3. CASE \E d \in Decls : PushBlockMember(d)
    BY <2>3, PushMemberKeepsPush
  <2>4. CASE ClosePushBlock
    <3>1. /\ status = "push" /\ status' = "toplevel" /\ push_constants' = push_constants
          /\ push_layout'.size = open.offset
      BY <2>4 DEF ClosePushBlock
    <3> QED
      BY <3>1 DEF PushInv
  <2>5. CASE Finish
    BY <2>5, FinishKeepsPush
  <2> QED
    BY <2>1, <2>2, <2>3, <2>4, <2>5, PushSteps
<1> QED
  BY <1>1, <1>2, TypeCorrect, PTL DEF Spec

\* Push constants lie side by side within the reflected size of their block
\* and within the limit (visitPushConstantsStatement, sort()).
THEOREM PushConstantsLaidOut == PushSizeFits => (Spec => []PushLayoutSound)
<1>1. TypeOK /\ PushInv => PushLayoutSound
  <2> SUFFICES ASSUME TypeOK, PushInv, status \notin {"push", "failed"}
               PROVE  /\ push_layout.size <= Limits.push_constants_size
                      /\ SideBySide(ToSet(push_constants), push_layout.size)
    BY DEF PushLayoutSound
  <2> DEFINE n == Len(push_constants)
  <2>1. n \in Nat /\ DOMAIN push_constants = 1 .. n
    BY DEF TypeOK
  <2>2. ToSet(push_constants) = {push_constants[i] : i \in 1 .. n}
    BY <2>1 DEF ToSet
  <2> HIDE DEF n
  <2>3. /\ push_layout.size <= Limits.push_constants_size
        /\ PushLaidOut(push_constants, push_layout.size)
    BY DEF PushInv
  <2>4. \A i \in 1 .. n : /\ push_constants[i].offset % ScalarAlign = 0
                          /\ push_constants[i].offset + push_constants[i].size
                               <= push_layout.size
    BY <2>1, <2>3 DEF PushLaidOut, Aligned
  <2>5. \A i, j \in 1 .. n : i < j =>
          push_constants[i].offset + push_constants[i].size <= push_constants[j].offset
    BY <2>1, <2>3 DEF PushLaidOut
  <2>6. \A i, j \in 1 .. n : i # j => i < j \/ j < i
    BY <2>1
  <2> QED
    BY <2>2, <2>3, <2>4, <2>5, <2>6 DEF SideBySide
<1> QED
  BY <1>1, PushInductive, TypeCorrect, PTL
=============================================================================
