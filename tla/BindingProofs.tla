--------------------------- MODULE BindingProofs ---------------------------
(***************************************************************************)
(* Theorems that relate the tables of TopLevel to each other: the symbol   *)
(* table and reflection, what sort() promises of their order, and the      *)
(* tables as binding spaces.  Checked by TLAPS for every program.          *)
(***************************************************************************)
EXTENDS TopLevelProofs

-----------------------------------------------------------------------------
(* Symbols. *)

UniqueNames == \A i, j \in DOMAIN globals : i # j => globals[i].name # globals[j].name

LEMMA NamesAppended ==
  ASSUME NEW S, NEW s \in Seq(S), NEW x PROVE NamesOf(Append(s, x)) = NamesOf(s) \cup {x.name}
<1> DEFINE n == Len(s)
           t == Append(s, x)
<1>1. /\ n \in Nat /\ DOMAIN s = 1 .. n /\ DOMAIN t = 1 .. n + 1
      /\ \A i \in 1 .. n : t[i] = s[i]
      /\ t[n + 1] = x
  BY Appended
<1> HIDE DEF t, n
<1>2. NamesOf(t) = NamesOf(s) \cup {x.name}
  <2>1. \A y \in NamesOf(t) : y \in NamesOf(s) \cup {x.name}
    BY <1>1 DEF NamesOf
  <2>2. \A y \in NamesOf(s) \cup {x.name} : y \in NamesOf(t)
    BY <1>1 DEF NamesOf
  <2> QED
    BY <2>1, <2>2
<1> QED
  BY <1>2 DEF t

LEMMA NamesReordered ==
  ASSUME NEW s, NEW t \in Reorderings(s) PROVE NamesOf(t) = NamesOf(s)
<1>1. PICK p : Permutes(p, DOMAIN s) /\ \A i \in DOMAIN s : t[i] = s[p[i]]
  BY Permuted
<1>2. DOMAIN t = DOMAIN s
  BY Permuted
<1>3. ASSUME NEW i \in DOMAIN t PROVE t[i].name \in NamesOf(s)
  <2>1. t[i] = s[p[i]] /\ p[i] \in DOMAIN s
    BY <1>1, <1>2 DEF Permutes
  <2> QED
    BY <2>1 DEF NamesOf
<1>4. ASSUME NEW j \in DOMAIN s PROVE s[j].name \in NamesOf(t)
  <2>1. PICK i \in DOMAIN s : p[i] = j
    BY <1>1 DEF Permutes
  <2>2. t[i] = s[j] /\ i \in DOMAIN t
    BY <1>1, <1>2, <2>1
  <2> QED
    BY <2>2 DEF NamesOf
<1> QED
  BY <1>3, <1>4 DEF NamesOf

\* The global g is declared now, under a name nobody has.
Declares(g) == globals' = Append(globals, g) /\ g.name \notin Declared

LEMMA GlobalsAppended ==
  ASSUME TypeOK, UniqueNames, NEW g, Declares(g)
  PROVE  /\ UniqueNames'
         /\ Declared' = Declared \cup {g.name}
         /\ \A scope : GlobalsIn(scope)' =
              IF scope = g.scope THEN GlobalsIn(scope) \cup {g.name} ELSE GlobalsIn(scope)
<1> DEFINE n == Len(globals)
<1>1. globals \in Seq(Variable) /\ globals' = Append(globals, g) /\ g.name \notin Declared
  BY DEF TypeOK, Declares
<1>2. /\ n \in Nat /\ DOMAIN globals = 1 .. n /\ DOMAIN globals' = 1 .. n + 1
      /\ \A i \in 1 .. n : globals'[i] = globals[i]
      /\ globals'[n + 1] = g
  BY <1>1, Appended
<1> HIDE DEF n
<1>3. UniqueNames'
  BY <1>1, <1>2 DEF UniqueNames, Declared
<1>4. Declared' = Declared \cup {g.name}
  <2>1. \A y \in Declared' : y \in Declared \cup {g.name}
    BY <1>2 DEF Declared
  <2>2. \A y \in Declared \cup {g.name} : y \in Declared'
    BY <1>2 DEF Declared
  <2> QED
    BY <2>1, <2>2
<1>5. ASSUME NEW scope
      PROVE  GlobalsIn(scope)' =
               IF scope = g.scope THEN GlobalsIn(scope) \cup {g.name} ELSE GlobalsIn(scope)
  <2>1. \A y \in GlobalsIn(scope)' : y \in GlobalsIn(scope) \/ (scope = g.scope /\ y = g.name)
    BY <1>2 DEF GlobalsIn
  <2>2. \A y \in GlobalsIn(scope) : y \in GlobalsIn(scope)'
    BY <1>2 DEF GlobalsIn
  <2>3. scope = g.scope => g.name \in GlobalsIn(scope)'
    BY <1>2 DEF GlobalsIn
  <2> QED
    BY <2>1, <2>2, <2>3
<1> QED
  BY <1>3, <1>4, <1>5

LEMMA GlobalsAreDeclared == \A scope : GlobalsIn(scope) \subseteq Declared
  BY DEF GlobalsIn, Declared

Tables == <<attributes, outputs, uniforms, push_constants, spec_constants>>

\* The steps by what they declare: nothing, or one global that also goes into
\* the table of its scope.
LEMMA DeclaringSteps ==
  ASSUME TypeOK, [Next]_vars
  PROVE  \/ UNCHANGED <<globals, Tables>>
         \/ Finish
         \/ \E g, x :
              /\ Declares(g) /\ x.name = g.name
              /\ \/ /\ g.scope = "Attribute" /\ attributes' = Append(attributes, x)
                    /\ UNCHANGED <<outputs, uniforms, push_constants, spec_constants>>
                 \/ /\ g.scope = "Output" /\ outputs' = Append(outputs, x)
                    /\ UNCHANGED <<attributes, uniforms, push_constants, spec_constants>>
                 \/ /\ g.scope = "Uniform" /\ uniforms' = Append(uniforms, x)
                    /\ UNCHANGED <<attributes, outputs, push_constants, spec_constants>>
                 \/ /\ g.scope = "PushConstant" /\ push_constants' = Append(push_constants, x)
                    /\ UNCHANGED <<attributes, outputs, uniforms, spec_constants>>
                 \/ /\ g.scope = "Constant" /\ spec_constants' = Append(spec_constants, x)
                    /\ UNCHANGED <<attributes, outputs, uniforms, push_constants>>
                 \/ g.scope \in {"Local", "Constant"} /\ UNCHANGED Tables
<1> DEFINE Goal(g, x) ==
              /\ Declares(g) /\ x.name = g.name
              /\ \/ /\ g.scope = "Attribute" /\ attributes' = Append(attributes, x)
                    /\ UNCHANGED <<outputs, uniforms, push_constants, spec_constants>>
                 \/ /\ g.scope = "Output" /\ outputs' = Append(outputs, x)
                    /\ UNCHANGED <<attributes, uniforms, push_constants, spec_constants>>
                 \/ /\ g.scope = "Uniform" /\ uniforms' = Append(uniforms, x)
                    /\ UNCHANGED <<attributes, outputs, push_constants, spec_constants>>
                 \/ /\ g.scope = "PushConstant" /\ push_constants' = Append(push_constants, x)
                    /\ UNCHANGED <<attributes, outputs, uniforms, spec_constants>>
                 \/ /\ g.scope = "Constant" /\ spec_constants' = Append(spec_constants, x)
                    /\ UNCHANGED <<attributes, outputs, uniforms, push_constants>>
                 \/ g.scope \in {"Local", "Constant"} /\ UNCHANGED Tables
<1>1. ASSUME NEW d \in Decls, NEW index \in Literals, VertexAttributeStatement(d, index)
      PROVE  Goal(Global(d, "Attribute"), NewAttribute(d, index))
  BY <1>1 DEF VertexAttributeStatement, AttributeOK, ParseVariableOK, AddGlobal, Declares, Global,
              NewAttribute
<1>2. ASSUME NEW d \in Decls, NEW index \in Literals, FragmentOutputStatement(d, index)
      PROVE  Goal(Global(d, "Output"), [name |-> d.name, type |-> ParsedType(d),
                                        location |-> Uint8(index)])
  BY <1>2 DEF FragmentOutputStatement, OutputOK, ParseVariableOK, AddGlobal, Declares, Global
<1>3. ASSUME NEW d \in Decls, NEW flat \in BOOLEAN, LocalStatement(d, flat)
      PROVE  \E g : Goal(g, g)
  <2> DEFINE g == [Global(d, "Local") EXCEPT !.flat = flat \/ IsIntegerType(d.prim)]
  <2>1. g.name = d.name /\ g.scope = "Local"
    BY DEF Global
  <2> HIDE DEF g
  <2>2. globals' = Append(globals, g) /\ d.name \notin Declared /\ UNCHANGED Tables
    BY <1>3 DEF LocalStatement, LocalOK, ParseVariableOK, AddGlobal, reflection, Tables, g
  <2>3. Goal(g, g)
    BY <2>1, <2>2 DEF Declares
  <2> QED
    BY <2>3
<1>4. ASSUME NEW d \in Decls, NEW set \in Literals, NEW binding \in Literals,
             HandleUniformStatement(d, set, binding)
      PROVE  Goal(Global(d, "Uniform"), NewUniform(d, set, binding, 0, 0, 0))
  BY <1>4 DEF HandleUniformStatement, HandleOK, ParseVariableOK, AddGlobal, Declares, Global,
              NewUniform
<1>5. ASSUME NEW d \in Decls, UniformBlockMember(d)
      PROVE  Goal(Global(d, "Uniform"),
                  NewUniform(d, open.set, open.binding, open.index, AlignedOffset(open.offset),
                             ScalarLayoutSize(ParsedType(d))))
  BY <1>5 DEF UniformBlockMember, MemberOK, ParseVariableOK, AddGlobal, Declares, Global,
              NewUniform
<1>6. ASSUME NEW d \in Decls, PushBlockMember(d)
      PROVE  Goal(Global(d, "PushConstant"),
                  [name |-> d.name, type |-> ParsedType(d),
                   offset |-> AlignedOffset(open.offset),
                   size |-> ScalarLayoutSize(ParsedType(d))])
  BY <1>6 DEF PushBlockMember, MemberOK, ParseVariableOK, AddGlobal, Declares, Global
<1>7. ASSUME NEW d \in Decls, NEW init \in Inits, GlobalConstantStatement(d, init)
      PROVE  \E g : Goal(g, g)
  <2> DEFINE e == Evaluate(init, ParsedType(d))
             g == [Global(d, "Constant") EXCEPT !.source = e.source, !.glsl = e.glsl]
  <2>1. g.name = d.name /\ g.scope = "Constant"
    BY DEF Global
  <2>2. globals' = Append(globals, g) /\ d.name \notin Declared /\ UNCHANGED Tables
    BY <1>7 DEF GlobalConstantStatement, ConstantOK, ParseVariableOK, AddGlobal, reflection,
                Tables
  <2> HIDE DEF g
  <2>3. Goal(g, g)
    BY <2>1, <2>2 DEF Declares
  <2> QED
    BY <2>3
<1>8. ASSUME NEW d \in Decls, NEW index \in Literals, NEW init \in Inits,
             SpecConstantStatement(d, index, init)
      PROVE  \E g, x : Goal(g, x)
  <2> DEFINE e == Evaluate(init, ParsedType(d))
             g == [Global(d, "Constant") EXCEPT
                     !.source = e.source, !.glsl = IF RewrittenAsFloat(d, e) THEN e.value ELSE e.glsl]
             x == [name |-> d.name, type |-> ParsedType(d), index |-> index,
                   size |-> ScalarLayoutSize(ParsedType(d)), default_value |-> e.value]
  <2>1. g.name = d.name /\ g.scope = "Constant" /\ x.name = d.name
    BY DEF Global
  <2>2. /\ globals' = Append(globals, g) /\ d.name \notin Declared
        /\ spec_constants' = Append(spec_constants, x)
        /\ UNCHANGED <<attributes, outputs, uniforms, push_constants>>
    BY <1>8 DEF SpecConstantStatement, SpecConstantOK, ConstantOK, ParseVariableOK, AddGlobal
  <2> HIDE DEF g, x
  <2>3. Goal(g, x)
    BY <2>1, <2>2 DEF Declares
  <2> QED
    BY <2>3
<1>9. ASSUME \/ Quiet
             \/ \E set, binding \in Literals : OpenUniformBlock(set, binding)
             \/ CloseUniformBlock \/ OpenPushBlock \/ ClosePushBlock \/ FinishWithoutStage
      PROVE  UNCHANGED <<globals, Tables>>
  BY <1>9 DEF Quiet, OpenUniformBlock, CloseUniformBlock, OpenPushBlock, ClosePushBlock,
              FinishWithoutStage, reflection, Tables
<1>10. (\E g, x : Goal(g, x)) \/ UNCHANGED <<globals, Tables>> \/ Finish
  <2> HIDE DEF Goal
  <2>1. CASE \E d \in Decls, index \in Literals :
               VertexAttributeStatement(d, index) \/ FragmentOutputStatement(d, index)
    BY <2>1, <1>1, <1>2
  <2>2. CASE \E d \in Decls, flat \in BOOLEAN : LocalStatement(d, flat)
    BY <2>2, <1>3
  <2>3. CASE \/ \E d \in Decls, set, binding \in Literals :
                  HandleUniformStatement(d, set, binding)
             \/ \E d \in Decls : UniformBlockMember(d) \/ PushBlockMember(d)
    BY <2>3, <1>4, <1>5, <1>6
  <2>4. CASE \E d \in Decls, init \in Inits :
               \/ GlobalConstantStatement(d, init)
               \/ \E index \in Literals : SpecConstantStatement(d, index, init)
    BY <2>4, <1>7, <1>8
  <2> QED
    BY <1>9, <2>1, <2>2, <2>3, <2>4, StepKinds
<1> QED
  BY <1>10

LEMMA FinishKeepsNames ==
  ASSUME TypeOK, Finish
  PROVE  /\ UNCHANGED <<globals, spec_constants>>
         /\ NamesOf(attributes') = NamesOf(attributes)
         /\ NamesOf(outputs') = NamesOf(outputs)
         /\ NamesOf(uniforms') = NamesOf(uniforms)
         /\ NamesOf(push_constants') = NamesOf(push_constants)
<1>1. /\ UNCHANGED <<globals, spec_constants>>
      /\ attributes' \in Reorderings(attributes) /\ outputs' \in Reorderings(outputs)
      /\ push_constants' \in Reorderings(push_constants)
  BY DEF Finish, Sort, SortedVersions
<1>2. NamesOf(uniforms') = NamesOf(uniforms)
  <2>1. PICK p, q : SortedUniforms(p, q)
    BY FinishSorts
  <2>2. /\ DOMAIN uniforms' = DOMAIN uniforms
        /\ \A i \in DOMAIN uniforms : /\ p[i] \in DOMAIN uniforms
                                      /\ uniforms'[i].name = uniforms[p[i]].name
        /\ \A j \in DOMAIN uniforms : \E i \in DOMAIN uniforms : p[i] = j
    BY <2>1 DEF SortedUniforms, Permutes, SameUniform
  <2>3. ASSUME NEW i \in DOMAIN uniforms' PROVE uniforms'[i].name \in NamesOf(uniforms)
    BY <2>2 DEF NamesOf
  <2>4. ASSUME NEW j \in DOMAIN uniforms PROVE uniforms[j].name \in NamesOf(uniforms')
    <3>1. PICK i \in DOMAIN uniforms : p[i] = j
      BY <2>2
    <3>2. uniforms'[i].name = uniforms[j].name /\ i \in DOMAIN uniforms'
      BY <2>2, <3>1
    <3> QED
      BY <3>2 DEF NamesOf
  <2> QED
    BY <2>3, <2>4 DEF NamesOf
<1> QED
  BY <1>1, <1>2, NamesReordered

LEMMA SymbolsInductive == TypeOK /\ SymbolsReflected /\ [Next]_vars => SymbolsReflected'
<1> SUFFICES ASSUME TypeOK, SymbolsReflected, [Next]_vars PROVE SymbolsReflected'
  OBVIOUS
<1> USE DEF SymbolsReflected
<1>1. CASE UNCHANGED <<globals, Tables>>
  BY <1>1 DEF Tables, GlobalsIn
<1>2. CASE Finish
  BY <1>2, FinishKeepsNames DEF GlobalsIn
<1>3. ASSUME NEW g, NEW x, Declares(g), x.name = g.name,
             \/ /\ g.scope = "Attribute" /\ attributes' = Append(attributes, x)
                /\ UNCHANGED <<outputs, uniforms, push_constants, spec_constants>>
             \/ /\ g.scope = "Output" /\ outputs' = Append(outputs, x)
                /\ UNCHANGED <<attributes, uniforms, push_constants, spec_constants>>
             \/ /\ g.scope = "Uniform" /\ uniforms' = Append(uniforms, x)
                /\ UNCHANGED <<attributes, outputs, push_constants, spec_constants>>
             \/ /\ g.scope = "PushConstant" /\ push_constants' = Append(push_constants, x)
                /\ UNCHANGED <<attributes, outputs, uniforms, spec_constants>>
             \/ /\ g.scope = "Constant" /\ spec_constants' = Append(spec_constants, x)
                /\ UNCHANGED <<attributes, outputs, uniforms, push_constants>>
             \/ g.scope \in {"Local", "Constant"} /\ UNCHANGED Tables
      PROVE  SymbolsReflected'
  <2>1. UniqueNames
    BY DEF UniqueNames
  <2>2. /\ UniqueNames'
        /\ \A scope : GlobalsIn(scope)' =
             IF scope = g.scope THEN GlobalsIn(scope) \cup {g.name} ELSE GlobalsIn(scope)
    BY <1>3, <2>1, GlobalsAppended
  <2>3. /\ attributes \in Seq(Attribute) /\ outputs \in Seq(Output) /\ uniforms \in Seq(Uniform)
        /\ push_constants \in Seq(PushConst) /\ spec_constants \in Seq(SpecConst)
    BY DEF TypeOK
  <2>9. /\ g.scope = "Attribute" => NamesOf(Append(attributes, x)) = NamesOf(attributes) \cup {g.name}
        /\ g.scope = "Output" => NamesOf(Append(outputs, x)) = NamesOf(outputs) \cup {g.name}
        /\ g.scope = "Uniform" => NamesOf(Append(uniforms, x)) = NamesOf(uniforms) \cup {g.name}
        /\ g.scope = "PushConstant" =>
             NamesOf(Append(push_constants, x)) = NamesOf(push_constants) \cup {g.name}
        /\ g.scope = "Constant" =>
             NamesOf(Append(spec_constants, x)) = NamesOf(spec_constants) \cup {g.name}
    BY <1>3, <2>3, NamesAppended
  <2>4. \/ /\ g.scope = "Attribute" /\ NamesOf(attributes') = NamesOf(attributes) \cup {g.name}
           /\ UNCHANGED <<outputs, uniforms, push_constants, spec_constants>>
        \/ /\ g.scope = "Output" /\ NamesOf(outputs') = NamesOf(outputs) \cup {g.name}
           /\ UNCHANGED <<attributes, uniforms, push_constants, spec_constants>>
        \/ /\ g.scope = "Uniform" /\ NamesOf(uniforms') = NamesOf(uniforms) \cup {g.name}
           /\ UNCHANGED <<attributes, outputs, push_constants, spec_constants>>
        \/ /\ g.scope = "PushConstant"
           /\ NamesOf(push_constants') = NamesOf(push_constants) \cup {g.name}
           /\ UNCHANGED <<attributes, outputs, uniforms, spec_constants>>
        \/ /\ g.scope = "Constant"
           /\ NamesOf(spec_constants') \subseteq NamesOf(spec_constants) \cup {g.name}
           /\ UNCHANGED <<attributes, outputs, uniforms, push_constants>>
        \/ g.scope = "Local" /\ UNCHANGED Tables
    BY <1>3, <2>9 DEF Tables
  <2>5. UniqueNames' => \A i, j \in DOMAIN globals' : i # j => globals'[i].name # globals'[j].name
    BY DEF UniqueNames
  <2> QED
    BY <2>2, <2>4, <2>5 DEF Tables
<1> QED
  BY <1>1, <1>2, <1>3, DeclaringSteps

\* Every global is declared once, and reflection names the globals of each
\* scope and no others, in whatever order tables are filled and sorted
\* (parse_variable, VariableManager::AddGlobal, the visit functions).
THEOREM GlobalsAreReflected == Spec => []SymbolsReflected
<1>1. Init => SymbolsReflected
  BY DEF Init, SymbolsReflected, NamesOf, GlobalsIn
<1> QED
  BY <1>1, SymbolsInductive, TypeCorrect, PTL DEF Spec

-----------------------------------------------------------------------------
(* The order of the tables. *)

\* Every attribute takes a slot.
AttributesTakeSlots == \A i \in DOMAIN attributes : attributes[i].slot_count >= 1

\* Members of one block have growing offsets.
StackedInv ==
  \A i, j \in DOMAIN uniforms :
    i < j /\ SameLocation(uniforms[i], uniforms[j]) =>
      uniforms[i].block.offset < uniforms[j].block.offset

LEMMA AttributeSlotCount ==
  ASSUME NEW d \in Decls, NEW index \in Literals, AttributeOK(d, index)
  PROVE  GetTypeSlotSize(ParsedType(d)) \in 1 .. 32
<1> DEFINE k == GetPrimitiveSlotCount(d.prim)
           c == ParsedType(d).count
<1>1. ParseVariableOK(d, Declared) /\ c <= 8
  BY DEF AttributeOK
<1>2. c \in 1 .. 255
  BY <1>1 DEF ParseVariableOK, ParsedType
<1>3. c \in 1 .. 8
  BY <1>1, <1>2
<1>4. k \in {1, 2, 3, 4}
  BY <1>1, ParsedTypeType, SlotCountType
<1>5. GetTypeSlotSize(ParsedType(d)) = Uint8(k * c)
  BY DEF GetTypeSlotSize, TrueSlots, ParsedType
<1> HIDE DEF k, c
<1>6. c \in {1, 2, 3, 4, 5, 6, 7, 8}
  BY <1>3
<1>7. Uint8(k * c) \in 1 .. 32
  BY <1>4, <1>6 DEF Uint8
<1> QED
  BY <1>5, <1>7

LEMMA TakeSlotsInductive ==
  TypeOK /\ AttributesTakeSlots /\ [Next]_vars => AttributesTakeSlots'
<1> SUFFICES ASSUME TypeOK, AttributesTakeSlots, [Next]_vars PROVE AttributesTakeSlots'
  OBVIOUS
<1>1. CASE attributes' = attributes
  BY <1>1 DEF AttributesTakeSlots
<1>2. ASSUME NEW d \in Decls, NEW index \in Literals, VertexAttributeStatement(d, index)
      PROVE  AttributesTakeSlots'
  <2> DEFINE new == NewAttribute(d, index)
             n   == Len(attributes)
  <2>1. /\ AttributeOK(d, index) /\ attributes \in Seq(Attribute)
        /\ attributes' = Append(attributes, new)
    BY <1>2 DEF VertexAttributeStatement, TypeOK
  <2>2. new.slot_count >= 1
    <3>1. GetTypeSlotSize(ParsedType(d)) \in 1 .. 32
      BY <2>1, AttributeSlotCount
    <3>2. new.slot_count = GetTypeSlotSize(ParsedType(d))
      BY DEF NewAttribute
    <3> HIDE DEF new
    <3> QED
      BY <3>1, <3>2
  <2> HIDE DEF new
  <2>3. /\ n \in Nat /\ DOMAIN attributes = 1 .. n /\ DOMAIN attributes' = 1 .. n + 1
        /\ \A i \in 1 .. n : attributes'[i] = attributes[i]
        /\ attributes'[n + 1] = new
    BY <2>1, Appended
  <2> HIDE DEF n
  <2> QED
    BY <2>2, <2>3 DEF AttributesTakeSlots
<1>3. CASE Finish
  <2>1. attributes' \in Reorderings(attributes)
    BY <1>3 DEF Finish, Sort, SortedVersions
  <2>2. PICK p : /\ Permutes(p, DOMAIN attributes)
                 /\ \A i \in DOMAIN attributes : attributes'[i] = attributes[p[i]]
    BY <2>1, Permuted
  <2>3. DOMAIN attributes' = DOMAIN attributes
    BY <2>1, Permuted
  <2> QED
    BY <2>2, <2>3 DEF AttributesTakeSlots, Permutes
<1> QED
  BY <1>1, <1>2, <1>3, WhoChangesWhat

LEMMA MemberKeepsStacked ==
  ASSUME BlockSizeFits, TypeOK, LocationsInv, LayoutInv, StackedInv, NEW d \in Decls,
         UniformBlockMember(d)
  PROVE  StackedInv'
<1> DEFINE new == NewUniform(d, open.set, open.binding, open.index, open.offset,
                             ScalarLayoutSize(ParsedType(d)))
           n   == Len(uniforms)
<1>1. status = "block" /\ uniforms \in Seq(Uniform) /\ MemberOK(d, Limits.uniform_block_size)
  BY DEF UniformBlockMember, TypeOK
<1>2. Aligned(open.offset) /\ LaidOut(uniforms, open, open.offset)
  BY <1>1 DEF LayoutInv
<1>3. open.offset \in Nat /\ AlignedOffset(open.offset) = open.offset
  BY <1>1, <1>2, LimitsType, MemberPlaced DEF BlockSizeFits
<1>4. uniforms' = Append(uniforms, new)
  BY <1>3 DEF UniformBlockMember
<1>5. new.set = open.set /\ new.binding = open.binding /\ new.block.offset = open.offset
  BY <1>1, Uint8Small DEF LocationsInv, BlocksApart, NewUniform
<1> HIDE DEF new
<1>6. /\ n \in Nat /\ DOMAIN uniforms = 1 .. n /\ DOMAIN uniforms' = 1 .. n + 1
      /\ \A i \in 1 .. n : uniforms'[i] = uniforms[i]
      /\ uniforms'[n + 1] = new
  BY <1>1, <1>4, Appended
<1> HIDE DEF n
<1>7. \A i \in 1 .. n : uniforms[i].block.offset \in Nat /\ uniforms[i].block.size \in Nat
  <2>1. \A i \in 1 .. n : uniforms[i] \in Uniform
    BY <1>1, <1>6
  <2> QED
    BY <2>1, WidthsNat DEF Uniform
<1>8. ASSUME NEW i \in 1 .. n, SameLocation(uniforms[i], new)
      PROVE  uniforms[i].block.offset < new.block.offset
  <2>1. SameLocation(uniforms[i], open)
    BY <1>5, <1>8 DEF SameLocation
  <2>2. /\ uniforms[i].block.size > 0
        /\ uniforms[i].block.offset + uniforms[i].block.size <= open.offset
    BY <1>2, <1>6, <2>1 DEF LaidOut
  <2> QED
    BY <1>3, <1>5, <1>7, <2>2
<1>9. ASSUME NEW i \in 1 .. n + 1, NEW j \in 1 .. n + 1, i < j,
             SameLocation(uniforms'[i], uniforms'[j])
      PROVE  uniforms'[i].block.offset < uniforms'[j].block.offset
  <2>1. i \in 1 .. n
    BY <1>6, <1>9
  <2>2. CASE j \in 1 .. n
    BY <1>6, <1>9, <2>1, <2>2 DEF StackedInv
  <2>3. CASE j = n + 1
    BY <1>6, <1>8, <1>9, <2>1, <2>3
  <2> QED
    BY <1>6, <2>2, <2>3
<1> QED
  BY <1>6, <1>9 DEF StackedInv

LEMMA FinishKeepsStacked ==
  ASSUME TypeOK, StackedInv, Finish PROVE StackedInv'
<1> DEFINE n == Len(uniforms)
<1>1. PICK p, q : SortedUniforms(p, q)
  BY FinishSorts
<1>2. n \in Nat /\ DOMAIN uniforms = 1 .. n /\ DOMAIN uniforms' = 1 .. n
  BY <1>1 DEF TypeOK, SortedUniforms
<1> HIDE DEF n
<1>3. \A i \in 1 .. n : p[i] \in 1 .. n /\ SameUniform(uniforms'[i], uniforms[p[i]])
  BY <1>1, <1>2 DEF SortedUniforms, Permutes
<1>4. ASSUME NEW i \in 1 .. n, NEW j \in 1 .. n, i < j,
             SameLocation(uniforms'[i], uniforms'[j])
      PROVE  uniforms'[i].block.offset < uniforms'[j].block.offset
  <2> DEFINE x == uniforms[p[i]]
             y == uniforms[p[j]]
  <2>1. SameLocation(x, y) /\ SameLocation(y, x)
    BY <1>3, <1>4 DEF SameUniform, SameLocation
  <2>2. ~ (y.block.offset < x.block.offset)
    <3>1. i \in 1 .. j - 1
      BY <1>2, <1>4
    <3>2. ~ ByBlockOffset(uniforms'[j], uniforms'[i])
      BY <1>1, <1>2, <3>1 DEF SortedUniforms
    <3>3. SameUniform(uniforms'[i], x) /\ SameUniform(uniforms'[j], y)
      BY <1>3
    <3> HIDE DEF x, y
    <3> QED
      BY <2>1, <3>2, <3>3 DEF ByBlockOffset, SameLocation, SameUniform
  <2>3. p[i] # p[j]
    <3>1. \A k, l \in 1 .. n : p[k] = p[l] => k = l
      BY <1>1, <1>2 DEF SortedUniforms, Permutes
    <3>2. i # j
      BY <1>2, <1>4
    <3> QED
      BY <3>1, <3>2
  <2>4. p[i] < p[j] \/ p[j] < p[i]
    BY <1>2, <1>3, <2>3
  <2>5. x.block.offset < y.block.offset
    BY <1>2, <1>3, <2>1, <2>2, <2>4 DEF StackedInv
  <2> QED
    BY <1>3, <2>5 DEF SameUniform
<1> QED
  BY <1>2, <1>4 DEF StackedInv

LEMMA StackedInductive == NarrowLimits /\ BlockSizeFits => (Spec => []StackedInv)
<1> SUFFICES ASSUME NarrowLimits, BlockSizeFits PROVE Spec => []StackedInv
  OBVIOUS
<1>1. Init => StackedInv
  BY DEF Init, StackedInv
<1>2. TypeOK /\ LocationsInv /\ LayoutInv /\ StackedInv /\ [Next]_vars => StackedInv'
  <2> SUFFICES ASSUME TypeOK, LocationsInv, LayoutInv, StackedInv, [Next]_vars
               PROVE  StackedInv'
    OBVIOUS
  <2>1. CASE uniforms' = uniforms
    BY <2>1 DEF StackedInv
  <2>2. ASSUME NEW d \in Decls, NEW set \in Literals, NEW binding \in Literals,
               HandleUniformStatement(d, set, binding)
        PROVE  StackedInv'
    <3> DEFINE new == NewUniform(d, set, binding, 0, 0, 0)
               n   == Len(uniforms)
    <3>1. /\ UniformLocationOK(set, binding) /\ uniforms' = Append(uniforms, new)
          /\ uniforms \in Seq(Uniform)
      BY <2>2 DEF HandleUniformStatement, TypeOK
    <3>2. \A i \in DOMAIN uniforms : ~ SameLocation(uniforms[i], new)
      BY <3>1, NarrowLocation DEF SameLocation, NewUniform
    <3> HIDE DEF new
    <3>3. /\ n \in Nat /\ DOMAIN uniforms = 1 .. n /\ DOMAIN uniforms' = 1 .. n + 1
          /\ \A i \in 1 .. n : uniforms'[i] = uniforms[i]
          /\ uniforms'[n + 1] = new
      BY <3>1, Appended
    <3> HIDE DEF n
    <3>4. \A i, j \in 1 .. n + 1 : i < j => i \in 1 .. n
      BY <3>3
    <3> QED
      BY <3>2, <3>3, <3>4 DEF StackedInv
  <2>3. CASE \E d \in Decls : UniformBlockMember(d)
    BY <2>3, MemberKeepsStacked
  <2>4. CASE Finish
    BY <2>4, FinishKeepsStacked
  <2>5. CASE UniformsQuiet \/ (\E set, binding \in Literals : OpenUniformBlock(set, binding))
               \/ CloseUniformBlock
    BY <2>1, <2>5 DEF UniformsQuiet, OpenUniformBlock, CloseUniformBlock, reflection
  <2> QED
    BY <2>2, <2>3, <2>4, <2>5, UniformSteps
<1> QED
  BY <1>1, <1>2, LocationsInductive, LayoutInductive, TypeCorrect, PTL DEF Spec

\* The visit ends well only by sorting, and then changes nothing more.
LEMMA DoneSteps ==
  ASSUME [Next]_vars, status' = "done"
  PROVE  \/ Finish
         \/ status = "done" /\ UNCHANGED <<attributes, outputs, uniforms, blocks, push_constants>>
<1>1. CASE Quiet
  BY <1>1 DEF Quiet
<1>2. CASE \E d \in Decls, index \in Literals :
             VertexAttributeStatement(d, index) \/ FragmentOutputStatement(d, index)
  BY <1>2 DEF VertexAttributeStatement, FragmentOutputStatement
<1>3. CASE \E d \in Decls, flat \in BOOLEAN : LocalStatement(d, flat)
  BY <1>3 DEF LocalStatement
<1>4. CASE \/ \E d \in Decls, set, binding \in Literals : HandleUniformStatement(d, set, binding)
           \/ \E set, binding \in Literals : OpenUniformBlock(set, binding)
           \/ \E d \in Decls : UniformBlockMember(d) \/ PushBlockMember(d)
           \/ CloseUniformBlock \/ OpenPushBlock \/ ClosePushBlock \/ FinishWithoutStage
  BY <1>4 DEF HandleUniformStatement, OpenUniformBlock, UniformBlockMember, PushBlockMember,
              CloseUniformBlock, OpenPushBlock, ClosePushBlock, FinishWithoutStage
<1>5. CASE \E d \in Decls, init \in Inits :
             \/ GlobalConstantStatement(d, init)
             \/ \E index \in Literals : SpecConstantStatement(d, index, init)
  BY <1>5 DEF GlobalConstantStatement, SpecConstantStatement
<1> QED
  BY <1>1, <1>2, <1>3, <1>4, <1>5, StepKinds

LEMMA PushConstantsOrdered ==
  ASSUME NEW s \in Seq(PushConst), NEW end, PushLaidOut(s, end),
         NEW i \in DOMAIN s, NEW j \in DOMAIN s, i < j
  PROVE  s[i].offset < s[j].offset
<1>1. s[i] \in PushConst /\ s[j] \in PushConst
  OBVIOUS
<1>2. s[i].offset \in Nat /\ s[i].size \in Nat /\ s[j].offset \in Nat
  BY <1>1, WidthsNat DEF PushConst
<1>3. s[i].size > 0 /\ s[i].offset + s[i].size <= s[j].offset
  BY DEF PushLaidOut
<1> QED
  BY <1>2, <1>3

LEMMA FinishSortsStrictly ==
  ASSUME TypeOK, Finish, TypeOK', AttributesDisjoint', AttributesTakeSlots', OutputsDistinct',
         LocationsInv', StackedInv', PushInv'
  PROVE  ReflectionSorted'
<1>1. /\ attributes' \in SortedVersions(attributes, ByLocation)
      /\ outputs' \in SortedVersions(outputs, ByLocation)
  BY DEF Finish, Sort
<1>2. PICK p, q : SortedUniforms(p, q)
  BY FinishSorts
<1> DEFINE a == Len(attributes')
           o == Len(outputs')
           u == Len(uniforms')
           b == Len(blocks')
<1>3. /\ a \in Nat /\ DOMAIN attributes' = 1 .. a /\ o \in Nat /\ DOMAIN outputs' = 1 .. o
      /\ u \in Nat /\ DOMAIN uniforms' = 1 .. u /\ b \in Nat /\ DOMAIN blocks' = 1 .. b
  BY DEF TypeOK
<1> HIDE DEF a, o, u, b
<1>4. \A i, j \in Nat : i < j => i \in 1 .. j - 1 \/ i = 0
  OBVIOUS
<1>5. ASSUME NEW i \in 1 .. a, NEW j \in 1 .. a, i < j
      PROVE  attributes'[i].location < attributes'[j].location
  <2> DEFINE x == attributes'[i]
             y == attributes'[j]
  <2>1. ~ (y.location < x.location)
    BY <1>1, <1>3, <1>4, <1>5 DEF SortedVersions, ByLocation
  <2>2. x \in Attribute /\ y \in Attribute
    BY <1>3 DEF TypeOK
  <2>3. /\ x.location \in Nat /\ y.location \in Nat
        /\ x.slot_count \in Nat /\ y.slot_count \in Nat
    BY <2>2, WidthsNat DEF Attribute
  <2>4. x.slot_count >= 1 /\ y.slot_count >= 1
    BY <1>3 DEF AttributesTakeSlots
  <2>5. SlotsOf(x) \cap SlotsOf(y) = {}
    BY <1>3, <1>5 DEF AttributesDisjoint
  <2> HIDE DEF x, y
  <2>6. x.location \in SlotsOf(x) /\ y.location \in SlotsOf(y)
    BY <2>3, <2>4 DEF SlotsOf
  <2>7. x.location # y.location
    BY <2>5, <2>6
  <2>8. x.location < y.location
    BY <2>1, <2>3, <2>7
  <2> QED
    BY <2>8 DEF x, y
<1>6. ASSUME NEW i \in 1 .. o, NEW j \in 1 .. o, i < j
      PROVE  outputs'[i].location < outputs'[j].location
  <2>1. ~ (outputs'[j].location < outputs'[i].location)
    BY <1>1, <1>3, <1>4, <1>6 DEF SortedVersions, ByLocation
  <2>2. outputs'[i] \in Output /\ outputs'[j] \in Output
    BY <1>3 DEF TypeOK
  <2>3. outputs'[i].location \in Nat /\ outputs'[j].location \in Nat
    BY <2>2, WidthsNat DEF Output
  <2>4. outputs'[i].location # outputs'[j].location
    BY <1>3, <1>6 DEF OutputsDistinct
  <2> QED
    BY <2>1, <2>3, <2>4
<1>7. ASSUME NEW i \in 1 .. u, NEW j \in 1 .. u, i < j
      PROVE  ByBlockOffset(uniforms'[i], uniforms'[j])
  <2> DEFINE x == uniforms'[i]
             y == uniforms'[j]
  <2>1. ~ ByBlockOffset(y, x)
    <3>1. i \in 1 .. j - 1 /\ j \in DOMAIN uniforms
      BY <1>2, <1>3, <1>4, <1>7 DEF SortedUniforms
    <3> QED
      BY <1>2, <3>1 DEF SortedUniforms
  <2>2. x \in Uniform /\ y \in Uniform
    BY <1>3 DEF TypeOK
  <2>3. x.set \in Nat /\ y.set \in Nat /\ x.binding \in Nat /\ y.binding \in Nat
    BY <2>2, WidthsNat DEF Uniform
  <2>4. SameLocation(x, y) => x.block.offset < y.block.offset
    BY <1>3, <1>7 DEF StackedInv
  <2> HIDE DEF x, y
  <2>5. ByBlockOffset(x, y)
    BY <2>1, <2>3, <2>4 DEF ByBlockOffset, ByBinding, SameLocation
  <2> QED
    BY <2>5 DEF x, y
<1>8. ASSUME NEW i \in 1 .. b, NEW j \in 1 .. b, i < j
      PROVE  ByBinding(blocks'[i], blocks'[j])
  <2> DEFINE x == blocks'[i]
             y == blocks'[j]
  <2>1. ~ ByBinding(y, x)
    <3>1. i \in 1 .. j - 1 /\ j \in DOMAIN blocks
      BY <1>2, <1>3, <1>4, <1>8 DEF SortedUniforms
    <3> QED
      BY <1>2, <3>1 DEF SortedUniforms
  <2>2. x \in Block /\ y \in Block
    BY <1>3 DEF TypeOK
  <2>3. x.set \in Nat /\ y.set \in Nat /\ x.binding \in Nat /\ y.binding \in Nat
    BY <2>2, WidthsNat DEF Block
  <2>4. ~ SameLocation(x, y)
    BY <1>3, <1>8 DEF LocationsInv, BlocksApart
  <2> HIDE DEF x, y
  <2>5. ByBinding(x, y)
    BY <2>1, <2>3, <2>4 DEF ByBinding, SameLocation
  <2> QED
    BY <2>5 DEF x, y
<1>9. \A i, j \in DOMAIN push_constants' :
        i < j => push_constants'[i].offset < push_constants'[j].offset
  <2>1. push_constants' \in Seq(PushConst)
    BY DEF TypeOK
  <2>2. PushLaidOut(push_constants', push_layout'.size)
    BY DEF Finish, PushInv, PushLaidOut, Aligned
  <2> QED
    BY <2>1, <2>2, PushConstantsOrdered
<1> QED
  BY <1>3, <1>5, <1>6, <1>7, <1>8, <1>9 DEF ReflectionSorted

\* In the reflection info of a program that compiles, attributes and outputs
\* are strictly ordered by location, blocks by set and binding, uniforms by
\* set, binding and offset, push constants by offset, although std::sort is
\* not stable.  The specialization constants are not part of it: they are
\* never sorted (ReflectionInfo::sort).
THEOREM ReflectionIsSorted ==
  NarrowLimits /\ BlockSizeFits /\ PushSizeFits => (Spec => []ReflectionSorted)
<1> SUFFICES ASSUME NarrowLimits, BlockSizeFits, PushSizeFits PROVE Spec => []ReflectionSorted
  OBVIOUS
<1>1. Init => ReflectionSorted /\ AttributesTakeSlots
  BY DEF Init, ReflectionSorted, AttributesTakeSlots
<1>2. /\ TypeOK /\ ReflectionSorted /\ [Next]_vars
      /\ TypeOK' /\ AttributesDisjoint' /\ AttributesTakeSlots' /\ OutputsDistinct'
      /\ LocationsInv' /\ StackedInv' /\ PushInv'
      => ReflectionSorted'
  <2> SUFFICES ASSUME TypeOK, ReflectionSorted, [Next]_vars, TypeOK', AttributesDisjoint',
                      AttributesTakeSlots', OutputsDistinct', LocationsInv', StackedInv',
                      PushInv', status' = "done"
               PROVE  ReflectionSorted'
    BY DEF ReflectionSorted
  <2>1. CASE Finish
    BY <2>1, FinishSortsStrictly
  <2>2. CASE status = "done" /\ UNCHANGED <<attributes, outputs, uniforms, blocks, push_constants>>
    BY <2>2 DEF ReflectionSorted
  <2> QED
    BY <2>1, <2>2, DoneSteps
<1>3. Spec => []AttributesTakeSlots
  BY <1>1, TakeSlotsInductive, TypeCorrect, PTL DEF Spec
<1> QED
  BY <1>1, <1>2, <1>3, AttributesNeverOverlap, OutputsNeverCollide, LocationsInductive,
     StackedInductive, PushInductive, TypeCorrect, PTL DEF Spec

-----------------------------------------------------------------------------
(* The tables as binding spaces.  Each of them refines BindingSpace: a     *)
(* declaration claims free slots, every other step leaves the owners alone. *)

First(H) == CHOOSE i \in H : \A j \in H : i <= j
Holder(table, H) == IF H = {} THEN NoName ELSE table[First(H)].name

AttributeHolders(as, s) == {i \in DOMAIN as : s \in SlotsOf(as[i])}
OutputHolders(os, s)    == {i \in DOMAIN os : os[i].location = s}
UniformHolders(us, s)   == {i \in DOMAIN us : <<us[i].set, us[i].binding>> = s}

LEMMA AttributeOwnerIs ==
  /\ AttributeOwner = [s \in AttributeSlots |-> Holder(attributes, AttributeHolders(attributes, s))]
  /\ AttributeOwner' =
       [s \in AttributeSlots |-> Holder(attributes', AttributeHolders(attributes', s))]
  BY DEF AttributeOwner, OwnerOf, Holder, First, AttributeHolders, SlotsOf, AttributeSlots

LEMMA OutputOwnerIs ==
  /\ OutputOwner = [s \in OutputSlots |-> Holder(outputs, OutputHolders(outputs, s))]
  /\ OutputOwner' = [s \in OutputSlots |-> Holder(outputs', OutputHolders(outputs', s))]
  BY DEF OutputOwner, OwnerOf, Holder, First, OutputHolders, OutputSlots

LEMMA UniformOwnerIs ==
  /\ UniformOwner = [s \in UniformLocations |-> Holder(uniforms, UniformHolders(uniforms, s))]
  /\ UniformOwner' = [s \in UniformLocations |-> Holder(uniforms', UniformHolders(uniforms', s))]
  BY DEF UniformOwner, OwnerOf, Holder, First, UniformHolders, UniformLocations

LEMMA HolderIs ==
  ASSUME NEW table, NEW H \in SUBSET Nat, NEW i \in H, \A j \in H : i <= j
  PROVE  Holder(table, H) = table[i].name
<1>1. \A k \in H : (\A j \in H : k <= j) => k = i
  <2> TAKE k \in H
  <2>1. k \in Nat /\ i \in Nat
    OBVIOUS
  <2>2. ASSUME \A j \in H : k <= j PROVE k = i
    <3>1. k <= i /\ i <= k
      BY <2>2
    <3> QED
      BY <2>1, <3>1
  <2> QED
    BY <2>2
<1>2. First(H) = i
  BY <1>1, Zenon DEF First
<1> QED
  BY <1>2 DEF Holder

LEMMA FirstExists == ASSUME NEW H \in SUBSET Nat, H # {} PROVE \E i \in H : \A j \in H : i <= j
  BY LeastElement

\* The owner of a slot whose holders stay where they are.
LEMMA HolderKept ==
  ASSUME NEW old, NEW new, NEW H \in SUBSET Nat, \A i \in H : new[i].name = old[i].name
  PROVE  Holder(new, H) = Holder(old, H)
<1>1. CASE H = {}
  BY <1>1 DEF Holder
<1>2. CASE H # {}
  <2>1. PICK i \in H : \A j \in H : i <= j
    BY <1>2, FirstExists
  <2>2. Holder(new, H) = new[i].name /\ Holder(old, H) = old[i].name
    BY <2>1, HolderIs
  <2> QED
    BY <2>2
<1> QED
  BY <1>1, <1>2

\* The owner of a slot whose holders are moved by p, in the same order.
LEMMA HolderMoved ==
  ASSUME NEW old, NEW new, NEW p, NEW H \in SUBSET Nat, NEW G \in SUBSET Nat,
         \A i \in G : p[i] \in H /\ new[i].name = old[p[i]].name,
         \A j \in H : \E i \in G : p[i] = j,
         \A i, j \in G : i < j => p[i] < p[j]
  PROVE  Holder(new, G) = Holder(old, H)
<1>1. CASE G = {}
  <2>1. H = {}
    BY <1>1
  <2> QED
    BY <1>1, <2>1 DEF Holder
<1>2. CASE G # {}
  <2>1. PICK i \in G : \A j \in G : i <= j
    BY <1>2, FirstExists
  <2>2. p[i] \in H
    BY <2>1
  <2>3. \A j \in H : p[i] <= j
    <3> TAKE j \in H
    <3>1. PICK k \in G : p[k] = j
      OBVIOUS
    <3>2. i \in Nat /\ k \in Nat /\ p[i] \in Nat /\ j \in Nat
      BY <2>2
    <3>3. i = k \/ i < k
      BY <2>1, <3>2
    <3>4. i < k => p[i] < p[k]
      OBVIOUS
    <3> QED
      BY <3>1, <3>2, <3>3, <3>4
  <2>4. Holder(new, G) = new[i].name
    BY <2>1, HolderIs
  <2>5. Holder(old, H) = old[p[i]].name
    <3> DEFINE k == p[i]
    <3>1. k \in H /\ \A j \in H : k <= j
      BY <2>2, <2>3
    <3> HIDE DEF k
    <3>2. Holder(old, H) = old[k].name
      BY <3>1, HolderIs
    <3> QED
      BY <3>2 DEF k
  <2> QED
    BY <2>4, <2>5
<1> QED
  BY <1>1, <1>2

\* What a Claim of BindingSpace asks of the owners before and after it.
Claims(Slots, n, old, new) ==
  /\ \A s \in Slots : old[s] # n
  /\ LET S == {s \in Slots : new[s] = n} IN
       /\ S # {}
       /\ \A s \in S : old[s] = NoName
       /\ new = [s \in Slots |-> IF s \in S THEN n ELSE old[s]]

LEMMA FreeSlotsClaimed ==
  ASSUME NEW Slots, NEW n, NEW old, NEW new, NEW S \in SUBSET Slots, S # {},
         new = [s \in Slots |-> new[s]],
         \A s \in Slots : old[s] # n,
         \A s \in S : old[s] = NoName /\ new[s] = n,
         \A s \in Slots \ S : new[s] = old[s]
  PROVE  Claims(Slots, n, old, new)
<1>1. {s \in Slots : new[s] = n} = S
  OBVIOUS
<1>2. new = [s \in Slots |-> IF s \in S THEN n ELSE old[s]]
  OBVIOUS
<1> QED
  BY <1>1, <1>2 DEF Claims

\* A name nobody has declared owns nothing.
LEMMA NewNameOwnsNothing ==
  ASSUME NEW table, DOMAIN table \in SUBSET Nat, NEW H \in SUBSET DOMAIN table,
         NamesOf(table) \subseteq Declared, NEW n \in Names, n \notin Declared
  PROVE  Holder(table, H) # n
<1>1. CASE H = {}
  BY <1>1, NoNameAssumption DEF Holder
<1>2. CASE H # {}
  <2>1. PICK i \in H : \A j \in H : i <= j
    BY <1>2, FirstExists
  <2>2. Holder(table, H) = table[i].name /\ i \in DOMAIN table
    BY <2>1, HolderIs
  <2> QED
    BY <2>2 DEF NamesOf
<1> QED
  BY <1>1, <1>2

-----------------------------------------------------------------------------
(* Fragment outputs. *)

LEMMA OutputClaims ==
  ASSUME NarrowLimits, TypeOK, OutputsDistinct, SymbolsReflected, NEW d \in Decls,
         NEW index \in Literals, FragmentOutputStatement(d, index)
  PROVE  d.name \in Names /\ Claims(OutputSlots, d.name, OutputOwner, OutputOwner')
<1> DEFINE new == [name |-> d.name, type |-> ParsedType(d), location |-> Uint8(index)]
           n   == Len(outputs)
<1>1. OutputOK(d, index) /\ outputs' = Append(outputs, new) /\ outputs \in Seq(Output)
  BY DEF FragmentOutputStatement, TypeOK
<1>2. /\ index \in Nat /\ index < Limits.fragment_outputs /\ Uint8(index) = index
      /\ \A i \in DOMAIN outputs : outputs[i].location # index
      /\ d.name \in Names /\ d.name \notin Declared
  <2>1. Below(index, Limits.fragment_outputs) /\ ParseVariableOK(d, Declared)
    BY <1>1 DEF OutputOK
  <2>2. index \in Nat /\ index < Limits.fragment_outputs /\ Uint8(index) = index
    BY <2>1, NarrowIndex, LimitsType DEF NarrowLimits
  <2>3. d.name \in Names /\ d.name \notin Declared
    BY <2>1, ParsedTypeType DEF ParseVariableOK
  <2> QED
    BY <1>1, <2>2, <2>3 DEF OutputOK
<1>3. new.location = index /\ new.name = d.name
  BY <1>2
<1> HIDE DEF new
<1>4. /\ n \in Nat /\ DOMAIN outputs = 1 .. n /\ DOMAIN outputs' = 1 .. n + 1
      /\ \A i \in 1 .. n : outputs'[i] = outputs[i]
      /\ outputs'[n + 1] = new
  BY <1>1, Appended
<1> HIDE DEF n
<1>5. NamesOf(outputs) \subseteq Declared
  BY GlobalsAreDeclared DEF SymbolsReflected
<1>6. \A s \in OutputSlots : OutputOwner[s] # d.name
  <2> TAKE s \in OutputSlots
  <2>1. OutputOwner[s] = Holder(outputs, OutputHolders(outputs, s))
    BY OutputOwnerIs
  <2>2. OutputHolders(outputs, s) \in SUBSET DOMAIN outputs /\ DOMAIN outputs \in SUBSET Nat
    BY <1>4 DEF OutputHolders
  <2> QED
    BY <1>2, <1>5, <2>1, <2>2, NewNameOwnsNothing
<1>7. index \in OutputSlots
  BY <1>2, LimitsType DEF OutputSlots
<1>8. OutputOwner[index] = NoName
  <2>1. OutputHolders(outputs, index) = {}
    BY <1>2 DEF OutputHolders
  <2> QED
    BY <1>7, <2>1, OutputOwnerIs DEF Holder
<1>9. OutputOwner'[index] = d.name
  <2>1. OutputHolders(outputs', index) = {n + 1}
    BY <1>2, <1>3, <1>4 DEF OutputHolders
  <2>2. Holder(outputs', {n + 1}) = outputs'[n + 1].name
    <3>1. n + 1 \in Nat
      BY <1>4
    <3> QED
      BY <3>1, HolderIs
  <2> QED
    BY <1>3, <1>4, <1>7, <2>1, <2>2, OutputOwnerIs
<1>10. ASSUME NEW s \in OutputSlots, s # index PROVE OutputOwner'[s] = OutputOwner[s]
  <2>1. OutputHolders(outputs', s) = OutputHolders(outputs, s)
    BY <1>3, <1>4, <1>10 DEF OutputHolders
  <2>2. Holder(outputs', OutputHolders(outputs, s)) = Holder(outputs, OutputHolders(outputs, s))
    <3>1. OutputHolders(outputs, s) \in SUBSET (1 .. n)
      BY <1>4 DEF OutputHolders
    <3>2. \A i \in OutputHolders(outputs, s) : outputs'[i].name = outputs[i].name
      BY <1>4, <3>1
    <3> QED
      BY <3>1, <3>2, HolderKept
  <2> QED
    BY <2>1, <2>2, OutputOwnerIs
<1>11. Claims(OutputSlots, d.name, OutputOwner, OutputOwner')
  <2>1. OutputOwner' = [s \in OutputSlots |-> OutputOwner'[s]]
    BY OutputOwnerIs
  <2>2. {index} \in SUBSET OutputSlots /\ {index} # {}
    BY <1>7
  <2>3. \A s \in {index} : OutputOwner[s] = NoName /\ OutputOwner'[s] = d.name
    BY <1>8, <1>9
  <2>4. \A s \in OutputSlots \ {index} : OutputOwner'[s] = OutputOwner[s]
    BY <1>10
  <2> QED
    BY <1>6, <2>1, <2>2, <2>3, <2>4, FreeSlotsClaimed
<1> QED
  BY <1>2, <1>11

LEMMA SortKeepsOutputOwner ==
  ASSUME TypeOK, OutputsDistinct, Finish PROVE OutputOwner' = OutputOwner
<1>1. outputs' \in Reorderings(outputs)
  BY DEF Finish, Sort, SortedVersions
<1>2. DOMAIN outputs' = DOMAIN outputs
  BY <1>1, Permuted
<1>3. PICK p : Permutes(p, DOMAIN outputs) /\ \A i \in DOMAIN outputs : outputs'[i] = outputs[p[i]]
  BY <1>1, Permuted
<1>4. DOMAIN outputs \in SUBSET Nat
  BY DEF TypeOK
<1>5. ASSUME NEW s \in OutputSlots PROVE OutputOwner'[s] = OutputOwner[s]
  <2> DEFINE H == OutputHolders(outputs, s)
             G == OutputHolders(outputs', s)
  <2>1. H \in SUBSET Nat /\ G \in SUBSET Nat
    BY <1>2, <1>4 DEF OutputHolders
  <2>2. \A i \in G : p[i] \in H /\ outputs'[i].name = outputs[p[i]].name
    BY <1>2, <1>3 DEF OutputHolders, Permutes
  <2>3. \A j \in H : \E i \in G : p[i] = j
    BY <1>2, <1>3 DEF OutputHolders, Permutes
  <2>4. \A i, j \in G : i = j
    <3>1. \A i, j \in H : i = j
      BY DEF OutputsDistinct, OutputHolders
    <3>2. \A i, j \in DOMAIN outputs : p[i] = p[j] => i = j
      BY <1>3 DEF Permutes
    <3>3. G \subseteq DOMAIN outputs
      BY <1>2 DEF OutputHolders
    <3> QED
      BY <2>2, <3>1, <3>2, <3>3
  <2>5. \A i, j \in G : i < j => p[i] < p[j]
    BY <2>1, <2>4
  <2>6. Holder(outputs', G) = Holder(outputs, H)
    <3> HIDE DEF G, H
    <3> QED
      BY <2>1, <2>2, <2>3, <2>5, HolderMoved
  <2> QED
    BY <2>6, OutputOwnerIs
<1> QED
  BY <1>5, OutputOwnerIs

\* Declaring and sorting the fragment outputs implements a binding space: each
\* declaration claims one free location, every other statement leaves the
\* owners alone, sort() included (visitFragmentOutputStatement).
THEOREM OutputsAreABindingSpace == NarrowLimits => (Spec => OutputSpaceSpec)
<1> SUFFICES ASSUME NarrowLimits PROVE Spec => OutputSpaceSpec
  OBVIOUS
<1>1. Init => OutputSpace!Init
  <2> SUFFICES ASSUME Init PROVE OutputSpace!Init
    OBVIOUS
  <2>1. \A s \in OutputSlots : OutputHolders(outputs, s) = {}
    BY DEF Init, OutputHolders
  <2>2. \A s \in OutputSlots : OutputOwner[s] = NoName
    BY <2>1, OutputOwnerIs DEF Holder
  <2>3. OutputOwner = [s \in OutputSlots |-> NoName]
    BY <2>2, OutputOwnerIs
  <2> QED
    BY <2>3 DEF OutputSpace!Init
<1>2. TypeOK /\ OutputsDistinct /\ SymbolsReflected /\ [Next]_vars
      => [OutputSpace!Next]_OutputOwner
  <2> SUFFICES ASSUME TypeOK, OutputsDistinct, SymbolsReflected, [Next]_vars
               PROVE  OutputSpace!Next \/ OutputOwner' = OutputOwner
    OBVIOUS
  <2>1. CASE outputs' = outputs
    BY <2>1, OutputOwnerIs
  <2>2. ASSUME NEW d \in Decls, NEW index \in Literals, FragmentOutputStatement(d, index)
        PROVE  OutputSpace!Next
    <3>1. d.name \in Names /\ Claims(OutputSlots, d.name, OutputOwner, OutputOwner')
      BY <2>2, OutputClaims
    <3>2. OutputSpace!Claim(d.name)
      BY <3>1 DEF Claims, OutputSpace!Claim
    <3> QED
      BY <3>1, <3>2 DEF OutputSpace!Next
  <2>3. CASE Finish
    BY <2>3, SortKeepsOutputOwner
  <2> QED
    BY <2>1, <2>2, <2>3, WhoChangesWhat
<1> QED
  BY <1>1, <1>2, OutputsNeverCollide, GlobalsAreReflected, TypeCorrect, PTL
     DEF Spec, OutputSpaceSpec, OutputSpace!Spec

-----------------------------------------------------------------------------
(* Vertex attributes. *)

LEMMA AttributeClaims ==
  ASSUME NarrowLimits, TypeOK, AttributesDisjoint, AttributesTakeSlots, SymbolsReflected,
         NEW d \in Decls, NEW index \in Literals, VertexAttributeStatement(d, index)
  PROVE  d.name \in Names /\ Claims(AttributeSlots, d.name, AttributeOwner, AttributeOwner')
<1> DEFINE new == NewAttribute(d, index)
           n   == Len(attributes)
           S   == SlotsOf(new)
<1>1. /\ AttributeOK(d, index) /\ attributes' = Append(attributes, new)
      /\ attributes \in Seq(Attribute)
  BY DEF VertexAttributeStatement, TypeOK
<1>2. AttributesDisjoint'
  BY AttributeKeepsDisjoint
<1>3. d.name \in Names /\ d.name \notin Declared /\ new.name = d.name
  <2>1. ParseVariableOK(d, Declared)
    BY <1>1 DEF AttributeOK
  <2> QED
    BY <2>1, ParsedTypeType DEF ParseVariableOK, NewAttribute
<1>4. /\ new.location \in Nat /\ new.slot_count \in 1 .. 32
      /\ new.location + new.slot_count <= Limits.vertex_attribute_slots
  <2>1. /\ Below(index, Limits.vertex_attribute_slots)
        /\ index + GetTypeSlotSize(ParsedType(d)) <= Limits.vertex_attribute_slots
    BY <1>1 DEF AttributeOK
  <2>2. index \in Nat /\ Uint8(index) = index
    BY <2>1, LimitsType, NarrowIndex DEF NarrowLimits
  <2>3. GetTypeSlotSize(ParsedType(d)) \in 1 .. 32
    BY <1>1, AttributeSlotCount
  <2> QED
    BY <2>1, <2>2, <2>3 DEF NewAttribute
<1> HIDE DEF new
<1>5. S \in SUBSET AttributeSlots /\ S # {}
  <2>1. Limits.vertex_attribute_slots \in Nat
    BY LimitsType
  <2>2. new.location \in S
    BY <1>4 DEF SlotsOf
  <2> QED
    BY <1>4, <2>1, <2>2 DEF SlotsOf, AttributeSlots
<1>6. /\ n \in Nat /\ DOMAIN attributes = 1 .. n /\ DOMAIN attributes' = 1 .. n + 1
      /\ \A i \in 1 .. n : attributes'[i] = attributes[i]
      /\ attributes'[n + 1] = new
  BY <1>1, Appended
<1> HIDE DEF n
<1>7. n + 1 \in Nat /\ n + 1 \in DOMAIN attributes'
  BY <1>6
<1>8. \A s : AttributeHolders(attributes, s) \in SUBSET (1 .. n)
  BY <1>6 DEF AttributeHolders
<1>9. \A s \in AttributeSlots : AttributeOwner[s] # d.name
  <2> TAKE s \in AttributeSlots
  <2>1. AttributeOwner[s] = Holder(attributes, AttributeHolders(attributes, s))
    BY AttributeOwnerIs
  <2>2. NamesOf(attributes) \subseteq Declared
    BY GlobalsAreDeclared DEF SymbolsReflected
  <2>3. DOMAIN attributes \in SUBSET Nat
    BY <1>6
  <2> QED
    BY <1>3, <1>6, <1>8, <2>1, <2>2, <2>3, NewNameOwnsNothing
<1>10. ASSUME NEW s \in S PROVE AttributeOwner[s] = NoName /\ AttributeOwner'[s] = d.name
  <2>1. \A i \in 1 .. n : s \notin SlotsOf(attributes[i])
    <3> TAKE i \in 1 .. n
    <3>1. SlotsOf(attributes'[i]) \cap SlotsOf(attributes'[n + 1]) = {}
      BY <1>2, <1>6, <1>7 DEF AttributesDisjoint, SlotsOf
    <3> QED
      BY <1>6, <3>1
  <2>2. AttributeHolders(attributes, s) = {}
    BY <1>6, <2>1 DEF AttributeHolders
  <2>3. AttributeHolders(attributes', s) = {n + 1}
    BY <1>6, <1>7, <2>1 DEF AttributeHolders
  <2>4. Holder(attributes', {n + 1}) = attributes'[n + 1].name
    BY <1>7, HolderIs
  <2>5. s \in AttributeSlots
    BY <1>5
  <2> QED
    BY <1>3, <1>6, <2>2, <2>3, <2>4, <2>5, AttributeOwnerIs DEF Holder
<1>11. ASSUME NEW s \in AttributeSlots \ S PROVE AttributeOwner'[s] = AttributeOwner[s]
  <2> DEFINE H == AttributeHolders(attributes, s)
  <2>1. AttributeHolders(attributes', s) = H
    BY <1>6 DEF AttributeHolders
  <2>2. H \in SUBSET Nat /\ \A i \in H : attributes'[i].name = attributes[i].name
    BY <1>6, <1>8
  <2>3. Holder(attributes', H) = Holder(attributes, H)
    <3> HIDE DEF H
    <3> QED
      BY <2>2, HolderKept
  <2> QED
    BY <2>1, <2>3, AttributeOwnerIs
<1>12. AttributeOwner' = [s \in AttributeSlots |-> AttributeOwner'[s]]
  BY AttributeOwnerIs
<1>13. Claims(AttributeSlots, d.name, AttributeOwner, AttributeOwner')
  <2> HIDE DEF S
  <2> QED
    BY <1>5, <1>9, <1>10, <1>11, <1>12, FreeSlotsClaimed
<1> QED
  BY <1>3, <1>13

LEMMA SortKeepsAttributeOwner ==
  ASSUME TypeOK, AttributesDisjoint, Finish PROVE AttributeOwner' = AttributeOwner
<1>1. attributes' \in Reorderings(attributes)
  BY DEF Finish, Sort, SortedVersions
<1>2. DOMAIN attributes' = DOMAIN attributes
  BY <1>1, Permuted
<1>3. PICK p : /\ Permutes(p, DOMAIN attributes)
               /\ \A i \in DOMAIN attributes : attributes'[i] = attributes[p[i]]
  BY <1>1, Permuted
<1>4. DOMAIN attributes \in SUBSET Nat
  BY DEF TypeOK
<1>5. ASSUME NEW s \in AttributeSlots PROVE AttributeOwner'[s] = AttributeOwner[s]
  <2> DEFINE H == AttributeHolders(attributes, s)
             G == AttributeHolders(attributes', s)
  <2>1. H \in SUBSET Nat /\ G \in SUBSET Nat
    BY <1>2, <1>4 DEF AttributeHolders
  <2>2. \A i \in G : p[i] \in H /\ attributes'[i].name = attributes[p[i]].name
    BY <1>2, <1>3 DEF AttributeHolders, Permutes
  <2>3. \A j \in H : \E i \in G : p[i] = j
    BY <1>2, <1>3 DEF AttributeHolders, Permutes
  <2>4. \A i, j \in G : i = j
    <3>1. \A i, j \in H : i = j
      <4> TAKE i, j \in H
      <4>1. s \in SlotsOf(attributes[i]) \cap SlotsOf(attributes[j])
        BY DEF AttributeHolders
      <4>2. i \in DOMAIN attributes /\ j \in DOMAIN attributes
        BY DEF AttributeHolders
      <4> QED
        BY <4>1, <4>2 DEF AttributesDisjoint
    <3>2. \A i, j \in DOMAIN attributes : p[i] = p[j] => i = j
      BY <1>3 DEF Permutes
    <3>3. G \subseteq DOMAIN attributes
      BY <1>2 DEF AttributeHolders
    <3> QED
      BY <2>2, <3>1, <3>2, <3>3
  <2>5. \A i, j \in G : i < j => p[i] < p[j]
    BY <2>1, <2>4
  <2>6. Holder(attributes', G) = Holder(attributes, H)
    <3> HIDE DEF G, H
    <3> QED
      BY <2>1, <2>2, <2>3, <2>5, HolderMoved
  <2> QED
    BY <2>6, AttributeOwnerIs
<1> QED
  BY <1>5, AttributeOwnerIs

\* Declaring and sorting the vertex attributes implements a binding space: an
\* attribute claims all its slots at once, only free ones and never none, and
\* no other statement takes one away (visitVertexAttributeStatement).
THEOREM AttributesAreABindingSpace == NarrowLimits => (Spec => AttributeSpaceSpec)
<1> SUFFICES ASSUME NarrowLimits PROVE Spec => AttributeSpaceSpec
  OBVIOUS
<1>1. Init => AttributeSpace!Init /\ AttributesTakeSlots
  <2> SUFFICES ASSUME Init PROVE AttributeSpace!Init /\ AttributesTakeSlots
    OBVIOUS
  <2>1. \A s \in AttributeSlots : AttributeHolders(attributes, s) = {}
    BY DEF Init, AttributeHolders
  <2>2. \A s \in AttributeSlots : AttributeOwner[s] = NoName
    BY <2>1, AttributeOwnerIs DEF Holder
  <2>3. AttributeOwner = [s \in AttributeSlots |-> NoName]
    BY <2>2, AttributeOwnerIs
  <2> QED
    BY <2>3 DEF AttributeSpace!Init, Init, AttributesTakeSlots
<1>2. /\ TypeOK /\ AttributesDisjoint /\ AttributesTakeSlots /\ SymbolsReflected
      /\ [Next]_vars
      => [AttributeSpace!Next]_AttributeOwner
  <2> SUFFICES ASSUME TypeOK, AttributesDisjoint, AttributesTakeSlots, SymbolsReflected,
                      [Next]_vars
               PROVE  AttributeSpace!Next \/ AttributeOwner' = AttributeOwner
    OBVIOUS
  <2>1. CASE attributes' = attributes
    BY <2>1, AttributeOwnerIs
  <2>2. ASSUME NEW d \in Decls, NEW index \in Literals, VertexAttributeStatement(d, index)
        PROVE  AttributeSpace!Next
    <3>1. d.name \in Names /\ Claims(AttributeSlots, d.name, AttributeOwner, AttributeOwner')
      BY <2>2, AttributeClaims
    <3>2. AttributeSpace!Claim(d.name)
      BY <3>1 DEF Claims, AttributeSpace!Claim
    <3> QED
      BY <3>1, <3>2 DEF AttributeSpace!Next
  <2>3. CASE Finish
    BY <2>3, SortKeepsAttributeOwner
  <2> QED
    BY <2>1, <2>2, <2>3, WhoChangesWhat
<1>3. Spec => []AttributesTakeSlots
  BY <1>1, TakeSlotsInductive, TypeCorrect, PTL DEF Spec
<1> QED
  BY <1>1, <1>2, <1>3, AttributesNeverOverlap, GlobalsAreReflected, TypeCorrect, PTL
     DEF Spec, AttributeSpaceSpec, AttributeSpace!Spec

-----------------------------------------------------------------------------
(* Uniforms.  A location is claimed by a handle or by the first member of  *)
(* a block; the other members find it taken by their own block.            *)

LEMMA UniformClaims ==
  ASSUME TypeOK, SymbolsReflected, NEW new, new.name \in Names, new.name \notin Declared,
         uniforms' = Append(uniforms, new)
  PROVE  \/ Claims(UniformLocations, new.name, UniformOwner, UniformOwner')
         \/ UniformOwner' = UniformOwner
<1> DEFINE n == Len(uniforms)
           at == <<new.set, new.binding>>
<1>1. uniforms \in Seq(Uniform)
  BY DEF TypeOK
<1>2. /\ n \in Nat /\ DOMAIN uniforms = 1 .. n /\ DOMAIN uniforms' = 1 .. n + 1
      /\ \A i \in 1 .. n : uniforms'[i] = uniforms[i]
      /\ uniforms'[n + 1] = new
  BY <1>1, Appended
<1> HIDE DEF n
<1>3. n + 1 \in Nat /\ n + 1 \in DOMAIN uniforms' /\ \A i \in 1 .. n : i <= n + 1
  BY <1>2
<1>4. \A s : UniformHolders(uniforms, s) \in SUBSET (1 .. n)
  BY <1>2 DEF UniformHolders
<1>5. \A s \in UniformLocations : UniformOwner[s] # new.name
  <2> TAKE s \in UniformLocations
  <2>1. UniformOwner[s] = Holder(uniforms, UniformHolders(uniforms, s))
    BY UniformOwnerIs
  <2>2. NamesOf(uniforms) \subseteq Declared
    BY GlobalsAreDeclared DEF SymbolsReflected
  <2>3. DOMAIN uniforms \in SUBSET Nat
    BY <1>2
  <2> QED
    BY <1>2, <1>4, <2>1, <2>2, <2>3, NewNameOwnsNothing
<1>6. ASSUME NEW s \in UniformLocations, s # at PROVE UniformOwner'[s] = UniformOwner[s]
  <2> DEFINE H == UniformHolders(uniforms, s)
  <2>1. UniformHolders(uniforms', s) = H
    BY <1>2, <1>6 DEF UniformHolders
  <2>2. H \in SUBSET Nat /\ \A i \in H : uniforms'[i].name = uniforms[i].name
    BY <1>2, <1>4
  <2>3. Holder(uniforms', H) = Holder(uniforms, H)
    <3> HIDE DEF H
    <3> QED
      BY <2>2, HolderKept
  <2> QED
    BY <2>1, <2>3, UniformOwnerIs
<1>7. UniformHolders(uniforms', at) = UniformHolders(uniforms, at) \cup {n + 1}
  BY <1>2, <1>3 DEF UniformHolders
<1>8. UniformOwner' = [s \in UniformLocations |-> UniformOwner'[s]]
  BY UniformOwnerIs
<1>9. CASE at \in UniformLocations /\ UniformHolders(uniforms, at) = {}
  <2>1. UniformOwner[at] = NoName
    BY <1>9, UniformOwnerIs DEF Holder
  <2>2. Holder(uniforms', {n + 1}) = new.name
    <3> DEFINE m == n + 1
    <3>1. {m} \in SUBSET Nat /\ m <= m
      BY <1>3
    <3> HIDE DEF m
    <3>2. Holder(uniforms', {m}) = uniforms'[m].name
      BY <3>1, HolderIs
    <3>3. Holder(uniforms', {n + 1}) = uniforms'[n + 1].name
      BY <3>2 DEF m
    <3> QED
      BY <1>2, <3>3
  <2>3. UniformOwner'[at] = new.name
    <3>1. UniformHolders(uniforms', at) = {n + 1}
      BY <1>7, <1>9
    <3> QED
      BY <1>9, <2>2, <3>1, UniformOwnerIs
  <2> HIDE DEF at
  <2>4. {at} \in SUBSET UniformLocations /\ {at} # {}
    BY <1>9
  <2>5. \A s \in {at} : UniformOwner[s] = NoName /\ UniformOwner'[s] = new.name
    BY <2>1, <2>3
  <2>6. \A s \in UniformLocations \ {at} : UniformOwner'[s] = UniformOwner[s]
    BY <1>6
  <2> QED
    BY <1>5, <1>8, <2>4, <2>5, <2>6, FreeSlotsClaimed
<1>10. CASE UniformHolders(uniforms, at) # {}
  <2> DEFINE H == UniformHolders(uniforms, at)
  <2>1. H \in SUBSET (1 .. n)
    BY <1>4
  <2> HIDE DEF at
  <2>2. H \in SUBSET Nat
    BY <2>1
  <2>3. PICK i \in H : \A j \in H : i <= j
    BY <1>10, <2>2, FirstExists
  <2>4. Holder(uniforms, H) = uniforms[i].name
    BY <2>2, <2>3, HolderIs
  <2>5. Holder(uniforms', H \cup {n + 1}) = uniforms'[i].name
    <3> DEFINE G == H \cup {n + 1}
    <3>1. G \in SUBSET Nat /\ i \in G /\ \A j \in G : i <= j
      BY <1>3, <2>1, <2>2, <2>3
    <3> HIDE DEF G
    <3>2. Holder(uniforms', G) = uniforms'[i].name
      BY <3>1, HolderIs
    <3> QED
      BY <3>2 DEF G
  <2>6. uniforms'[i] = uniforms[i]
    BY <1>2, <2>1
  <2>7. at \in UniformLocations => UniformOwner'[at] = UniformOwner[at]
    BY <1>7, <2>4, <2>5, <2>6, UniformOwnerIs
  <2> QED
    BY <1>6, <1>8, <2>7, UniformOwnerIs
<1>11. CASE at \notin UniformLocations
  BY <1>6, <1>8, <1>11, UniformOwnerIs
<1> QED
  BY <1>9, <1>10, <1>11

\* Uniforms at one location have growing offsets before and after sort(),
\* which therefore keeps their order.
LEMMA SortKeepsUniformOwner ==
  ASSUME TypeOK, StackedInv, StackedInv', Finish PROVE UniformOwner' = UniformOwner
<1>1. PICK p, q : SortedUniforms(p, q)
  BY FinishSorts
<1> DEFINE D == DOMAIN uniforms
<1>2. /\ DOMAIN uniforms' = D /\ D \in SUBSET Nat
      /\ \A i \in D : /\ p[i] \in D /\ SameUniform(uniforms'[i], uniforms[p[i]])
                      /\ uniforms[p[i]].block.offset \in Nat
      /\ \A i, j \in D : p[i] = p[j] => i = j
      /\ \A j \in D : \E i \in D : p[i] = j
  <2>1. D \in SUBSET Nat /\ \A i \in D : uniforms[i] \in Uniform
    BY DEF TypeOK
  <2>2. \A i \in D : uniforms[i].block.offset \in Nat
    BY <2>1, WidthsNat DEF Uniform
  <2> QED
    BY <1>1, <2>1, <2>2 DEF SortedUniforms, Permutes
<1> HIDE DEF D
<1>3. ASSUME NEW s \in UniformLocations PROVE UniformOwner'[s] = UniformOwner[s]
  <2> DEFINE H == UniformHolders(uniforms, s)
             G == UniformHolders(uniforms', s)
  <2>1. H \in SUBSET D /\ G \in SUBSET D
    BY <1>2 DEF UniformHolders, D
  <2>2. \A i \in G : p[i] \in H /\ uniforms'[i].name = uniforms[p[i]].name
    BY <1>2 DEF UniformHolders, SameUniform, D
  <2>3. \A j \in H : \E i \in G : p[i] = j
    <3> TAKE j \in H
    <3>1. PICK i \in D : p[i] = j
      BY <1>2, <2>1
    <3>2. <<uniforms'[i].set, uniforms'[i].binding>> = <<uniforms[j].set, uniforms[j].binding>>
      BY <1>2, <3>1 DEF SameUniform
    <3>3. i \in G
      BY <1>2, <3>2 DEF UniformHolders
    <3> QED
      BY <3>1, <3>3
  <2>4. ASSUME NEW i \in G, NEW j \in G, i < j PROVE p[i] < p[j]
    <3>1. SameLocation(uniforms'[i], uniforms'[j])
      BY DEF UniformHolders, SameLocation
    <3>2. SameLocation(uniforms[p[j]], uniforms[p[i]])
      BY <2>2 DEF UniformHolders, SameLocation
    <3>3. uniforms'[i].block.offset < uniforms'[j].block.offset
      BY <1>2, <2>1, <2>4, <3>1 DEF StackedInv
    <3>4. uniforms[p[i]].block.offset < uniforms[p[j]].block.offset
      BY <1>2, <2>1, <3>3 DEF SameUniform
    <3>5. ~ (p[j] < p[i])
      <4>1. p[j] < p[i] => uniforms[p[j]].block.offset < uniforms[p[i]].block.offset
        BY <1>2, <2>1, <3>2 DEF StackedInv, D
      <4>2. uniforms[p[i]].block.offset \in Nat /\ uniforms[p[j]].block.offset \in Nat
        BY <1>2, <2>1
      <4> QED
        BY <3>4, <4>1, <4>2
    <3>6. p[i] # p[j] /\ p[i] \in Nat /\ p[j] \in Nat
      <4>1. i \in D /\ j \in D /\ i \in Nat /\ j \in Nat /\ p[i] \in D /\ p[j] \in D
        BY <1>2, <2>1
      <4>2. i # j
        BY <2>4, <4>1
      <4> QED
        BY <1>2, <4>1, <4>2
    <3> QED
      BY <3>5, <3>6
  <2>5. Holder(uniforms', G) = Holder(uniforms, H)
    <3>1. H \in SUBSET Nat /\ G \in SUBSET Nat
      BY <1>2, <2>1
    <3> HIDE DEF G, H
    <3> QED
      BY <2>2, <2>3, <2>4, <3>1, HolderMoved
  <2> QED
    BY <2>5, UniformOwnerIs
<1> QED
  BY <1>3, UniformOwnerIs

\* Declaring and sorting the uniforms implements a binding space: a handle, or
\* the first member of a block, claims one free location, and the location
\* keeps that owner through the rest of the block and through sort()
\* (visitUniformStatement, get_uniform_at).
THEOREM UniformsAreABindingSpace ==
  NarrowLimits /\ BlockSizeFits => (Spec => UniformSpaceSpec)
<1> SUFFICES ASSUME NarrowLimits, BlockSizeFits PROVE Spec => UniformSpaceSpec
  OBVIOUS
<1>1. Init => UniformSpace!Init
  <2> SUFFICES ASSUME Init PROVE UniformSpace!Init
    OBVIOUS
  <2>1. \A s \in UniformLocations : UniformHolders(uniforms, s) = {}
    BY DEF Init, UniformHolders
  <2>2. \A s \in UniformLocations : UniformOwner[s] = NoName
    BY <2>1, UniformOwnerIs DEF Holder
  <2>3. UniformOwner = [s \in UniformLocations |-> NoName]
    BY <2>2, UniformOwnerIs
  <2> QED
    BY <2>3 DEF UniformSpace!Init
<1>2. TypeOK /\ StackedInv /\ StackedInv' /\ SymbolsReflected /\ [Next]_vars
      => [UniformSpace!Next]_UniformOwner
  <2> SUFFICES ASSUME TypeOK, StackedInv, StackedInv', SymbolsReflected, [Next]_vars
               PROVE  UniformSpace!Next \/ UniformOwner' = UniformOwner
    OBVIOUS
  <2>1. CASE uniforms' = uniforms
    BY <2>1, UniformOwnerIs
  <2>2. ASSUME NEW new, new.name \in Names, new.name \notin Declared,
               uniforms' = Append(uniforms, new)
        PROVE  UniformSpace!Next \/ UniformOwner' = UniformOwner
    <3>1. CASE Claims(UniformLocations, new.name, UniformOwner, UniformOwner')
      <4>1. UniformSpace!Claim(new.name)
        BY <3>1 DEF Claims, UniformSpace!Claim
      <4> QED
        BY <2>2, <4>1 DEF UniformSpace!Next
    <3> QED
      BY <2>2, <3>1, UniformClaims
  <2>3. ASSUME NEW d \in Decls, NEW set \in Literals, NEW binding \in Literals,
               HandleUniformStatement(d, set, binding)
        PROVE  UniformSpace!Next \/ UniformOwner' = UniformOwner
    <3> DEFINE new == NewUniform(d, set, binding, 0, 0, 0)
    <3>1. ParseVariableOK(d, Declared) /\ uniforms' = Append(uniforms, new)
      BY <2>3 DEF HandleUniformStatement, HandleOK
    <3>2. new.name \in Names /\ new.name \notin Declared
      BY <3>1, ParsedTypeType DEF ParseVariableOK, NewUniform
    <3> HIDE DEF new
    <3> QED
      BY <2>2, <3>1, <3>2
  <2>4. ASSUME NEW d \in Decls, UniformBlockMember(d)
        PROVE  UniformSpace!Next \/ UniformOwner' = UniformOwner
    <3> DEFINE new == NewUniform(d, open.set, open.binding, open.index,
                                 AlignedOffset(open.offset), ScalarLayoutSize(ParsedType(d)))
    <3>1. ParseVariableOK(d, Declared) /\ uniforms' = Append(uniforms, new)
      BY <2>4 DEF UniformBlockMember, MemberOK
    <3>2. new.name \in Names /\ new.name \notin Declared
      BY <3>1, ParsedTypeType DEF ParseVariableOK, NewUniform
    <3> HIDE DEF new
    <3> QED
      BY <2>2, <3>1, <3>2
  <2>5. CASE Finish
    BY <2>5, SortKeepsUniformOwner
  <2>6. CASE UniformsQuiet \/ (\E set, binding \in Literals : OpenUniformBlock(set, binding))
               \/ CloseUniformBlock
    BY <2>1, <2>6 DEF UniformsQuiet, OpenUniformBlock, CloseUniformBlock, reflection
  <2> QED
    BY <2>3, <2>4, <2>5, <2>6, UniformSteps
<1> QED
  BY <1>1, <1>2, StackedInductive, GlobalsAreReflected, TypeCorrect, PTL
     DEF Spec, UniformSpaceSpec, UniformSpace!Spec
=============================================================================
