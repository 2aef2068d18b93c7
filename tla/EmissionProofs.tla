--------------------------- MODULE EmissionProofs ---------------------------
(***************************************************************************)
(* Theorems about the GLSL variable streams of TopLevel: nothing in them   *)
(* is used above its declaration, they bind what the reflection info says, *)
(* and the locals in them are apart from each other and from the           *)
(* attributes.  Checked by TLAPS for every program.                        *)
(***************************************************************************)
EXTENDS BindingProofs, StateSequences

-----------------------------------------------------------------------------
(* One sequence after another. *)

LEMMA ConcatSequences ==
  ASSUME NEW s, IsASequence(s), NEW t, IsASequence(t)
  PROVE  /\ IsASequence(s \o t)
         /\ Len(s) \in Nat /\ DOMAIN s = 1 .. Len(s)
         /\ Len(t) \in Nat /\ DOMAIN t = 1 .. Len(t)
         /\ Len(s \o t) = Len(s) + Len(t) /\ DOMAIN (s \o t) = 1 .. Len(s) + Len(t)
         /\ \A i \in 1 .. Len(s) : (s \o t)[i] = s[i]
         /\ \A i \in 1 .. Len(t) : (s \o t)[Len(s) + i] = t[i]
<1>1. PICK S : s \in Seq(S)
  BY DEF IsASequence
<1>2. PICK T : t \in Seq(T)
  BY DEF IsASequence
<1>3. s \in Seq(S \cup T) /\ t \in Seq(S \cup T)
  BY <1>1, <1>2, SeqMonotonic
<1>4. s \o t \in Seq(S \cup T) /\ Len(s \o t) = Len(s) + Len(t)
  BY <1>3, ConcatProperties
<1>5. /\ Len(s) \in Nat /\ DOMAIN s = 1 .. Len(s)
      /\ Len(t) \in Nat /\ DOMAIN t = 1 .. Len(t)
  BY <1>3, LenProperties
<1>6. \A i \in 1 .. Len(s) + Len(t) :
        (s \o t)[i] = IF i <= Len(s) THEN s[i] ELSE t[i - Len(s)]
  BY <1>3, ConcatProperties
<1>7. \A i \in 1 .. Len(s) : (s \o t)[i] = s[i]
  <2>1. \A m, k \in Nat : \A i \in 1 .. m : i \in 1 .. m + k /\ i <= m
    OBVIOUS
  <2> QED
    BY <1>5, <1>6, <2>1
<1>8. \A i \in 1 .. Len(t) : (s \o t)[Len(s) + i] = t[i]
  <2>1. \A m, k \in Nat : \A i \in 1 .. k :
          m + i \in 1 .. m + k /\ ~ (m + i <= m) /\ (m + i) - m = i
    OBVIOUS
  <2> QED
    BY <1>5, <1>6, <2>1
<1>9. DOMAIN (s \o t) = 1 .. Len(s) + Len(t)
  BY <1>4, LenProperties
<1> QED
  BY <1>4, <1>5, <1>7, <1>8, <1>9 DEF IsASequence

-----------------------------------------------------------------------------
(* How the streams and the symbol table grow. *)

StreamsInv == IsASequence(vert_vars) /\ IsASequence(frag_vars)

LEMMA LocalLinesAre ==
  ASSUME TypeOK
  PROVE  /\ IsASequence(LocalLines)
         /\ \A i \in DOMAIN LocalLines : /\ LocalLines[i].op = "local"
                                         /\ LocalLines[i].uses = {}
<1> DEFINE locals == {i \in DOMAIN globals : IsLocal(globals[i])}
           c      == Cardinality(locals)
<1>1. c \in Nat
  <2>1. IsFiniteSet(1 .. Len(globals)) /\ locals \subseteq 1 .. Len(globals)
    <3>1. Len(globals) \in Nat /\ DOMAIN globals = 1 .. Len(globals)
      BY DEF TypeOK
    <3> QED
      BY <3>1, FS_Interval
  <2>2. IsFiniteSet(locals)
    BY <2>1, FS_Subset
  <2> QED
    BY <2>2, FS_CardinalityType
<1> DEFINE Nth(k) == CHOOSE i \in locals : Cardinality({j \in locals : j < i}) = k - 1
           At(i)  == LocalBase + LocalSlots(SubSeq(globals, 1, i - 1))
           F(k)   == Line("local", globals[Nth(k)].name, <<At(Nth(k))>>, {})
<1>2. LocalLines = [k \in 1 .. c |-> F(k)]
  BY DEF LocalLines
<1>3. \A k : F(k).op = "local" /\ F(k).uses = {}
  BY DEF Line
<1> HIDE DEF F, c
<1>4. [k \in 1 .. c |-> F(k)] \in Seq({F(k) : k \in 1 .. c})
  BY <1>1
<1> QED
  BY <1>2, <1>3, <1>4 DEF IsASequence

\* What a step makes of a stream: the same, a line more, or the locals more.
Grown(s, t) == t = s \/ (\E l : t = Append(s, l)) \/ t = s \o LocalLines

LEMMA Growth ==
  ASSUME [Next]_vars
  PROVE  /\ Grown(vert_vars, vert_vars')
         /\ Grown(frag_vars, frag_vars')
         /\ globals' = globals \/ \E g : globals' = Append(globals, g)
<1>1. CASE Quiet
  BY <1>1 DEF Quiet, Grown
<1>2. CASE \E d \in Decls, index \in Literals :
             VertexAttributeStatement(d, index) \/ FragmentOutputStatement(d, index)
  BY <1>2 DEF VertexAttributeStatement, FragmentOutputStatement, EmitVert, EmitFrag, AddGlobal,
       Grown
<1>3. CASE \E d \in Decls, flat \in BOOLEAN : LocalStatement(d, flat)
  BY <1>3 DEF LocalStatement, AddGlobal, Grown
<1>4. ASSUME NEW d \in Decls, NEW set \in Literals, NEW binding \in Literals,
             HandleUniformStatement(d, set, binding)
      PROVE  /\ Grown(vert_vars, vert_vars') /\ Grown(frag_vars, frag_vars')
             /\ \E g : globals' = Append(globals, g)
  BY <1>4 DEF HandleUniformStatement, EmitVert, EmitFrag, AddGlobal, Grown
<1>5. CASE \/ \E set, binding \in Literals : OpenUniformBlock(set, binding)
           \/ CloseUniformBlock \/ OpenPushBlock \/ ClosePushBlock
  <2>1. CASE \E set, binding \in Literals : OpenUniformBlock(set, binding)
    BY <2>1 DEF OpenUniformBlock, EmitBoth, EmitVert, EmitFrag, Grown
  <2>2. CASE CloseUniformBlock \/ OpenPushBlock \/ ClosePushBlock
    BY <2>2 DEF CloseUniformBlock, OpenPushBlock, ClosePushBlock, EmitBoth, EmitVert, EmitFrag,
         Grown
  <2> QED
    BY <1>5, <2>1, <2>2
<1>6. CASE \E d \in Decls : UniformBlockMember(d) \/ PushBlockMember(d)
  <2>1. CASE \E d \in Decls : UniformBlockMember(d)
    BY <2>1 DEF UniformBlockMember, EmitBoth, EmitVert, EmitFrag, AddGlobal, Grown
  <2>2. CASE \E d \in Decls : PushBlockMember(d)
    BY <2>2 DEF PushBlockMember, EmitBoth, EmitVert, EmitFrag, AddGlobal, Grown
  <2> QED
    BY <1>6, <2>1, <2>2
<1>7. CASE \E d \in Decls, init \in Inits :
             \/ GlobalConstantStatement(d, init)
             \/ \E index \in Literals : SpecConstantStatement(d, index, init)
  <2>1. CASE \E d \in Decls, init \in Inits : GlobalConstantStatement(d, init)
    BY <2>1 DEF GlobalConstantStatement, EmitBoth, EmitVert, EmitFrag, AddGlobal, Grown
  <2>2. CASE \E d \in Decls, init \in Inits, index \in Literals :
               SpecConstantStatement(d, index, init)
    BY <2>2 DEF SpecConstantStatement, EmitBoth, EmitVert, EmitFrag, AddGlobal, Grown
  <2> QED
    BY <1>7, <2>1, <2>2
<1>8. CASE Finish \/ FinishWithoutStage
  BY <1>8 DEF Finish, FinishWithoutStage, EmitLocals, Grown
<1> QED
  BY <1>1, <1>2, <1>3, <1>4, <1>5, <1>6, <1>7, <1>8, StepKinds

LEMMA GrownSequence ==
  ASSUME TypeOK, NEW s, IsASequence(s), NEW t, Grown(s, t)
  PROVE  IsASequence(t)
<1>1. IsASequence(LocalLines)
  BY LocalLinesAre
<1>2. ASSUME NEW l, t = Append(s, l) PROVE IsASequence(t)
  BY <1>2, AppendToSequence
<1>3. CASE t = s \o LocalLines
  BY <1>1, <1>3, ConcatSequences
<1>4. CASE t = s
  BY <1>4
<1> QED
  BY <1>2, <1>3, <1>4 DEF Grown

LEMMA StreamsInductive == Spec => []StreamsInv
<1>1. Init => StreamsInv
  BY EmptySeq DEF Init, StreamsInv, IsASequence
<1>2. TypeOK /\ StreamsInv /\ [Next]_vars => StreamsInv'
  BY Growth, GrownSequence DEF StreamsInv
<1> QED
  BY <1>1, <1>2, TypeCorrect, PTL DEF Spec

-----------------------------------------------------------------------------
(* Initialisers and the lines above them. *)

\* Whatever a line of s uses is declared by a line above it.
UsesAbove(s) == \A i \in DOMAIN s : s[i].uses \subseteq {s[j].name : j \in 1 .. i - 1}

CompileTime == {"Constant", "PushConstant"}

\* What an initialiser may refer to is in the text of both stages.
ConstantsEmitted ==
  \A i \in DOMAIN globals : globals[i].scope \in CompileTime =>
    globals[i].name \in NamesOf(vert_vars) \cap NamesOf(frag_vars)

InitialisersInv == UsesAbove(vert_vars) /\ UsesAbove(frag_vars) /\ ConstantsEmitted

\* The names an initialiser may refer to, and those that stream s declares.
CompileNames == {globals[i].name : i \in {j \in DOMAIN globals : globals[j].scope \in CompileTime}}
Usable(s)    == NamesOf(s) \cap CompileNames

\* The same as Grown, where the new line uses only such names.
GrownFrom(s, t) ==
  t = s \/ (\E l : l.uses \subseteq Usable(s) /\ t = Append(s, l)) \/ t = s \o LocalLines

LEMMA NoUses ==
  ASSUME NEW op, NEW name, NEW at, NEW uses
  PROVE  Line(op, name, at, uses).uses = uses /\ Line(op, name, at, uses).name = name
  BY DEF Line

LEMMA LineGrows ==
  ASSUME NEW s, NEW op, NEW name, NEW at, NEW uses \in SUBSET Usable(s)
  PROVE  GrownFrom(s, Append(s, Line(op, name, at, uses)))
<1> DEFINE l == Line(op, name, at, uses)
<1>1. l.uses \subseteq Usable(s)
  BY NoUses
<1> HIDE DEF l
<1>2. GrownFrom(s, Append(s, l))
  BY <1>1 DEF GrownFrom
<1> QED
  BY <1>2 DEF l

\* A constant is initialised from constants (and push constants) only.
LEMMA ReferencedConstants ==
  ASSUME NEW d \in Decls, NEW init \in Inits, ConstantOK(d, init), NEW n \in Referenced(init)
  PROVE  \E i \in DOMAIN globals : globals[i].name = n /\ globals[i].scope \in CompileTime
<1>1. PICK a \in Atoms(init) : a.kind = "var" /\ n = a.name
  BY DEF Referenced
<1>2. Referenced(init) \subseteq Declared /\ Evaluate(init, ParsedType(d)).const
  BY DEF ConstantOK, InitialiserOK
<1>3. AtomExpr(a).const
  <2>1. CASE init.kind \in {"literal", "var"}
    BY <1>1, <1>2, <2>1 DEF Atoms, Evaluate
  <2>2. CASE init.kind = "other"
    BY <1>2, <2>2 DEF Evaluate
  <2>3. CASE init.kind \in {"list", "cast"}
    <3> DEFINE args == [i \in DOMAIN init.args |-> AtomExpr(init.args[i])]
    <3>1. \A i \in DOMAIN args : args[i].const
      BY <1>2, <2>3 DEF Evaluate, ComposedExpr
    <3>2. PICK i \in DOMAIN init.args : a = init.args[i]
      BY <1>1, <2>3 DEF Atoms, ToSet
    <3> QED
      BY <3>1, <3>2
  <2> QED
    BY <2>1, <2>2, <2>3, InitsAssumption DEF IsInitialiser
<1>4. Find(n).scope \in CompileTime
  BY <1>1, <1>3 DEF AtomExpr, CompileTime
<1>5. \E i \in DOMAIN globals : globals[i].name = n
  BY <1>2 DEF Declared
<1> QED
  BY <1>4, <1>5 DEF Find

LEMMA ReferencedEmitted ==
  ASSUME ConstantsEmitted, NEW d \in Decls, NEW init \in Inits, ConstantOK(d, init)
  PROVE  Referenced(init) \in SUBSET Usable(vert_vars) /\ Referenced(init) \in SUBSET Usable(frag_vars)
  BY ReferencedConstants DEF ConstantsEmitted, Usable, CompileNames

LEMMA InitialiserGrowth ==
  ASSUME ConstantsEmitted, [Next]_vars
  PROVE  GrownFrom(vert_vars, vert_vars') /\ GrownFrom(frag_vars, frag_vars')
<1>1. CASE Quiet
  BY <1>1 DEF Quiet, GrownFrom
<1>2. ASSUME NEW d \in Decls, NEW index \in Literals,
             VertexAttributeStatement(d, index) \/ FragmentOutputStatement(d, index)
      PROVE  GrownFrom(vert_vars, vert_vars') /\ GrownFrom(frag_vars, frag_vars')
  <2>1. CASE VertexAttributeStatement(d, index)
    BY <2>1, LineGrows DEF VertexAttributeStatement, EmitVert, GrownFrom
  <2>2. CASE FragmentOutputStatement(d, index)
    BY <2>2, LineGrows DEF FragmentOutputStatement, EmitFrag, GrownFrom
  <2> QED
    BY <1>2, <2>1, <2>2
<1>3. CASE \E d \in Decls, flat \in BOOLEAN : LocalStatement(d, flat)
  BY <1>3 DEF LocalStatement, GrownFrom
<1>4. ASSUME NEW d \in Decls, NEW set \in Literals, NEW binding \in Literals,
             HandleUniformStatement(d, set, binding)
      PROVE  GrownFrom(vert_vars, vert_vars') /\ GrownFrom(frag_vars, frag_vars')
  <2>1. GrownFrom(frag_vars, frag_vars')
    BY <1>4, LineGrows DEF HandleUniformStatement, EmitFrag
  <2>2. GrownFrom(vert_vars, vert_vars')
    BY <1>4, LineGrows DEF HandleUniformStatement, EmitVert, GrownFrom
  <2> QED
    BY <2>1, <2>2
<1>5. CASE \E set, binding \in Literals : OpenUniformBlock(set, binding)
  BY <1>5, LineGrows DEF OpenUniformBlock, EmitBoth, EmitVert, EmitFrag
<1>6. CASE CloseUniformBlock \/ OpenPushBlock \/ ClosePushBlock
  BY <1>6, LineGrows DEF CloseUniformBlock, OpenPushBlock, ClosePushBlock, EmitBoth, EmitVert,
       EmitFrag
<1>7. CASE \E d \in Decls : UniformBlockMember(d) \/ PushBlockMember(d)
  BY <1>7, LineGrows DEF UniformBlockMember, PushBlockMember, EmitBoth, EmitVert, EmitFrag
<1>8. ASSUME NEW d \in Decls, NEW init \in Inits, GlobalConstantStatement(d, init)
      PROVE  GrownFrom(vert_vars, vert_vars') /\ GrownFrom(frag_vars, frag_vars')
  BY <1>8, LineGrows, ReferencedEmitted DEF GlobalConstantStatement, EmitBoth, EmitVert, EmitFrag
<1>9. ASSUME NEW d \in Decls, NEW init \in Inits, NEW index \in Literals,
             SpecConstantStatement(d, index, init)
      PROVE  GrownFrom(vert_vars, vert_vars') /\ GrownFrom(frag_vars, frag_vars')
  <2> DEFINE rewritten == RewrittenAsFloat(d, Evaluate(init, ParsedType(d)))
             uses      == IF rewritten THEN {} ELSE Referenced(init)
  <2>1. /\ ConstantOK(d, init)
        /\ vert_vars' = Append(vert_vars, Line("spec_constant", d.name, <<index>>, uses))
        /\ frag_vars' = Append(frag_vars, Line("spec_constant", d.name, <<index>>, uses))
    BY <1>9 DEF SpecConstantStatement, SpecConstantOK, EmitBoth, EmitVert, EmitFrag
  <2>2. uses \in SUBSET Usable(vert_vars) /\ uses \in SUBSET Usable(frag_vars)
    BY <2>1, ReferencedEmitted
  <2> HIDE DEF uses
  <2> QED
    BY <2>1, <2>2, LineGrows
<1>10. CASE Finish \/ FinishWithoutStage
  BY <1>10 DEF Finish, FinishWithoutStage, EmitLocals, GrownFrom
<1> QED
  BY <1>1, <1>2, <1>3, <1>4, <1>5, <1>6, <1>7, <1>8, <1>9, <1>10, StepKinds

LEMMA GrownFromKeepsUses ==
  ASSUME TypeOK, NEW s, IsASequence(s), UsesAbove(s), NEW t, GrownFrom(s, t)
  PROVE  UsesAbove(t) /\ NamesOf(s) \subseteq NamesOf(t)
<1> DEFINE n == Len(s)
<1>1. n \in Nat /\ DOMAIN s = 1 .. n
  BY AppendToSequence
<1>2. NamesOf(s) = {s[j].name : j \in 1 .. n}
  BY <1>1 DEF NamesOf
<1>3. ASSUME NEW l, l.uses \subseteq NamesOf(s), t = Append(s, l)
      PROVE  UsesAbove(t) /\ NamesOf(s) \subseteq NamesOf(t)
  <2>1. /\ DOMAIN t = 1 .. n + 1 /\ \A i \in 1 .. n : t[i] = s[i]
        /\ t[n + 1] = l
    <3>1. IsASequence(t) /\ Len(t) = n + 1
      BY <1>3, AppendToSequence
    <3>2. DOMAIN t = 1 .. n + 1
      BY <3>1, AppendToSequence
    <3> QED
      BY <1>3, <3>2, AppendToSequence
  <2> HIDE DEF n
  <2>2. ASSUME NEW i \in 1 .. n PROVE t[i].uses \subseteq {t[j].name : j \in 1 .. i - 1}
    <3>1. \A j \in 1 .. i - 1 : t[j] = s[j]
      BY <1>1, <2>1
    <3>2. {s[j].name : j \in 1 .. i - 1} \subseteq {t[j].name : j \in 1 .. i - 1}
      BY <3>1
    <3> QED
      BY <1>1, <2>1, <3>2 DEF UsesAbove
  <2>3. t[n + 1].uses \subseteq {t[j].name : j \in 1 .. (n + 1) - 1}
    <3>1. (n + 1) - 1 = n
      BY <1>1
    <3>2. {s[j].name : j \in 1 .. n} \subseteq {t[j].name : j \in 1 .. n}
      BY <2>1
    <3> QED
      BY <1>2, <1>3, <2>1, <3>1, <3>2
  <2>4. \A i \in 1 .. n + 1 : i \in 1 .. n \/ i = n + 1
    BY <1>1
  <2> QED
    BY <1>1, <2>1, <2>2, <2>3, <2>4 DEF UsesAbove, NamesOf
<1>4. ASSUME t = s \o LocalLines
      PROVE  UsesAbove(t) /\ NamesOf(s) \subseteq NamesOf(t)
  <2> DEFINE m == Len(LocalLines)
  <2>1. /\ m \in Nat /\ DOMAIN t = 1 .. n + m /\ DOMAIN LocalLines = 1 .. m
        /\ \A i \in 1 .. n : t[i] = s[i]
        /\ \A i \in 1 .. m : t[n + i] = LocalLines[i]
    BY <1>4, LocalLinesAre, ConcatSequences
  <2>2. \A i \in 1 .. m : LocalLines[i].uses = {}
    BY <2>1, LocalLinesAre
  <2> HIDE DEF n, m
  <2>3. ASSUME NEW i \in 1 .. n PROVE t[i].uses \subseteq {t[j].name : j \in 1 .. i - 1}
    <3>1. \A j \in 1 .. i - 1 : t[j] = s[j]
      BY <1>1, <2>1
    <3>2. {s[j].name : j \in 1 .. i - 1} \subseteq {t[j].name : j \in 1 .. i - 1}
      BY <3>1
    <3> QED
      BY <1>1, <2>1, <3>2 DEF UsesAbove
  <2>4. ASSUME NEW i \in 1 .. n + m, i \notin 1 .. n PROVE t[i].uses = {}
    <3>1. i - n \in 1 .. m /\ n + (i - n) = i
      BY <1>1, <2>1, <2>4
    <3> QED
      BY <2>1, <2>2, <3>1
  <2>5. \A i \in 1 .. n : i \in 1 .. n + m
    BY <1>1, <2>1
  <2> QED
    BY <1>1, <2>1, <2>3, <2>4, <2>5 DEF UsesAbove, NamesOf
<1> QED
  BY <1>3, <1>4 DEF GrownFrom, Usable

\* The steps that declare something: only a constant or a push constant, which
\* the text of both stages then declares too, may be used by an initialiser.
LEMMA DeclaringGrowth ==
  ASSUME [Next]_vars
  PROVE  \/ globals' = globals
         \/ \E g : globals' = Append(globals, g) /\ g.scope \notin CompileTime
         \/ \E g, l : /\ globals' = Append(globals, g) /\ l.name = g.name
                      /\ vert_vars' = Append(vert_vars, l)
                      /\ frag_vars' = Append(frag_vars, l)
<1> DEFINE Nothing == globals' = globals
           Other   == \E g : globals' = Append(globals, g) /\ g.scope \notin CompileTime
           Both    == \E g, l : /\ globals' = Append(globals, g) /\ l.name = g.name
                                /\ vert_vars' = Append(vert_vars, l)
                                /\ frag_vars' = Append(frag_vars, l)
<1>1. CASE \/ Quiet \/ CloseUniformBlock \/ OpenPushBlock \/ ClosePushBlock
           \/ Finish \/ FinishWithoutStage
           \/ \E set, binding \in Literals : OpenUniformBlock(set, binding)
  <2>1. Nothing
    BY <1>1 DEF Quiet, CloseUniformBlock, OpenPushBlock, ClosePushBlock, Finish,
         FinishWithoutStage, OpenUniformBlock
  <2> QED
    BY <2>1
<1>2. ASSUME NEW d \in Decls,
             \E index \in Literals :
               VertexAttributeStatement(d, index) \/ FragmentOutputStatement(d, index)
      PROVE  Other
  <2>1. \/ globals' = Append(globals, Global(d, "Attribute"))
        \/ globals' = Append(globals, Global(d, "Output"))
    BY <1>2 DEF VertexAttributeStatement, FragmentOutputStatement, AddGlobal
  <2>2. /\ Global(d, "Attribute").scope \notin CompileTime
        /\ Global(d, "Output").scope \notin CompileTime
    BY DEF Global, CompileTime
  <2> QED
    BY <2>1, <2>2
<1>3. ASSUME NEW d \in Decls, NEW flat \in BOOLEAN, LocalStatement(d, flat) PROVE Other
  <2> DEFINE g == [Global(d, "Local") EXCEPT !.flat = flat \/ IsIntegerType(d.prim)]
  <2>1. globals' = Append(globals, g)
    BY <1>3 DEF LocalStatement, AddGlobal
  <2>2. g.scope \notin CompileTime
    BY DEF Global, CompileTime
  <2> HIDE DEF g
  <2> QED
    BY <2>1, <2>2
<1>4. ASSUME NEW d \in Decls, NEW set \in Literals, NEW binding \in Literals,
             HandleUniformStatement(d, set, binding)
      PROVE  Other
  <2>1. globals' = Append(globals, Global(d, "Uniform"))
    BY <1>4 DEF HandleUniformStatement, AddGlobal
  <2>2. Global(d, "Uniform").scope \notin CompileTime
    BY DEF Global, CompileTime
  <2> QED
    BY <2>1, <2>2
<1>5. ASSUME NEW d \in Decls, UniformBlockMember(d) \/ PushBlockMember(d) PROVE Both
  <2>1. PICK scope, at :
          /\ globals' = Append(globals, Global(d, scope))
          /\ vert_vars' = Append(vert_vars, Line("member", d.name, at, {}))
          /\ frag_vars' = Append(frag_vars, Line("member", d.name, at, {}))
    BY <1>5 DEF UniformBlockMember, PushBlockMember, AddGlobal, EmitBoth, EmitVert, EmitFrag
  <2>2. Line("member", d.name, at, {}).name = Global(d, scope).name
    BY NoUses DEF Global
  <2> QED
    BY <2>1, <2>2
<1>6. ASSUME NEW d \in Decls, NEW init \in Inits,
             \/ GlobalConstantStatement(d, init)
             \/ \E index \in Literals : SpecConstantStatement(d, index, init)
      PROVE  Both
  <2>1. PICK g, op, at, uses :
          /\ globals' = Append(globals, g) /\ g.name = d.name
          /\ vert_vars' = Append(vert_vars, Line(op, d.name, at, uses))
          /\ frag_vars' = Append(frag_vars, Line(op, d.name, at, uses))
    <3> DEFINE e == Evaluate(init, ParsedType(d))
               A(x, y) == [Global(d, "Constant") EXCEPT !.source = x, !.glsl = y]
    <3>1. \A x, y : A(x, y).name = d.name
      BY DEF Global
    <3>2. CASE GlobalConstantStatement(d, init)
      <4>1. /\ globals' = Append(globals, A(e.source, e.glsl))
            /\ vert_vars' = Append(vert_vars,
                                   Line("global_constant", d.name, <<>>, Referenced(init)))
            /\ frag_vars' = Append(frag_vars,
                                   Line("global_constant", d.name, <<>>, Referenced(init)))
        BY <3>2 DEF GlobalConstantStatement, AddGlobal, EmitBoth, EmitVert, EmitFrag
      <4> HIDE DEF A
      <4> QED
        BY <3>1, <4>1
    <3>3. CASE \E index \in Literals : SpecConstantStatement(d, index, init)
      <4>1. PICK index \in Literals : SpecConstantStatement(d, index, init)
        BY <3>3
      <4>2. PICK x, y, uses :
              /\ globals' = Append(globals, A(x, y))
              /\ vert_vars' = Append(vert_vars, Line("spec_constant", d.name, <<index>>, uses))
              /\ frag_vars' = Append(frag_vars, Line("spec_constant", d.name, <<index>>, uses))
        BY <4>1 DEF SpecConstantStatement, AddGlobal, EmitBoth, EmitVert, EmitFrag
      <4> HIDE DEF A
      <4> QED
        BY <3>1, <4>2
    <3> QED
      BY <1>6, <3>2, <3>3
  <2>2. Line(op, d.name, at, uses).name = g.name
    BY <2>1, NoUses
  <2> QED
    BY <2>1, <2>2
<1> QED
  BY <1>1, <1>2, <1>3, <1>4, <1>5, <1>6, StepKinds

LEMMA ConstantsStayEmitted ==
  ASSUME TypeOK, StreamsInv, ConstantsEmitted, [Next]_vars,
         NamesOf(vert_vars) \subseteq NamesOf(vert_vars'),
         NamesOf(frag_vars) \subseteq NamesOf(frag_vars')
  PROVE  ConstantsEmitted'
<1> DEFINE n == Len(globals)
<1>1. globals \in Seq(Variable)
  BY DEF TypeOK
<1>2. CASE globals' = globals
  BY <1>2 DEF ConstantsEmitted, NamesOf
<1>3. ASSUME NEW g, globals' = Append(globals, g),
             g.scope \in CompileTime =>
               g.name \in NamesOf(vert_vars') \cap NamesOf(frag_vars')
      PROVE  ConstantsEmitted'
  <2>1. /\ n \in Nat /\ DOMAIN globals = 1 .. n /\ DOMAIN globals' = 1 .. n + 1
        /\ \A i \in 1 .. n : globals'[i] = globals[i]
        /\ globals'[n + 1] = g
    BY <1>1, <1>3, Appended
  <2> HIDE DEF n
  <2>2. \A i \in 1 .. n + 1 : i \in 1 .. n \/ i = n + 1
    BY <2>1
  <2> QED
    BY <1>3, <2>1, <2>2 DEF ConstantsEmitted, NamesOf
<1>4. ASSUME NEW g, NEW l, globals' = Append(globals, g), l.name = g.name,
             vert_vars' = Append(vert_vars, l), frag_vars' = Append(frag_vars, l)
      PROVE  ConstantsEmitted'
  <2>1. \A s : IsASequence(s) => l.name \in NamesOf(Append(s, l))
    <3> SUFFICES ASSUME NEW s, IsASequence(s) PROVE l.name \in NamesOf(Append(s, l))
      OBVIOUS
    <3>1. /\ Append(s, l)[Len(s) + 1] = l /\ Len(s) \in Nat
          /\ IsASequence(Append(s, l)) /\ Len(Append(s, l)) = Len(s) + 1
      BY AppendToSequence
    <3>2. DOMAIN Append(s, l) = 1 .. Len(s) + 1
      BY <3>1, AppendToSequence
    <3>3. Len(s) + 1 \in DOMAIN Append(s, l)
      BY <3>1, <3>2
    <3> QED
      BY <3>1, <3>3 DEF NamesOf
  <2>2. g.name \in NamesOf(vert_vars') \cap NamesOf(frag_vars')
    BY <1>4, <2>1 DEF StreamsInv
  <2> QED
    BY <1>3, <1>4, <2>2
<1> QED
  BY <1>2, <1>3, <1>4, DeclaringGrowth

LEMMA InitialisersInductive == Spec => []InitialisersInv
<1>1. Init => InitialisersInv
  BY DEF Init, InitialisersInv, UsesAbove, ConstantsEmitted
<1>2. TypeOK /\ StreamsInv /\ InitialisersInv /\ [Next]_vars => InitialisersInv'
  <2> SUFFICES ASSUME TypeOK, StreamsInv, InitialisersInv, [Next]_vars PROVE InitialisersInv'
    OBVIOUS
  <2>1. GrownFrom(vert_vars, vert_vars') /\ GrownFrom(frag_vars, frag_vars')
    BY InitialiserGrowth DEF InitialisersInv
  <2>2. /\ UsesAbove(vert_vars') /\ NamesOf(vert_vars) \subseteq NamesOf(vert_vars')
        /\ UsesAbove(frag_vars') /\ NamesOf(frag_vars) \subseteq NamesOf(frag_vars')
    BY <2>1, GrownFromKeepsUses DEF StreamsInv, InitialisersInv
  <2>3. ConstantsEmitted'
    BY <2>2, ConstantsStayEmitted DEF InitialisersInv, NamesOf
  <2> QED
    BY <2>2, <2>3 DEF InitialisersInv, UsesAbove
<1> QED
  BY <1>1, <1>2, StreamsInductive, TypeCorrect, PTL DEF Spec

\* In the text of either stage, an initialiser uses only names a line above it
\* declares, whichever statements of the file wrote them
\* (visitGlobalConstantStatement, GLSLGenerator::emit_global_constant).
THEOREM DeclarationsComeFirst == Spec => []DeclaredBeforeUse
<1>1. InitialisersInv => DeclaredBeforeUse
  BY DEF InitialisersInv, UsesAbove, DeclaredBeforeUse
<1> QED
  BY <1>1, InitialisersInductive, PTL

\* No line of the vertex text uses what is not fixed when the shader is made.
UsesFixed == \A i \in DOMAIN vert_vars : vert_vars[i].uses \subseteq CompileNames

LEMMA CompileNamesGrow == ASSUME TypeOK, [Next]_vars PROVE CompileNames \subseteq CompileNames'
<1>1. globals \in Seq(Variable)
  BY DEF TypeOK
<1>2. CASE globals' = globals
  BY <1>2 DEF CompileNames
<1>3. ASSUME NEW g, globals' = Append(globals, g) PROVE CompileNames \subseteq CompileNames'
  <2>1. /\ DOMAIN globals = 1 .. Len(globals) /\ DOMAIN globals' = 1 .. Len(globals) + 1
        /\ \A i \in 1 .. Len(globals) : globals'[i] = globals[i]
        /\ Len(globals) \in Nat
    BY <1>1, <1>3, Appended
  <2> QED
    BY <2>1 DEF CompileNames
<1> QED
  BY <1>2, <1>3, Growth

LEMMA UsesStayFixed ==
  ASSUME TypeOK, StreamsInv, InitialisersInv, UsesFixed, [Next]_vars PROVE UsesFixed'
<1>1. GrownFrom(vert_vars, vert_vars') /\ IsASequence(vert_vars)
  BY InitialiserGrowth DEF InitialisersInv, StreamsInv
<1>2. CompileNames \subseteq CompileNames'
  BY CompileNamesGrow
<1>3. \A i \in DOMAIN vert_vars' : vert_vars'[i].uses \subseteq CompileNames
  <2> DEFINE n == Len(vert_vars)
  <2>0. n \in Nat /\ DOMAIN vert_vars = 1 .. n
    BY <1>1, AppendToSequence
  <2>1. CASE vert_vars' = vert_vars
    BY <2>1 DEF UsesFixed
  <2>2. ASSUME NEW l, l.uses \subseteq Usable(vert_vars), vert_vars' = Append(vert_vars, l)
        PROVE  \A i \in DOMAIN vert_vars' : vert_vars'[i].uses \subseteq CompileNames
    <3>1. IsASequence(vert_vars') /\ Len(vert_vars') = n + 1
      BY <1>1, <2>2, AppendToSequence
    <3>2. /\ DOMAIN vert_vars' = 1 .. n + 1 /\ \A i \in 1 .. n : vert_vars'[i] = vert_vars[i]
          /\ vert_vars'[n + 1] = l
      BY <1>1, <2>2, <3>1, AppendToSequence
    <3> HIDE DEF n
    <3>3. \A i \in 1 .. n + 1 : i \in 1 .. n \/ i = n + 1
      BY <2>0
    <3> QED
      BY <2>0, <2>2, <3>2, <3>3 DEF UsesFixed, Usable
  <2>3. ASSUME vert_vars' = vert_vars \o LocalLines
        PROVE  \A i \in DOMAIN vert_vars' : vert_vars'[i].uses \subseteq CompileNames
    <3> DEFINE m == Len(LocalLines)
    <3>1. /\ m \in Nat /\ DOMAIN vert_vars' = 1 .. n + m /\ DOMAIN LocalLines = 1 .. m
          /\ \A i \in 1 .. n : vert_vars'[i] = vert_vars[i]
          /\ \A i \in 1 .. m : vert_vars'[n + i] = LocalLines[i]
      BY <1>1, <2>3, LocalLinesAre, ConcatSequences
    <3>2. \A i \in 1 .. m : LocalLines[i].uses = {}
      BY <3>1, LocalLinesAre
    <3> HIDE DEF n, m
    <3>3. ASSUME NEW i \in 1 .. n + m, i \notin 1 .. n PROVE vert_vars'[i].uses = {}
      <4>1. i - n \in 1 .. m /\ n + (i - n) = i
        BY <2>0, <3>1, <3>3
      <4> QED
        BY <3>1, <3>2, <4>1
    <3> QED
      BY <2>0, <3>1, <3>3 DEF UsesFixed
  <2> QED
    BY <1>1, <2>1, <2>2, <2>3 DEF GrownFrom
<1> QED
  BY <1>2, <1>3 DEF UsesFixed

\* Of all that has a value set at draw time only a push constant gets into the
\* initialiser of a constant: in a file that has none yet, whatever an
\* initialiser reads, through lists and casts, is a constant
\* (visitGlobalConstantStatement, VariableExpr).
THEOREM OnlyPushConstantsVary ==
  Spec => [](GlobalsIn("PushConstant") = {} => InitialisersAreCompileTime)
<1>1. UsesFixed /\ SymbolsReflected =>
        (GlobalsIn("PushConstant") = {} => InitialisersAreCompileTime)
  <2> SUFFICES ASSUME UsesFixed, SymbolsReflected, GlobalsIn("PushConstant") = {},
                      NEW i \in DOMAIN vert_vars, NEW n \in vert_vars[i].uses
               PROVE  Find(n).scope = "Constant"
    BY DEF InitialisersAreCompileTime
  <2>1. PICK k \in DOMAIN globals : globals[k].name = n /\ globals[k].scope \in CompileTime
    BY DEF UsesFixed, CompileNames
  <2>2. globals[k].scope # "PushConstant"
    BY <2>1 DEF GlobalsIn
  <2>3. (CHOOSE j \in DOMAIN globals : globals[j].name = n) = k
    BY <2>1 DEF SymbolsReflected
  <2> QED
    BY <2>1, <2>2, <2>3 DEF Find, CompileTime
<1>2. Init => UsesFixed
  BY DEF Init, UsesFixed
<1>3. TypeOK /\ StreamsInv /\ InitialisersInv /\ UsesFixed /\ [Next]_vars => UsesFixed'
  BY UsesStayFixed
<1> QED
  BY <1>1, <1>2, <1>3, InitialisersInductive, StreamsInductive, GlobalsAreReflected, TypeCorrect,
     PTL DEF Spec

-----------------------------------------------------------------------------
(* What the text binds.  The tables and the streams are compared entry by  *)
(* entry: x is a name with what the line says of it.                       *)

PlacedAt(table, x) == \E i \in DOMAIN table : x = <<table[i].name, <<table[i].location>>>>

UniformAt(u)         == <<u.name, <<u.set, u.binding>>>>
HandleAt(us, x)      == \E i \in DOMAIN us : IsHandleType(us[i].type.type) /\ x = UniformAt(us[i])
SharedHandleAt(us, x) ==
  \E i \in DOMAIN us : /\ IsHandleType(us[i].type.type) /\ us[i].type.type # SubpassInput
                       /\ x = UniformAt(us[i])

InBlockAt(u)         == <<u.name, <<u.block.offset, u.block.size>>>>
BlockMemberAt(us, x) ==
  \E i \in DOMAIN us : ~ IsHandleType(us[i].type.type) /\ x = InBlockAt(us[i])
PushedAt(ps, x)      == \E i \in DOMAIN ps : x = <<ps[i].name, <<ps[i].offset, ps[i].size>>>>
MemberAt(us, ps, x)  == BlockMemberAt(us, x) \/ PushedAt(ps, x)

SpecializedAt(cs, x) == \E i \in DOMAIN cs : x = <<cs[i].name, <<cs[i].index>>>>

AttributesTold ==
  /\ \A x : x \in Located(vert_vars, "attribute") <=> PlacedAt(attributes, x)
  /\ \A x : x \notin Located(frag_vars, "attribute")
OutputsTold ==
  /\ \A x : x \in Located(frag_vars, "output") <=> PlacedAt(outputs, x)
  /\ \A x : x \notin Located(vert_vars, "output")
HandlesTold ==
  /\ \A x : x \in Located(frag_vars, "handle") <=> HandleAt(uniforms, x)
  /\ \A x : x \in Located(vert_vars, "handle") <=> SharedHandleAt(uniforms, x)
MembersTold ==
  /\ \A x : x \in Located(vert_vars, "member") <=> MemberAt(uniforms, push_constants, x)
  /\ \A x : x \in Located(frag_vars, "member") <=> MemberAt(uniforms, push_constants, x)
SpecConstantsTold ==
  /\ \A x : x \in Located(vert_vars, "spec_constant") <=> SpecializedAt(spec_constants, x)
  /\ \A x : x \in Located(frag_vars, "spec_constant") <=> SpecializedAt(spec_constants, x)

EmissionInv ==
  AttributesTold /\ OutputsTold /\ HandlesTold /\ MembersTold /\ SpecConstantsTold

\* The last line of s that is no member is the header op at the location at.
OpenHeader(s, op, at) ==
  \E j \in DOMAIN s : /\ s[j].op = op /\ s[j].at = at
                      /\ \A k \in j + 1 .. Len(s) : s[k].op = "member"

\* Member lines stand in their blocks, and both streams are in the block that
\* is open.
HeadersInv ==
  /\ MembersHeaded(vert_vars, uniforms, push_constants)
  /\ MembersHeaded(frag_vars, uniforms, push_constants)
  /\ status = "block" =>
       /\ OpenHeader(vert_vars, "block_header", <<open.set, open.binding>>)
       /\ OpenHeader(frag_vars, "block_header", <<open.set, open.binding>>)
  /\ status = "push" =>
       /\ OpenHeader(vert_vars, "push_header", <<>>)
       /\ OpenHeader(frag_vars, "push_header", <<>>)

LEMMA EmissionInvMatches == EmissionInv /\ HeadersInv => EmissionMatchesReflection
<1> SUFFICES ASSUME EmissionInv, HeadersInv PROVE EmissionMatchesReflection
  OBVIOUS
<1>1. /\ Located(vert_vars, "attribute") =
           {<<attributes[i].name, <<attributes[i].location>>>> : i \in DOMAIN attributes}
      /\ Located(frag_vars, "attribute") = {}
  BY DEF EmissionInv, AttributesTold, PlacedAt
<1>2. /\ Located(frag_vars, "output") =
           {<<outputs[i].name, <<outputs[i].location>>>> : i \in DOMAIN outputs}
      /\ Located(vert_vars, "output") = {}
  BY DEF EmissionInv, OutputsTold, PlacedAt
<1> DEFINE handles == {i \in DOMAIN uniforms : IsHandleType(uniforms[i].type.type)}
           At(i)   == <<uniforms[i].name, <<uniforms[i].set, uniforms[i].binding>>>>
<1>3. Located(frag_vars, "handle") = {At(i) : i \in handles}
  <2>1. \A x : HandleAt(uniforms, x) <=> \E i \in handles : x = At(i)
    BY DEF HandleAt, UniformAt
  <2> HIDE DEF At, handles
  <2> QED
    BY <2>1 DEF EmissionInv, HandlesTold
<1> DEFINE shared == {j \in handles : uniforms[j].type.type # SubpassInput}
<1>4. Located(vert_vars, "handle") = {At(i) : i \in shared}
  <2>1. \A x : SharedHandleAt(uniforms, x) <=> \E i \in shared : x = At(i)
    BY DEF SharedHandleAt, UniformAt
  <2> HIDE DEF At, shared
  <2> QED
    BY <2>1 DEF EmissionInv, HandlesTold
<1> DEFINE InBlock(i) == <<uniforms[i].name, <<uniforms[i].block.offset, uniforms[i].block.size>>>>
           Pushed(i)  == <<push_constants[i].name,
                           <<push_constants[i].offset, push_constants[i].size>>>>
           members    == DOMAIN uniforms \ handles
           ps         == DOMAIN push_constants
<1>5. ASSUME NEW stream, stream = vert_vars \/ stream = frag_vars
      PROVE  Located(stream, "member") = {InBlock(i) : i \in members} \cup {Pushed(i) : i \in ps}
  <2>1. \A x : MemberAt(uniforms, push_constants, x) <=>
                 (\E i \in members : x = InBlock(i)) \/ (\E i \in ps : x = Pushed(i))
    BY DEF MemberAt, BlockMemberAt, PushedAt, InBlockAt
  <2>2. \A x : x \in Located(stream, "member") <=> MemberAt(uniforms, push_constants, x)
    BY <1>5 DEF EmissionInv, MembersTold
  <2> HIDE DEF InBlock, Pushed, members, ps
  <2> QED
    BY <2>1, <2>2
<1>6. ASSUME NEW stream, stream = vert_vars \/ stream = frag_vars
      PROVE  Located(stream, "spec_constant") =
               {<<spec_constants[i].name, <<spec_constants[i].index>>>> :
                  i \in DOMAIN spec_constants}
  <2>1. \A x : x \in Located(stream, "spec_constant") <=> SpecializedAt(spec_constants, x)
    BY <1>6 DEF EmissionInv, SpecConstantsTold
  <2> QED
    BY <2>1 DEF SpecializedAt
<1>7. ASSUME NEW stream, stream = vert_vars \/ stream = frag_vars
      PROVE  MembersHeaded(stream, uniforms, push_constants)
  BY <1>7 DEF HeadersInv
<1>8. \A stream \in {vert_vars, frag_vars} :
        /\ Located(stream, "member") = {InBlock(i) : i \in members} \cup {Pushed(i) : i \in ps}
        /\ MembersHeaded(stream, uniforms, push_constants)
        /\ Located(stream, "spec_constant") =
             {<<spec_constants[i].name, <<spec_constants[i].index>>>> :
                i \in DOMAIN spec_constants}
  BY <1>5, <1>6, <1>7
<1> QED
  BY <1>1, <1>2, <1>3, <1>4, <1>8 DEF EmissionMatchesReflection

\* Only a table or a stream that a step changes has to be looked at again.
SameText(op) ==
  \A x : /\ x \in Located(vert_vars', op) <=> x \in Located(vert_vars, op)
         /\ x \in Located(frag_vars', op) <=> x \in Located(frag_vars, op)

LEMMA ToldNext ==
  /\ AttributesTold' <=>
       /\ \A x : x \in Located(vert_vars', "attribute") <=> PlacedAt(attributes', x)
       /\ \A x : x \notin Located(frag_vars', "attribute")
  /\ OutputsTold' <=>
       /\ \A x : x \in Located(frag_vars', "output") <=> PlacedAt(outputs', x)
       /\ \A x : x \notin Located(vert_vars', "output")
  /\ HandlesTold' <=>
       /\ \A x : x \in Located(frag_vars', "handle") <=> HandleAt(uniforms', x)
       /\ \A x : x \in Located(vert_vars', "handle") <=> SharedHandleAt(uniforms', x)
  /\ MembersTold' <=>
       /\ \A x : x \in Located(vert_vars', "member") <=> MemberAt(uniforms', push_constants', x)
       /\ \A x : x \in Located(frag_vars', "member") <=> MemberAt(uniforms', push_constants', x)
  /\ SpecConstantsTold' <=>
       /\ \A x : x \in Located(vert_vars', "spec_constant") <=> SpecializedAt(spec_constants', x)
       /\ \A x : x \in Located(frag_vars', "spec_constant") <=> SpecializedAt(spec_constants', x)
<1>1. AttributesTold' <=>
        /\ \A x : x \in Located(vert_vars', "attribute") <=> PlacedAt(attributes', x)
        /\ \A x : x \notin Located(frag_vars', "attribute")
  BY DEF AttributesTold, Located, PlacedAt
<1>2. OutputsTold' <=>
        /\ \A x : x \in Located(frag_vars', "output") <=> PlacedAt(outputs', x)
        /\ \A x : x \notin Located(vert_vars', "output")
  BY DEF OutputsTold, Located, PlacedAt
<1>3. HandlesTold' <=>
        /\ \A x : x \in Located(frag_vars', "handle") <=> HandleAt(uniforms', x)
        /\ \A x : x \in Located(vert_vars', "handle") <=> SharedHandleAt(uniforms', x)
  BY DEF HandlesTold, Located, HandleAt, SharedHandleAt
<1>4. MembersTold' <=>
        /\ \A x : x \in Located(vert_vars', "member") <=> MemberAt(uniforms', push_constants', x)
        /\ \A x : x \in Located(frag_vars', "member") <=> MemberAt(uniforms', push_constants', x)
  BY DEF MembersTold, Located, MemberAt, BlockMemberAt, PushedAt
<1>5. SpecConstantsTold' <=>
        /\ \A x : x \in Located(vert_vars', "spec_constant") <=> SpecializedAt(spec_constants', x)
        /\ \A x : x \in Located(frag_vars', "spec_constant") <=> SpecializedAt(spec_constants', x)
  BY DEF SpecConstantsTold, Located, SpecializedAt
<1> QED
  BY <1>1, <1>2, <1>3, <1>4, <1>5

LEMMA AttributesKept ==
  ASSUME EmissionInv, SameText("attribute"),
         \A x : PlacedAt(attributes', x) <=> PlacedAt(attributes, x)
  PROVE  AttributesTold'
  BY ToldNext DEF EmissionInv, AttributesTold, SameText

LEMMA OutputsKept ==
  ASSUME EmissionInv, SameText("output"), \A x : PlacedAt(outputs', x) <=> PlacedAt(outputs, x)
  PROVE  OutputsTold'
  BY ToldNext DEF EmissionInv, OutputsTold, SameText

LEMMA HandlesKept ==
  ASSUME EmissionInv, SameText("handle"),
         \A x : HandleAt(uniforms', x) <=> HandleAt(uniforms, x),
         \A x : SharedHandleAt(uniforms', x) <=> SharedHandleAt(uniforms, x)
  PROVE  HandlesTold'
  BY ToldNext DEF EmissionInv, HandlesTold, SameText

LEMMA MembersKept ==
  ASSUME EmissionInv, SameText("member"),
         \A x : BlockMemberAt(uniforms', x) <=> BlockMemberAt(uniforms, x),
         \A x : PushedAt(push_constants', x) <=> PushedAt(push_constants, x)
  PROVE  MembersTold'
  BY ToldNext DEF EmissionInv, MembersTold, SameText, MemberAt

LEMMA SpecConstantsKept ==
  ASSUME EmissionInv, SameText("spec_constant"), spec_constants' = spec_constants
  PROVE  SpecConstantsTold'
  BY ToldNext DEF EmissionInv, SpecConstantsTold, SameText

\* The stream t binds what s binds, and in a line of kind o the entry y.
Binds(s, t, o, y) ==
  \A op, x : x \in Located(t, op) <=> x \in Located(s, op) \/ (o = op /\ x = y)

LEMMA LocatedAppended ==
  ASSUME NEW s, IsASequence(s), NEW o, NEW name, NEW at, NEW uses
  PROVE  Binds(s, Append(s, Line(o, name, at, uses)), o, <<name, at>>)
<1> DEFINE l == Line(o, name, at, uses)
           t == Append(s, l)
           n == Len(s)
<1>1. n \in Nat /\ DOMAIN s = 1 .. n
  BY AppendToSequence
<1>2. IsASequence(t) /\ Len(t) = n + 1
  BY AppendToSequence
<1>3. /\ DOMAIN t = 1 .. n + 1 /\ \A i \in 1 .. n : t[i] = s[i]
      /\ t[n + 1] = l
  BY <1>2, AppendToSequence
<1>4. l.op = o /\ l.name = name /\ l.at = at
  BY DEF Line
<1> HIDE DEF l, n, t
<1>5. n + 1 \in DOMAIN t /\ \A i \in DOMAIN t : i \in 1 .. n \/ i = n + 1
  BY <1>1, <1>3
<1>6. \A i \in DOMAIN s : i \in DOMAIN t
  BY <1>1, <1>3
<1> SUFFICES ASSUME NEW op, NEW x
             PROVE  x \in Located(t, op) <=>
                      x \in Located(s, op) \/ (o = op /\ x = <<name, at>>)
  BY DEF Binds, t, l
<1>7. ASSUME x \in Located(t, op) PROVE x \in Located(s, op) \/ (o = op /\ x = <<name, at>>)
  <2>1. PICK i \in DOMAIN t : t[i].op = op /\ x = <<t[i].name, t[i].at>>
    BY <1>7 DEF Located
  <2>2. CASE i \in 1 .. n
    BY <1>1, <1>3, <2>1, <2>2 DEF Located
  <2>3. CASE i = n + 1
    BY <1>3, <1>4, <2>1, <2>3
  <2> QED
    BY <1>5, <2>2, <2>3
<1>8. ASSUME x \in Located(s, op) PROVE x \in Located(t, op)
  <2>1. PICK i \in DOMAIN s : s[i].op = op /\ x = <<s[i].name, s[i].at>>
    BY <1>8 DEF Located
  <2> QED
    BY <1>1, <1>3, <1>6, <2>1 DEF Located
<1>9. ASSUME o = op, x = <<name, at>> PROVE x \in Located(t, op)
  BY <1>3, <1>4, <1>5, <1>9 DEF Located
<1> QED
  BY <1>7, <1>8, <1>9

LEMMA LocatedLocals ==
  ASSUME TypeOK, NEW s, IsASequence(s), NEW t, t = s \o LocalLines, NEW op, op # "local"
  PROVE  \A x : x \in Located(t, op) <=> x \in Located(s, op)
<1> DEFINE n == Len(s)
           m == Len(LocalLines)
<1>1. /\ n \in Nat /\ DOMAIN s = 1 .. n
      /\ m \in Nat /\ DOMAIN t = 1 .. n + m /\ DOMAIN LocalLines = 1 .. m
      /\ \A i \in 1 .. n : t[i] = s[i]
      /\ \A i \in 1 .. m : t[n + i] = LocalLines[i]
  BY LocalLinesAre, ConcatSequences
<1>2. \A i \in 1 .. m : LocalLines[i].op = "local"
  BY <1>1, LocalLinesAre
<1> HIDE DEF n, m
<1>3. \A i \in 1 .. n : i \in 1 .. n + m
  BY <1>1
<1>4. ASSUME NEW i \in 1 .. n + m, i \notin 1 .. n PROVE t[i].op = "local"
  <2>1. i - n \in 1 .. m /\ n + (i - n) = i
    BY <1>1, <1>4
  <2> QED
    BY <1>1, <1>2, <2>1
<1> TAKE x
<1>5. ASSUME x \in Located(t, op) PROVE x \in Located(s, op)
  <2>1. PICK i \in DOMAIN t : t[i].op = op /\ x = <<t[i].name, t[i].at>>
    BY <1>5 DEF Located
  <2>2. i \in 1 .. n
    BY <1>1, <1>4, <2>1
  <2> QED
    BY <1>1, <2>1, <2>2 DEF Located
<1>6. ASSUME x \in Located(s, op) PROVE x \in Located(t, op)
  <2>1. PICK i \in DOMAIN s : s[i].op = op /\ x = <<s[i].name, s[i].at>>
    BY <1>6 DEF Located
  <2> QED
    BY <1>1, <1>3, <2>1 DEF Located
<1> QED
  BY <1>5, <1>6

Places(table, new, y) == \A x : PlacedAt(new, x) <=> PlacedAt(table, x) \/ x = y

LEMMA PlacedAppended ==
  ASSUME NEW S, NEW table \in Seq(S), NEW e
  PROVE  Places(table, Append(table, e), <<e.name, <<e.location>>>>)
<1> DEFINE n == Len(table)
           new == Append(table, e)
<1>1. /\ n \in Nat /\ DOMAIN table = 1 .. n /\ DOMAIN new = 1 .. n + 1
      /\ \A i \in 1 .. n : new[i] = table[i]
      /\ new[n + 1] = e
  BY Appended
<1> HIDE DEF n, new
<1>2. /\ \A i \in 1 .. n + 1 : i \in 1 .. n \/ i = n + 1
      /\ \A i \in 1 .. n : i \in 1 .. n + 1
      /\ n + 1 \in 1 .. n + 1
  BY <1>1
<1>3. \A x : PlacedAt(new, x) <=> PlacedAt(table, x) \/ x = <<e.name, <<e.location>>>>
  BY <1>1, <1>2 DEF PlacedAt
<1> QED
  BY <1>3 DEF Places, new

Reflects(us, new, e) ==
  /\ \A x : HandleAt(new, x) <=>
              HandleAt(us, x) \/ (IsHandleType(e.type.type) /\ x = UniformAt(e))
  /\ \A x : SharedHandleAt(new, x) <=>
              \/ SharedHandleAt(us, x)
              \/ /\ IsHandleType(e.type.type) /\ e.type.type # SubpassInput
                 /\ x = UniformAt(e)
  /\ \A x : BlockMemberAt(new, x) <=>
              BlockMemberAt(us, x) \/ (~ IsHandleType(e.type.type) /\ x = InBlockAt(e))

LEMMA UniformAppended ==
  ASSUME NEW S, NEW us \in Seq(S), NEW e PROVE Reflects(us, Append(us, e), e)
<1> DEFINE n == Len(us)
           new == Append(us, e)
<1>1. /\ n \in Nat /\ DOMAIN us = 1 .. n /\ DOMAIN new = 1 .. n + 1
      /\ \A i \in 1 .. n : new[i] = us[i]
      /\ new[n + 1] = e
  BY Appended
<1> HIDE DEF n, new
<1>2. /\ \A i \in 1 .. n + 1 : i \in 1 .. n \/ i = n + 1
      /\ \A i \in 1 .. n : i \in 1 .. n + 1
      /\ n + 1 \in 1 .. n + 1
  BY <1>1
<1>3. \A x : HandleAt(new, x) <=>
               HandleAt(us, x) \/ (IsHandleType(e.type.type) /\ x = UniformAt(e))
  BY <1>1, <1>2 DEF HandleAt
<1>4. \A x : SharedHandleAt(new, x) <=>
               \/ SharedHandleAt(us, x)
               \/ /\ IsHandleType(e.type.type) /\ e.type.type # SubpassInput
                  /\ x = UniformAt(e)
  BY <1>1, <1>2 DEF SharedHandleAt
<1>5. \A x : BlockMemberAt(new, x) <=>
               BlockMemberAt(us, x) \/ (~ IsHandleType(e.type.type) /\ x = InBlockAt(e))
  BY <1>1, <1>2 DEF BlockMemberAt
<1> QED
  BY <1>3, <1>4, <1>5 DEF Reflects, new

LEMMA PushedAppended ==
  ASSUME NEW S, NEW table \in Seq(S), NEW e
  PROVE  \A x : PushedAt(Append(table, e), x) <=>
                  PushedAt(table, x) \/ x = <<e.name, <<e.offset, e.size>>>>
<1> DEFINE n == Len(table)
           new == Append(table, e)
<1>1. /\ n \in Nat /\ DOMAIN table = 1 .. n /\ DOMAIN new = 1 .. n + 1
      /\ \A i \in 1 .. n : new[i] = table[i]
      /\ new[n + 1] = e
  BY Appended
<1> HIDE DEF n, new
<1>2. /\ \A i \in 1 .. n + 1 : i \in 1 .. n \/ i = n + 1
      /\ \A i \in 1 .. n : i \in 1 .. n + 1
      /\ n + 1 \in 1 .. n + 1
  BY <1>1
<1>3. \A x : PushedAt(new, x) <=> PushedAt(table, x) \/ x = <<e.name, <<e.offset, e.size>>>>
  BY <1>1, <1>2 DEF PushedAt
<1> QED
  BY <1>3 DEF new

LEMMA SpecializedAppended ==
  ASSUME NEW S, NEW table \in Seq(S), NEW e
  PROVE  \A x : SpecializedAt(Append(table, e), x) <=>
                  SpecializedAt(table, x) \/ x = <<e.name, <<e.index>>>>
<1> DEFINE n == Len(table)
           new == Append(table, e)
<1>1. /\ n \in Nat /\ DOMAIN table = 1 .. n /\ DOMAIN new = 1 .. n + 1
      /\ \A i \in 1 .. n : new[i] = table[i]
      /\ new[n + 1] = e
  BY Appended
<1> HIDE DEF n, new
<1>2. /\ \A i \in 1 .. n + 1 : i \in 1 .. n \/ i = n + 1
      /\ \A i \in 1 .. n : i \in 1 .. n + 1
      /\ n + 1 \in 1 .. n + 1
  BY <1>1
<1>3. \A x : SpecializedAt(new, x) <=> SpecializedAt(table, x) \/ x = <<e.name, <<e.index>>>>
  BY <1>1, <1>2 DEF SpecializedAt
<1> QED
  BY <1>3 DEF new

\* A line of kind o, in one stream or in both, changes nothing of the others.
LEMMA LineElsewhere ==
  ASSUME StreamsInv, NEW o, NEW name, NEW at, NEW uses,
         vert_vars' \in {vert_vars, Append(vert_vars, Line(o, name, at, uses))},
         frag_vars' \in {frag_vars, Append(frag_vars, Line(o, name, at, uses))}
  PROVE  \A op : op # o => SameText(op)
<1>1. /\ Binds(vert_vars, Append(vert_vars, Line(o, name, at, uses)), o, <<name, at>>)
      /\ Binds(frag_vars, Append(frag_vars, Line(o, name, at, uses)), o, <<name, at>>)
  BY LocatedAppended DEF StreamsInv
<1> DEFINE v == Append(vert_vars, Line(o, name, at, uses))
           f == Append(frag_vars, Line(o, name, at, uses))
<1>2. vert_vars' = vert_vars \/ vert_vars' = v
  OBVIOUS
<1>3. frag_vars' = frag_vars \/ frag_vars' = f
  OBVIOUS
<1> HIDE DEF v, f
<1>4. Binds(vert_vars, v, o, <<name, at>>) /\ Binds(frag_vars, f, o, <<name, at>>)
  BY <1>1 DEF v, f
<1>5. ASSUME NEW op, op # o, NEW x
      PROVE  /\ x \in Located(vert_vars', op) <=> x \in Located(vert_vars, op)
             /\ x \in Located(frag_vars', op) <=> x \in Located(frag_vars, op)
  BY <1>2, <1>3, <1>4, <1>5 DEF Binds
<1> QED
  BY <1>5 DEF SameText

\* Both streams get the same line.
LEMMA LineInBoth ==
  ASSUME StreamsInv, NEW o, NEW name, NEW at, NEW uses, EmitBoth(Line(o, name, at, uses))
  PROVE  /\ Binds(vert_vars, vert_vars', o, <<name, at>>)
         /\ Binds(frag_vars, frag_vars', o, <<name, at>>)
         /\ \A op : op # o => SameText(op)
<1>1. /\ vert_vars' = Append(vert_vars, Line(o, name, at, uses))
      /\ frag_vars' = Append(frag_vars, Line(o, name, at, uses))
  BY DEF EmitBoth, EmitVert, EmitFrag
<1>2. /\ Binds(vert_vars, vert_vars', o, <<name, at>>)
      /\ Binds(frag_vars, frag_vars', o, <<name, at>>)
  BY <1>1, LocatedAppended DEF StreamsInv
<1> QED
  BY <1>1, <1>2, LineElsewhere

\* The tables of bindings, where a step leaves them alone.
LEMMA TablesAlone ==
  /\ attributes' = attributes => \A x : PlacedAt(attributes', x) <=> PlacedAt(attributes, x)
  /\ outputs' = outputs => \A x : PlacedAt(outputs', x) <=> PlacedAt(outputs, x)
  /\ uniforms' = uniforms =>
       /\ \A x : HandleAt(uniforms', x) <=> HandleAt(uniforms, x)
       /\ \A x : SharedHandleAt(uniforms', x) <=> SharedHandleAt(uniforms, x)
       /\ \A x : BlockMemberAt(uniforms', x) <=> BlockMemberAt(uniforms, x)
  /\ push_constants' = push_constants =>
       \A x : PushedAt(push_constants', x) <=> PushedAt(push_constants, x)
  OBVIOUS

\* The kinds of lines the reflection info is compared with.
Bindings == {"attribute", "output", "handle", "member", "spec_constant"}

LEMMA SameEmission ==
  ASSUME EmissionInv, \A op \in Bindings : SameText(op),
         UNCHANGED <<attributes, outputs, uniforms, push_constants, spec_constants>>
  PROVE  EmissionInv'
<1>1. /\ SameText("attribute") /\ SameText("output") /\ SameText("handle") /\ SameText("member")
      /\ SameText("spec_constant")
  BY DEF Bindings
<1>2. AttributesTold' /\ OutputsTold'
  BY <1>1, TablesAlone, AttributesKept, OutputsKept
<1>3. HandlesTold'
  BY <1>1, TablesAlone, HandlesKept
<1>4. MembersTold'
  BY <1>1, TablesAlone, MembersKept
<1>5. SpecConstantsTold'
  BY <1>1, SpecConstantsKept
<1> QED
  BY <1>2, <1>3, <1>4, <1>5 DEF EmissionInv

LEMMA QuietEmission ==
  ASSUME StreamsInv, EmissionInv,
         \/ Quiet
         \/ \E d \in Decls, flat \in BOOLEAN : LocalStatement(d, flat)
         \/ \E set, binding \in Literals : OpenUniformBlock(set, binding)
         \/ CloseUniformBlock \/ OpenPushBlock \/ ClosePushBlock
         \/ \E d \in Decls, init \in Inits : GlobalConstantStatement(d, init)
  PROVE  EmissionInv'
<1>1. UNCHANGED <<attributes, outputs, uniforms, push_constants, spec_constants>>
  BY DEF Quiet, LocalStatement, OpenUniformBlock, CloseUniformBlock, OpenPushBlock,
         ClosePushBlock, GlobalConstantStatement, reflection
<1>2. \/ UNCHANGED <<vert_vars, frag_vars>>
      \/ \E op, name, at, uses : op \notin Bindings /\ EmitBoth(Line(op, name, at, uses))
  <2>1. CASE Quiet \/ \E d \in Decls, flat \in BOOLEAN : LocalStatement(d, flat)
    BY <2>1 DEF Quiet, LocalStatement
  <2>2. CASE \E set, binding \in Literals : OpenUniformBlock(set, binding)
    BY <2>2 DEF OpenUniformBlock, Bindings
  <2>3. CASE CloseUniformBlock \/ OpenPushBlock \/ ClosePushBlock
    BY <2>3 DEF CloseUniformBlock, OpenPushBlock, ClosePushBlock, Bindings
  <2>4. CASE \E d \in Decls, init \in Inits : GlobalConstantStatement(d, init)
    BY <2>4 DEF GlobalConstantStatement, Bindings
  <2> QED
    BY <2>1, <2>2, <2>3, <2>4
<1>3. \A op \in Bindings : SameText(op)
  <2>1. CASE UNCHANGED <<vert_vars, frag_vars>>
    BY <2>1 DEF SameText
  <2>2. ASSUME NEW o, NEW name, NEW at, NEW uses, o \notin Bindings,
               EmitBoth(Line(o, name, at, uses))
        PROVE  \A op \in Bindings : SameText(op)
    BY <2>2, LineInBoth
  <2> QED
    BY <1>2, <2>1, <2>2
<1> QED
  BY <1>1, <1>3, SameEmission

LEMMA AttributeEmission ==
  ASSUME TypeOK, StreamsInv, EmissionInv, NEW d \in Decls, NEW index \in Literals,
         VertexAttributeStatement(d, index)
  PROVE  EmissionInv'
<1> DEFINE at == <<Uint8(index)>>
<1>1. /\ attributes \in Seq(Attribute) /\ attributes' = Append(attributes, NewAttribute(d, index))
      /\ vert_vars' = Append(vert_vars, Line("attribute", d.name, at, {}))
      /\ UNCHANGED <<outputs, uniforms, push_constants, spec_constants, frag_vars>>
  BY DEF VertexAttributeStatement, EmitVert, TypeOK
<1>2. Places(attributes, attributes', <<d.name, at>>)
  <2> DEFINE new == NewAttribute(d, index)
  <2>1. /\ new.name = d.name /\ <<new.location>> = at
        /\ attributes' = Append(attributes, new)
    BY <1>1 DEF NewAttribute
  <2> HIDE DEF new, at
  <2> QED
    BY <1>1, <2>1, PlacedAppended
<1> HIDE DEF at
<1>3. Binds(vert_vars, vert_vars', "attribute", <<d.name, at>>)
  BY <1>1, LocatedAppended DEF StreamsInv
<1>4. \A op : op # "attribute" => SameText(op)
  BY <1>1, LineElsewhere
<1>5. AttributesTold'
  BY <1>1, <1>2, <1>3, ToldNext DEF EmissionInv, AttributesTold, Binds, Places
<1>6. OutputsTold' /\ HandlesTold'
  BY <1>1, <1>4, TablesAlone, OutputsKept, HandlesKept
<1>7. MembersTold' /\ SpecConstantsTold'
  BY <1>1, <1>4, TablesAlone, MembersKept, SpecConstantsKept
<1> QED
  BY <1>5, <1>6, <1>7 DEF EmissionInv

LEMMA OutputEmission ==
  ASSUME TypeOK, StreamsInv, EmissionInv, NEW d \in Decls, NEW index \in Literals,
         FragmentOutputStatement(d, index)
  PROVE  EmissionInv'
<1> DEFINE at  == <<Uint8(index)>>
           new == [name |-> d.name, type |-> ParsedType(d), location |-> Uint8(index)]
<1>1. /\ outputs \in Seq(Output) /\ outputs' = Append(outputs, new)
      /\ frag_vars' = Append(frag_vars, Line("output", d.name, at, {}))
      /\ UNCHANGED <<attributes, uniforms, push_constants, spec_constants, vert_vars>>
  BY DEF FragmentOutputStatement, EmitFrag, TypeOK
<1>2. new.name = d.name /\ <<new.location>> = at
  OBVIOUS
<1> HIDE DEF at, new
<1>3. Binds(frag_vars, frag_vars', "output", <<d.name, at>>)
  BY <1>1, LocatedAppended DEF StreamsInv
<1>4. Places(outputs, outputs', <<d.name, at>>)
  BY <1>1, <1>2, PlacedAppended
<1>5. \A op : op # "output" => SameText(op)
  BY <1>1, LineElsewhere
<1>6. OutputsTold'
  BY <1>1, <1>3, <1>4, ToldNext DEF EmissionInv, OutputsTold, Binds, Places
<1>7. AttributesTold' /\ HandlesTold'
  BY <1>1, <1>5, TablesAlone, AttributesKept, HandlesKept
<1>8. MembersTold' /\ SpecConstantsTold'
  BY <1>1, <1>5, TablesAlone, MembersKept, SpecConstantsKept
<1> QED
  BY <1>6, <1>7, <1>8 DEF EmissionInv

LEMMA HandleEmission ==
  ASSUME TypeOK, StreamsInv, EmissionInv, NEW d \in Decls, NEW set \in Literals,
         NEW binding \in Literals, HandleUniformStatement(d, set, binding)
  PROVE  EmissionInv'
<1> DEFINE at  == <<Uint8(set), Uint8(binding)>>
           new == NewUniform(d, set, binding, 0, 0, 0)
<1>1. /\ uniforms \in Seq(Uniform) /\ uniforms' = Append(uniforms, new)
      /\ frag_vars' = Append(frag_vars, Line("handle", d.name, at, {}))
      /\ d.prim = SubpassInput => vert_vars' = vert_vars
      /\ d.prim # SubpassInput => vert_vars' = Append(vert_vars, Line("handle", d.name, at, {}))
      /\ UNCHANGED <<attributes, outputs, push_constants, spec_constants>> /\ HandleOK(d)
  BY DEF HandleUniformStatement, EmitVert, EmitFrag, TypeOK
<1>2. UniformAt(new) = <<d.name, at>> /\ new.type.type = d.prim
  BY DEF NewUniform, UniformAt, ParsedType
<1>3. IsHandleType(d.prim)
  BY <1>1 DEF HandleOK, ParsedType
<1> HIDE DEF at, new
<1>4. Binds(frag_vars, frag_vars', "handle", <<d.name, at>>)
  BY <1>1, LocatedAppended DEF StreamsInv
<1>5. \A op : op # "handle" => SameText(op)
  BY <1>1, LineElsewhere
<1>6. \A x : x \in Located(vert_vars', "handle") <=>
               x \in Located(vert_vars, "handle") \/ (d.prim # SubpassInput /\ x = <<d.name, at>>)
  <2>1. CASE d.prim = SubpassInput
    BY <1>1, <2>1
  <2>2. CASE d.prim # SubpassInput
    <3>1. Binds(vert_vars, vert_vars', "handle", <<d.name, at>>)
      BY <1>1, <2>2, LocatedAppended DEF StreamsInv
    <3> QED
      BY <2>2, <3>1 DEF Binds
  <2> QED
    BY <2>1, <2>2
<1>7. Reflects(uniforms, uniforms', new)
  BY <1>1, UniformAppended
<1>8. HandlesTold'
  BY <1>2, <1>3, <1>4, <1>6, <1>7, ToldNext DEF EmissionInv, HandlesTold, Binds, Reflects
<1>9. \A x : BlockMemberAt(uniforms', x) <=> BlockMemberAt(uniforms, x)
  BY <1>2, <1>3, <1>7 DEF Reflects
<1>10. AttributesTold' /\ OutputsTold'
  BY <1>1, <1>5, TablesAlone, AttributesKept, OutputsKept
<1>11. MembersTold' /\ SpecConstantsTold'
  BY <1>1, <1>5, <1>9, TablesAlone, MembersKept, SpecConstantsKept
<1> QED
  BY <1>8, <1>10, <1>11 DEF EmissionInv

LEMMA MemberEmission ==
  ASSUME TypeOK, StreamsInv, EmissionInv, NEW d \in Decls, UniformBlockMember(d)
  PROVE  EmissionInv'
<1> DEFINE at  == <<AlignedOffset(open.offset), ScalarLayoutSize(ParsedType(d))>>
           new == NewUniform(d, open.set, open.binding, open.index,
                             AlignedOffset(open.offset), ScalarLayoutSize(ParsedType(d)))
<1>1. /\ uniforms \in Seq(Uniform) /\ uniforms' = Append(uniforms, new)
      /\ EmitBoth(Line("member", d.name, at, {}))
      /\ UNCHANGED <<attributes, outputs, push_constants, spec_constants>> /\ IsValueType(d.prim)
  BY DEF UniformBlockMember, TypeOK, MemberOK
<1>2. InBlockAt(new) = <<d.name, at>> /\ new.type.type = d.prim
  BY DEF NewUniform, InBlockAt, ParsedType
<1>3. ~ IsHandleType(d.prim)
  <2>1. d.prim \in ValueTypes
    BY <1>1 DEF IsValueType
  <2> HIDE DEF at, new
  <2> QED
    BY <2>1 DEF IsHandleType, Handles, ValueTypes, ScalarOrVector, Matrices, Bool, Mat2, Mat4,
         Tex1D, SubpassInput
<1> HIDE DEF at, new
<1>4. /\ Binds(vert_vars, vert_vars', "member", <<d.name, at>>)
      /\ Binds(frag_vars, frag_vars', "member", <<d.name, at>>)
      /\ \A op : op # "member" => SameText(op)
  BY <1>1, LineInBoth
<1>5. Reflects(uniforms, uniforms', new)
  BY <1>1, UniformAppended
<1>6. /\ \A x : HandleAt(uniforms', x) <=> HandleAt(uniforms, x)
      /\ \A x : SharedHandleAt(uniforms', x) <=> SharedHandleAt(uniforms, x)
      /\ \A x : BlockMemberAt(uniforms', x) <=> BlockMemberAt(uniforms, x) \/ x = <<d.name, at>>
  BY <1>2, <1>3, <1>5 DEF Reflects
<1>7. MembersTold'
  <2>1. \A x : MemberAt(uniforms', push_constants', x) <=>
                 MemberAt(uniforms, push_constants, x) \/ x = <<d.name, at>>
    BY <1>1, <1>6 DEF MemberAt
  <2> QED
    BY <1>4, <2>1, ToldNext DEF EmissionInv, MembersTold, Binds
<1>8. AttributesTold' /\ OutputsTold'
  BY <1>1, <1>4, TablesAlone, AttributesKept, OutputsKept
<1>9. HandlesTold' /\ SpecConstantsTold'
  BY <1>1, <1>4, <1>6, HandlesKept, SpecConstantsKept
<1> QED
  BY <1>7, <1>8, <1>9 DEF EmissionInv

LEMMA PushEmission ==
  ASSUME TypeOK, StreamsInv, EmissionInv, NEW d \in Decls, PushBlockMember(d)
  PROVE  EmissionInv'
<1> DEFINE at  == <<AlignedOffset(open.offset), ScalarLayoutSize(ParsedType(d))>>
           new == [name |-> d.name, type |-> ParsedType(d),
                   offset |-> AlignedOffset(open.offset), size |-> ScalarLayoutSize(ParsedType(d))]
<1>1. /\ push_constants \in Seq(PushConst) /\ push_constants' = Append(push_constants, new)
      /\ EmitBoth(Line("member", d.name, at, {}))
      /\ UNCHANGED <<attributes, outputs, uniforms, spec_constants>>
  BY DEF PushBlockMember, TypeOK
<1>2. new.name = d.name /\ <<new.offset, new.size>> = at
  OBVIOUS
<1> HIDE DEF at, new
<1>3. /\ Binds(vert_vars, vert_vars', "member", <<d.name, at>>)
      /\ Binds(frag_vars, frag_vars', "member", <<d.name, at>>)
      /\ \A op : op # "member" => SameText(op)
  BY <1>1, LineInBoth
<1>4. \A x : PushedAt(push_constants', x) <=> PushedAt(push_constants, x) \/ x = <<d.name, at>>
  BY <1>1, <1>2, PushedAppended
<1>5. MembersTold'
  <2>1. \A x : MemberAt(uniforms', push_constants', x) <=>
                 MemberAt(uniforms, push_constants, x) \/ x = <<d.name, at>>
    BY <1>1, <1>4 DEF MemberAt
  <2> QED
    BY <1>3, <2>1, ToldNext DEF EmissionInv, MembersTold, Binds
<1>6. AttributesTold' /\ OutputsTold'
  BY <1>1, <1>3, TablesAlone, AttributesKept, OutputsKept
<1>7. HandlesTold' /\ SpecConstantsTold'
  BY <1>1, <1>3, TablesAlone, HandlesKept, SpecConstantsKept
<1> QED
  BY <1>5, <1>6, <1>7 DEF EmissionInv

LEMMA SpecConstantEmission ==
  ASSUME TypeOK, StreamsInv, EmissionInv, NEW d \in Decls, NEW index \in Literals,
         NEW init \in Inits, SpecConstantStatement(d, index, init)
  PROVE  EmissionInv'
<1> DEFINE e    == Evaluate(init, ParsedType(d))
           uses == IF RewrittenAsFloat(d, e) THEN {} ELSE Referenced(init)
           new  == [name |-> d.name, type |-> ParsedType(d), index |-> index,
                    size |-> ScalarLayoutSize(ParsedType(d)), default_value |-> e.value]
<1>1. /\ spec_constants \in Seq(SpecConst) /\ spec_constants' = Append(spec_constants, new)
      /\ EmitBoth(Line("spec_constant", d.name, <<index>>, uses))
      /\ UNCHANGED <<attributes, outputs, uniforms, push_constants>>
  BY DEF SpecConstantStatement, TypeOK
<1>2. new.name = d.name /\ new.index = index
  OBVIOUS
<1> HIDE DEF e, uses, new
<1>3. /\ Binds(vert_vars, vert_vars', "spec_constant", <<d.name, <<index>>>>)
      /\ Binds(frag_vars, frag_vars', "spec_constant", <<d.name, <<index>>>>)
      /\ \A op : op # "spec_constant" => SameText(op)
  BY <1>1, LineInBoth
<1>4. \A x : SpecializedAt(spec_constants', x) <=>
               SpecializedAt(spec_constants, x) \/ x = <<d.name, <<index>>>>
  BY <1>1, <1>2, SpecializedAppended
<1>5. SpecConstantsTold'
  BY <1>3, <1>4, ToldNext DEF EmissionInv, SpecConstantsTold, Binds
<1>6. AttributesTold' /\ OutputsTold'
  BY <1>1, <1>3, TablesAlone, AttributesKept, OutputsKept
<1>7. HandlesTold' /\ MembersTold'
  BY <1>1, <1>3, TablesAlone, HandlesKept, MembersKept
<1> QED
  BY <1>5, <1>6, <1>7 DEF EmissionInv

\* The locals come after everything the text binds, and sort() moves the
\* entries of the tables without touching what the text says of them.
LEMMA FinishText ==
  ASSUME TypeOK, StreamsInv, EmitLocals PROVE \A op : op # "local" => SameText(op)
<1>1. vert_vars' = vert_vars \o LocalLines /\ frag_vars' = frag_vars \o LocalLines
  BY DEF EmitLocals
<1> QED
  BY <1>1, LocatedLocals DEF StreamsInv, SameText

LEMMA ReorderedTables ==
  ASSUME NEW s, NEW t, t \in Reorderings(s)
  PROVE  /\ \A x : PlacedAt(t, x) <=> PlacedAt(s, x)
         /\ \A x : PushedAt(t, x) <=> PushedAt(s, x)
         /\ NamesOf(t) = NamesOf(s)
<1>1. DOMAIN t = DOMAIN s
  BY Permuted
<1>2. PICK p : Permutes(p, DOMAIN s) /\ \A i \in DOMAIN s : t[i] = s[p[i]]
  BY Permuted
<1>3. ASSUME NEW i \in DOMAIN t PROVE \E j \in DOMAIN s : t[i] = s[j]
  BY <1>1, <1>2 DEF Permutes
<1>4. ASSUME NEW j \in DOMAIN s PROVE \E i \in DOMAIN t : t[i] = s[j]
  <2>1. PICK i \in DOMAIN s : p[i] = j
    BY <1>2 DEF Permutes
  <2> QED
    BY <1>1, <1>2, <2>1
<1>5. \A x : PlacedAt(t, x) <=> PlacedAt(s, x)
  BY <1>3, <1>4 DEF PlacedAt
<1>6. \A x : PushedAt(t, x) <=> PushedAt(s, x)
  BY <1>3, <1>4 DEF PushedAt
<1>7. NamesOf(t) = NamesOf(s)
  BY <1>3, <1>4 DEF NamesOf
<1> QED
  BY <1>5, <1>6, <1>7

\* What the text says of a uniform.
Likewise(u, v) ==
  /\ u.name = v.name /\ u.type = v.type /\ u.set = v.set /\ u.binding = v.binding
  /\ u.block.offset = v.block.offset /\ u.block.size = v.block.size

LEMMA SortedLikewise ==
  ASSUME TypeOK, Finish
  PROVE  /\ \A i \in DOMAIN uniforms' : \E j \in DOMAIN uniforms : Likewise(uniforms'[i], uniforms[j])
         /\ \A j \in DOMAIN uniforms : \E i \in DOMAIN uniforms' : Likewise(uniforms'[i], uniforms[j])
<1>1. PICK p, q : SortedUniforms(p, q)
  BY FinishSorts
<1> DEFINE D == DOMAIN uniforms
<1>2. /\ DOMAIN uniforms' = D
      /\ \A i \in D : p[i] \in D /\ SameUniform(uniforms'[i], uniforms[p[i]])
      /\ \A j \in D : \E i \in D : p[i] = j
  BY <1>1 DEF SortedUniforms, Permutes
<1> HIDE DEF D
<1>3. \A i \in D : p[i] \in D /\ Likewise(uniforms'[i], uniforms[p[i]])
  BY <1>2 DEF SameUniform, Likewise
<1>4. ASSUME NEW j \in D PROVE \E i \in D : Likewise(uniforms'[i], uniforms[j])
  <2>1. PICK i \in D : p[i] = j
    BY <1>2
  <2> QED
    BY <1>3, <2>1
<1> QED
  BY <1>2, <1>3, <1>4 DEF D

LEMMA FinishEmission ==
  ASSUME TypeOK, StreamsInv, EmissionInv, Finish PROVE EmissionInv'
<1>1. \A op : op # "local" => SameText(op)
  BY FinishText DEF Finish
<1>2. /\ attributes' \in Reorderings(attributes) /\ outputs' \in Reorderings(outputs)
      /\ push_constants' \in Reorderings(push_constants) /\ spec_constants' = spec_constants
  BY DEF Finish, Sort, SortedVersions
<1>3. /\ \A x : PlacedAt(attributes', x) <=> PlacedAt(attributes, x)
      /\ \A x : PlacedAt(outputs', x) <=> PlacedAt(outputs, x)
      /\ \A x : PushedAt(push_constants', x) <=> PushedAt(push_constants, x)
  BY <1>2, ReorderedTables
<1>4. /\ \A i \in DOMAIN uniforms' : \E j \in DOMAIN uniforms : Likewise(uniforms'[i], uniforms[j])
      /\ \A j \in DOMAIN uniforms : \E i \in DOMAIN uniforms' : Likewise(uniforms'[i], uniforms[j])
  BY SortedLikewise
<1>5. \A u, v : Likewise(u, v) => /\ u.type = v.type
                                  /\ UniformAt(u) = UniformAt(v) /\ InBlockAt(u) = InBlockAt(v)
  BY DEF Likewise, UniformAt, InBlockAt
<1>6. \A x : HandleAt(uniforms', x) <=> HandleAt(uniforms, x)
  BY <1>4, <1>5 DEF HandleAt
<1>7. \A x : SharedHandleAt(uniforms', x) <=> SharedHandleAt(uniforms, x)
  BY <1>4, <1>5 DEF SharedHandleAt
<1>8. \A x : BlockMemberAt(uniforms', x) <=> BlockMemberAt(uniforms, x)
  BY <1>4, <1>5 DEF BlockMemberAt
<1>9. AttributesTold' /\ OutputsTold'
  BY <1>1, <1>3, AttributesKept, OutputsKept
<1>10. HandlesTold' /\ MembersTold'
  BY <1>1, <1>3, <1>6, <1>7, <1>8, HandlesKept, MembersKept
<1>11. SpecConstantsTold'
  BY <1>1, <1>2, SpecConstantsKept
<1> QED
  BY <1>9, <1>10, <1>11 DEF EmissionInv

LEMMA FinishWithoutStageEmission ==
  ASSUME TypeOK, StreamsInv, EmissionInv, FinishWithoutStage PROVE EmissionInv'
<1>1. \A op \in Bindings : SameText(op)
  <2>1. \A op \in Bindings : op # "local"
    BY DEF Bindings
  <2> QED
    BY <2>1, FinishText DEF FinishWithoutStage
<1>2. UNCHANGED <<attributes, outputs, uniforms, push_constants, spec_constants>>
  BY DEF FinishWithoutStage, reflection
<1> QED
  BY <1>1, <1>2, SameEmission

LEMMA EmissionInductive == Spec => []EmissionInv
<1>1. Init => EmissionInv
  BY DEF Init, EmissionInv, AttributesTold, OutputsTold, HandlesTold, MembersTold,
         SpecConstantsTold, Located, PlacedAt, HandleAt, SharedHandleAt, MemberAt, BlockMemberAt,
         PushedAt, SpecializedAt
<1>2. TypeOK /\ StreamsInv /\ EmissionInv /\ [Next]_vars => EmissionInv'
  <2> SUFFICES ASSUME TypeOK, StreamsInv, EmissionInv, [Next]_vars PROVE EmissionInv'
    OBVIOUS
  <2>1. CASE \/ Quiet
             \/ \E d \in Decls, flat \in BOOLEAN : LocalStatement(d, flat)
             \/ \E set, binding \in Literals : OpenUniformBlock(set, binding)
             \/ CloseUniformBlock \/ OpenPushBlock \/ ClosePushBlock
             \/ \E d \in Decls, init \in Inits : GlobalConstantStatement(d, init)
    BY <2>1, QuietEmission
  <2>2. CASE \E d \in Decls, index \in Literals : VertexAttributeStatement(d, index)
    BY <2>2, AttributeEmission
  <2>3. CASE \E d \in Decls, index \in Literals : FragmentOutputStatement(d, index)
    BY <2>3, OutputEmission
  <2>4. CASE \E d \in Decls, set, binding \in Literals : HandleUniformStatement(d, set, binding)
    BY <2>4, HandleEmission
  <2>5. CASE \E d \in Decls, init \in Inits, index \in Literals :
               SpecConstantStatement(d, index, init)
    BY <2>5, SpecConstantEmission
  <2>6. CASE \E d \in Decls : UniformBlockMember(d)
    BY <2>6, MemberEmission
  <2>7. CASE \E d \in Decls : PushBlockMember(d)
    BY <2>7, PushEmission
  <2>8. CASE Finish
    BY <2>8, FinishEmission
  <2>9. CASE FinishWithoutStage
    BY <2>9, FinishWithoutStageEmission
  <2> QED
    BY <2>1, <2>2, <2>3, <2>4, <2>5, <2>6, <2>7, <2>8, <2>9, StepKinds
<1> QED
  BY <1>1, <1>2, StreamsInductive, TypeCorrect, PTL DEF Spec

-----------------------------------------------------------------------------
(* The headers the members of a stream stand under. *)

HeadedAt(s, i, us, ps) ==
  \E j \in 1 .. i - 1 : /\ \A k \in j + 1 .. i : s[k].op = "member"
                        /\ Belongs(s[i], s[j], us, ps)

\* Larger tables, or the same in another order, name at least as many members.
Widened(us, ps, vs, qs) == \A l, h : Belongs(l, h, us, ps) => Belongs(l, h, vs, qs)

\* A stream that continues another keeps the headers of the lines it had.
LEMMA HeadersContinue ==
  ASSUME NEW s, NEW t, NEW n \in Nat, NEW m \in Nat, n <= m,
         DOMAIN s = 1 .. n, DOMAIN t = 1 .. m, \A i \in 1 .. n : t[i] = s[i],
         NEW us, NEW ps, NEW vs, NEW qs, MembersHeaded(s, us, ps), Widened(us, ps, vs, qs),
         \A i \in 1 .. m : i \notin 1 .. n /\ t[i].op = "member" => HeadedAt(t, i, vs, qs)
  PROVE  MembersHeaded(t, vs, qs)
<1>1. ASSUME NEW i \in 1 .. n, t[i].op = "member" PROVE HeadedAt(t, i, vs, qs)
  <2>1. i \in DOMAIN s /\ s[i].op = "member"
    BY <1>1
  <2>2. PICK j \in 1 .. i - 1 : /\ \A k \in j + 1 .. i : s[k].op = "member"
                                /\ Belongs(s[i], s[j], us, ps)
    BY <2>1 DEF MembersHeaded
  <2>3. j \in 1 .. n /\ \A k \in j + 1 .. i : k \in 1 .. n
    OBVIOUS
  <2>4. /\ \A k \in j + 1 .. i : t[k].op = "member"
        /\ Belongs(t[i], t[j], vs, qs)
    BY <2>2, <2>3 DEF Widened
  <2> QED
    BY <2>4 DEF HeadedAt
<1>2. \A i \in DOMAIN t : t[i].op = "member" => HeadedAt(t, i, vs, qs)
  BY <1>1
<1> QED
  BY <1>2 DEF MembersHeaded, HeadedAt

LEMMA HeaderLine ==
  ASSUME NEW s, IsASequence(s), NEW o, o # "member", NEW name, NEW at, NEW uses,
         NEW us, NEW ps, NEW vs, NEW qs, MembersHeaded(s, us, ps), Widened(us, ps, vs, qs)
  PROVE  /\ MembersHeaded(Append(s, Line(o, name, at, uses)), vs, qs)
         /\ OpenHeader(Append(s, Line(o, name, at, uses)), o, at)
<1> DEFINE l == Line(o, name, at, uses)
           t == Append(s, l)
           n == Len(s)
<1>1. n \in Nat /\ DOMAIN s = 1 .. n
  BY AppendToSequence
<1>2. IsASequence(t) /\ Len(t) = n + 1
  BY AppendToSequence
<1>3. DOMAIN t = 1 .. n + 1 /\ (\A i \in 1 .. n : t[i] = s[i]) /\ t[n + 1] = l
  BY <1>2, AppendToSequence
<1>4. l.op = o /\ l.at = at
  BY DEF Line
<1> HIDE DEF l, t, n
<1>5. \A i \in 1 .. n + 1 : i \notin 1 .. n => i = n + 1
  BY <1>1
<1>6. \A i \in 1 .. n + 1 : i \notin 1 .. n /\ t[i].op = "member" => HeadedAt(t, i, vs, qs)
  BY <1>3, <1>4, <1>5
<1>7. MembersHeaded(t, vs, qs)
  <2>1. n + 1 \in Nat /\ n <= n + 1
    BY <1>1
  <2> QED
    BY <1>1, <1>3, <1>6, <2>1, HeadersContinue
<1>8. OpenHeader(t, o, at)
  <2>1. n + 1 \in DOMAIN t /\ \A k \in n + 1 + 1 .. Len(t) : FALSE
    BY <1>1, <1>2, <1>3
  <2> QED
    BY <1>3, <1>4, <2>1 DEF OpenHeader
<1> QED
  BY <1>7, <1>8 DEF t, l

LEMMA MemberLine ==
  ASSUME NEW s, IsASequence(s), NEW o, NEW at, OpenHeader(s, o, at),
         NEW name, NEW place, NEW us, NEW ps, NEW vs, NEW qs,
         MembersHeaded(s, us, ps), Widened(us, ps, vs, qs),
         \A l, h : l.name = name /\ h.op = o /\ h.at = at => Belongs(l, h, vs, qs)
  PROVE  /\ MembersHeaded(Append(s, Line("member", name, place, {})), vs, qs)
         /\ OpenHeader(Append(s, Line("member", name, place, {})), o, at)
<1> DEFINE l == Line("member", name, place, {})
           t == Append(s, l)
           n == Len(s)
<1>1. n \in Nat /\ DOMAIN s = 1 .. n
  BY AppendToSequence
<1>2. IsASequence(t) /\ Len(t) = n + 1
  BY AppendToSequence
<1>3. DOMAIN t = 1 .. n + 1 /\ (\A i \in 1 .. n : t[i] = s[i]) /\ t[n + 1] = l
  BY <1>2, AppendToSequence
<1>4. l.op = "member" /\ l.name = name
  BY DEF Line
<1>5. PICK j \in 1 .. n : /\ s[j].op = o /\ s[j].at = at
                          /\ \A k \in j + 1 .. n : s[k].op = "member"
  BY <1>1 DEF OpenHeader
<1> HIDE DEF l, t, n
<1>6. /\ t[j].op = o /\ t[j].at = at
      /\ \A k \in j + 1 .. n + 1 : t[k].op = "member"
  <2>1. \A k \in j + 1 .. n + 1 : (k \in 1 .. n /\ k \in j + 1 .. n) \/ k = n + 1
    BY <1>1
  <2> QED
    BY <1>3, <1>4, <1>5, <2>1
<1>7. HeadedAt(t, n + 1, vs, qs)
  <2>1. j \in 1 .. (n + 1) - 1
    BY <1>1
  <2>2. Belongs(t[n + 1], t[j], vs, qs)
    BY <1>3, <1>4, <1>6
  <2> QED
    BY <1>6, <2>1, <2>2 DEF HeadedAt
<1>8. \A i \in 1 .. n + 1 : i \notin 1 .. n /\ t[i].op = "member" => HeadedAt(t, i, vs, qs)
  <2>1. \A i \in 1 .. n + 1 : i \notin 1 .. n => i = n + 1
    BY <1>1
  <2> QED
    BY <1>7, <2>1
<1>9. MembersHeaded(t, vs, qs)
  <2>1. n + 1 \in Nat /\ n <= n + 1
    BY <1>1
  <2> QED
    BY <1>1, <1>3, <1>8, <2>1, HeadersContinue
<1>10. OpenHeader(t, o, at)
  <2>1. j \in DOMAIN t
    BY <1>1, <1>3
  <2> QED
    BY <1>2, <1>6, <2>1 DEF OpenHeader
<1> QED
  BY <1>9, <1>10 DEF t, l

LEMMA LocalsUnheaded ==
  ASSUME TypeOK, NEW s, IsASequence(s), NEW us, NEW ps, NEW vs, NEW qs,
         MembersHeaded(s, us, ps), Widened(us, ps, vs, qs)
  PROVE  MembersHeaded(s \o LocalLines, vs, qs)
<1> DEFINE n == Len(s)
           m == Len(LocalLines)
           t == s \o LocalLines
<1>1. /\ n \in Nat /\ DOMAIN s = 1 .. n
      /\ m \in Nat /\ DOMAIN t = 1 .. n + m /\ DOMAIN LocalLines = 1 .. m
      /\ \A i \in 1 .. n : t[i] = s[i]
      /\ \A i \in 1 .. m : t[n + i] = LocalLines[i]
  BY LocalLinesAre, ConcatSequences
<1>2. \A i \in 1 .. m : LocalLines[i].op = "local"
  BY <1>1, LocalLinesAre
<1> HIDE DEF n, m, t
<1>3. ASSUME NEW i \in 1 .. n + m, i \notin 1 .. n PROVE t[i].op = "local"
  <2>1. i - n \in 1 .. m /\ n + (i - n) = i
    BY <1>1, <1>3
  <2> QED
    BY <1>1, <1>2, <2>1
<1>4. n + m \in Nat /\ n <= n + m
  BY <1>1
<1>5. MembersHeaded(t, vs, qs)
  BY <1>1, <1>3, <1>4, HeadersContinue
<1> QED
  BY <1>5 DEF t

LEMMA HeadersNext ==
  HeadersInv' <=>
    /\ MembersHeaded(vert_vars', uniforms', push_constants')
    /\ MembersHeaded(frag_vars', uniforms', push_constants')
    /\ status' = "block" =>
         /\ OpenHeader(vert_vars', "block_header", <<open'.set, open'.binding>>)
         /\ OpenHeader(frag_vars', "block_header", <<open'.set, open'.binding>>)
    /\ status' = "push" =>
         /\ OpenHeader(vert_vars', "push_header", <<>>)
         /\ OpenHeader(frag_vars', "push_header", <<>>)
  BY DEF HeadersInv, MembersHeaded, Belongs, NamesOf, OpenHeader

\* What a step does to the tables the members are in.
Widens == Widened(uniforms, push_constants, uniforms', push_constants')

LEMMA TablesWiden ==
  ASSUME TypeOK,
         uniforms' = uniforms \/ \E u : uniforms' = Append(uniforms, u),
         push_constants' = push_constants \/ \E u : push_constants' = Append(push_constants, u)
  PROVE  Widens
<1>1. ASSUME NEW i \in DOMAIN uniforms
      PROVE  i \in DOMAIN uniforms' /\ uniforms'[i] = uniforms[i]
  <2>1. CASE uniforms' = uniforms
    BY <2>1
  <2>2. ASSUME NEW u, uniforms' = Append(uniforms, u)
        PROVE  i \in DOMAIN uniforms' /\ uniforms'[i] = uniforms[i]
    <3>1. uniforms \in Seq(Uniform)
      BY DEF TypeOK
    <3> QED
      BY <2>2, <3>1, Appended
  <2> QED
    BY <2>1, <2>2
<1>2. ASSUME NEW i \in DOMAIN push_constants
      PROVE  i \in DOMAIN push_constants' /\ push_constants'[i] = push_constants[i]
  <2>1. CASE push_constants' = push_constants
    BY <2>1
  <2>2. ASSUME NEW u, push_constants' = Append(push_constants, u)
        PROVE  i \in DOMAIN push_constants' /\ push_constants'[i] = push_constants[i]
    <3>1. push_constants \in Seq(PushConst)
      BY DEF TypeOK
    <3> QED
      BY <2>2, <3>1, Appended
  <2> QED
    BY <2>1, <2>2
<1>3. \A n : n \in NamesOf(push_constants) => n \in NamesOf(push_constants')
  BY <1>2 DEF NamesOf
<1>4. ASSUME NEW l, NEW h, Belongs(l, h, uniforms, push_constants)
      PROVE  Belongs(l, h, uniforms', push_constants')
  BY <1>1, <1>3, <1>4 DEF Belongs
<1> QED
  BY <1>4 DEF Widens, Widened

\* Outside the blocks a step adds at most a line that is no member.
LEMMA PlainLines ==
  ASSUME StreamsInv, HeadersInv, Widens, status' \notin {"block", "push"},
         NEW o, o # "member", NEW name, NEW at, NEW uses,
         vert_vars' \in {vert_vars, Append(vert_vars, Line(o, name, at, uses))},
         frag_vars' \in {frag_vars, Append(frag_vars, Line(o, name, at, uses))}
  PROVE  HeadersInv'
<1> DEFINE Us == uniforms'
           Ps == push_constants'
<1>1. ASSUME NEW s, IsASequence(s), MembersHeaded(s, uniforms, push_constants)
      PROVE  /\ MembersHeaded(s, Us, Ps)
             /\ MembersHeaded(Append(s, Line(o, name, at, uses)), Us, Ps)
  <2>1. Widened(uniforms, push_constants, Us, Ps)
    BY DEF Widens
  <2>2. MembersHeaded(s, Us, Ps)
    BY <1>1, <2>1 DEF MembersHeaded, Widened
  <2> HIDE DEF Us, Ps
  <2> QED
    BY <1>1, <2>1, <2>2, HeaderLine
<1>2. MembersHeaded(vert_vars', Us, Ps) /\ MembersHeaded(frag_vars', Us, Ps)
  <2>1. /\ IsASequence(vert_vars) /\ MembersHeaded(vert_vars, uniforms, push_constants)
        /\ IsASequence(frag_vars) /\ MembersHeaded(frag_vars, uniforms, push_constants)
    BY DEF StreamsInv, HeadersInv
  <2> QED
    BY <1>1, <2>1
<1> QED
  BY <1>2, HeadersNext

LEMMA OutsideBlocks ==
  ASSUME TypeOK, StreamsInv, HeadersInv,
         \/ \E d \in Decls, index \in Literals :
              VertexAttributeStatement(d, index) \/ FragmentOutputStatement(d, index)
         \/ \E d \in Decls, flat \in BOOLEAN : LocalStatement(d, flat)
         \/ \E d \in Decls, set, binding \in Literals : HandleUniformStatement(d, set, binding)
         \/ CloseUniformBlock \/ ClosePushBlock
         \/ \E d \in Decls, init \in Inits :
              \/ GlobalConstantStatement(d, init)
              \/ \E index \in Literals : SpecConstantStatement(d, index, init)
  PROVE  HeadersInv'
<1> DEFINE Emits(o, name, at, uses) ==
             /\ o # "member"
             /\ vert_vars' \in {vert_vars, Append(vert_vars, Line(o, name, at, uses))}
             /\ frag_vars' \in {frag_vars, Append(frag_vars, Line(o, name, at, uses))}
           Outside == /\ status' \notin {"block", "push"} /\ push_constants' = push_constants
                      /\ uniforms' = uniforms \/ \E u : uniforms' = Append(uniforms, u)
                      /\ \E o, name, at, uses : Emits(o, name, at, uses)
<1>1. ASSUME Outside PROVE HeadersInv'
  <2>1. Widens
    BY <1>1, TablesWiden
  <2>2. PICK o, name, at, uses : Emits(o, name, at, uses)
    BY <1>1
  <2>3. status' \notin {"block", "push"}
    BY <1>1
  <2> HIDE DEF Outside
  <2> QED
    BY <2>1, <2>2, <2>3, PlainLines
<1>2. ASSUME NEW d \in Decls, NEW index \in Literals, VertexAttributeStatement(d, index)
      PROVE  Outside
  <2>1. Emits("attribute", d.name, <<Uint8(index)>>, {})
    BY <1>2 DEF VertexAttributeStatement, EmitVert
  <2> HIDE DEF Emits
  <2> QED
    BY <1>2, <2>1 DEF VertexAttributeStatement
<1>3. ASSUME NEW d \in Decls, NEW index \in Literals, FragmentOutputStatement(d, index)
      PROVE  Outside
  <2>1. Emits("output", d.name, <<Uint8(index)>>, {})
    BY <1>3 DEF FragmentOutputStatement, EmitFrag
  <2> HIDE DEF Emits
  <2> QED
    BY <1>3, <2>1 DEF FragmentOutputStatement
<1>4. ASSUME NEW d \in Decls, NEW flat \in BOOLEAN, LocalStatement(d, flat) PROVE Outside
  <2>1. Emits("local", d.name, <<>>, {})
    BY <1>4 DEF LocalStatement
  <2> HIDE DEF Emits
  <2> QED
    BY <1>4, <2>1 DEF LocalStatement, reflection
<1>5. ASSUME NEW d \in Decls, NEW set \in Literals, NEW binding \in Literals,
             HandleUniformStatement(d, set, binding)
      PROVE  Outside
  <2>1. Emits("handle", d.name, <<Uint8(set), Uint8(binding)>>, {})
    BY <1>5 DEF HandleUniformStatement, EmitVert, EmitFrag
  <2> HIDE DEF Emits
  <2> QED
    BY <1>5, <2>1 DEF HandleUniformStatement
<1>6. ASSUME CloseUniformBlock \/ ClosePushBlock PROVE Outside
  <2>1. Emits("block_close", NoName, <<>>, {})
    BY <1>6 DEF CloseUniformBlock, ClosePushBlock, EmitBoth, EmitVert, EmitFrag
  <2> HIDE DEF Emits
  <2> QED
    BY <1>6, <2>1 DEF CloseUniformBlock, ClosePushBlock
<1>7. ASSUME NEW d \in Decls, NEW init \in Inits, GlobalConstantStatement(d, init) PROVE Outside
  <2>1. Emits("global_constant", d.name, <<>>, Referenced(init))
    BY <1>7 DEF GlobalConstantStatement, EmitBoth, EmitVert, EmitFrag
  <2> HIDE DEF Emits
  <2> QED
    BY <1>7, <2>1 DEF GlobalConstantStatement, reflection
<1>8. ASSUME NEW d \in Decls, NEW init \in Inits, NEW index \in Literals,
             SpecConstantStatement(d, index, init)
      PROVE  Outside
  <2>1. \E uses : Emits("spec_constant", d.name, <<index>>, uses)
    BY <1>8 DEF SpecConstantStatement, EmitBoth, EmitVert, EmitFrag
  <2> HIDE DEF Emits
  <2> QED
    BY <1>8, <2>1 DEF SpecConstantStatement
<1> HIDE DEF Outside
<1> QED
  BY <1>1, <1>2, <1>3, <1>4, <1>5, <1>6, <1>7, <1>8

\* Opening a block puts its header last in both streams.
LEMMA OpeningBlocks ==
  ASSUME StreamsInv, HeadersInv, NEW o \in {"block_header", "push_header"}, NEW at,
         EmitBoth(Line(o, NoName, at, {})), UNCHANGED <<uniforms, push_constants>>,
         status' = "block" => o = "block_header" /\ at = <<open'.set, open'.binding>>,
         status' = "push" => o = "push_header" /\ at = <<>>
  PROVE  HeadersInv'
<1>1. ASSUME NEW s, IsASequence(s), MembersHeaded(s, uniforms, push_constants)
      PROVE  /\ MembersHeaded(Append(s, Line(o, NoName, at, {})), uniforms, push_constants)
             /\ OpenHeader(Append(s, Line(o, NoName, at, {})), o, at)
  <2>1. Widened(uniforms, push_constants, uniforms, push_constants)
    BY DEF Widened
  <2>2. o # "member"
    OBVIOUS
  <2> QED
    BY <1>1, <2>1, <2>2, HeaderLine
<1>2. /\ vert_vars' = Append(vert_vars, Line(o, NoName, at, {}))
      /\ frag_vars' = Append(frag_vars, Line(o, NoName, at, {}))
  BY DEF EmitBoth, EmitVert, EmitFrag
<1>3. /\ MembersHeaded(vert_vars', uniforms', push_constants') /\ OpenHeader(vert_vars', o, at)
      /\ MembersHeaded(frag_vars', uniforms', push_constants') /\ OpenHeader(frag_vars', o, at)
  <2>1. /\ IsASequence(vert_vars) /\ MembersHeaded(vert_vars, uniforms, push_constants)
        /\ IsASequence(frag_vars) /\ MembersHeaded(frag_vars, uniforms, push_constants)
    BY DEF StreamsInv, HeadersInv
  <2> QED
    BY <1>1, <1>2, <2>1
<1> QED
  BY <1>3, HeadersNext

\* A member follows the header of its block.
LEMMA MemberLines ==
  ASSUME StreamsInv, Widens, NEW o, NEW at, NEW name, NEW place,
         OpenHeader(vert_vars, o, at), OpenHeader(frag_vars, o, at), HeadersInv,
         EmitBoth(Line("member", name, place, {})),
         \A l, h : l.name = name /\ h.op = o /\ h.at = at =>
                     Belongs(l, h, uniforms', push_constants')
  PROVE  /\ MembersHeaded(vert_vars', uniforms', push_constants') /\ OpenHeader(vert_vars', o, at)
         /\ MembersHeaded(frag_vars', uniforms', push_constants') /\ OpenHeader(frag_vars', o, at)
<1> DEFINE Us == uniforms'
           Ps == push_constants'
<1>1. /\ vert_vars' = Append(vert_vars, Line("member", name, place, {}))
      /\ frag_vars' = Append(frag_vars, Line("member", name, place, {}))
  BY DEF EmitBoth, EmitVert, EmitFrag
<1>2. /\ IsASequence(vert_vars) /\ MembersHeaded(vert_vars, uniforms, push_constants)
      /\ IsASequence(frag_vars) /\ MembersHeaded(frag_vars, uniforms, push_constants)
  BY DEF StreamsInv, HeadersInv
<1>3. /\ Widened(uniforms, push_constants, Us, Ps)
      /\ \A l, h : l.name = name /\ h.op = o /\ h.at = at => Belongs(l, h, Us, Ps)
  BY DEF Widens
<1> HIDE DEF Us, Ps
<1>4. ASSUME NEW s, IsASequence(s), OpenHeader(s, o, at),
             MembersHeaded(s, uniforms, push_constants)
      PROVE  /\ MembersHeaded(Append(s, Line("member", name, place, {})), Us, Ps)
             /\ OpenHeader(Append(s, Line("member", name, place, {})), o, at)
  BY <1>3, <1>4, MemberLine
<1>5. /\ MembersHeaded(vert_vars', Us, Ps) /\ OpenHeader(vert_vars', o, at)
      /\ MembersHeaded(frag_vars', Us, Ps) /\ OpenHeader(frag_vars', o, at)
  BY <1>1, <1>2, <1>4
<1> QED
  BY <1>5 DEF Us, Ps

\* A member is at the location its block's header names; with the location
\* inside the limits, cutting it to 8 bits changes nothing.
LEMMA BlockMemberHeaded ==
  ASSUME TypeOK, StreamsInv, LocationsInv, HeadersInv, NEW d \in Decls, UniformBlockMember(d)
  PROVE  HeadersInv'
<1> DEFINE at    == <<open.set, open.binding>>
           place == <<AlignedOffset(open.offset), ScalarLayoutSize(ParsedType(d))>>
           new   == NewUniform(d, open.set, open.binding, open.index,
                               AlignedOffset(open.offset), ScalarLayoutSize(ParsedType(d)))
<1>1. /\ uniforms \in Seq(Uniform) /\ uniforms' = Append(uniforms, new)
      /\ push_constants' = push_constants /\ status = "block" /\ status' = "block"
      /\ EmitBoth(Line("member", d.name, place, {}))
      /\ <<open'.set, open'.binding>> = at
  BY DEF UniformBlockMember, TypeOK, Extended, OpenBlock
<1>2. new.name = d.name /\ <<new.set, new.binding>> = at
  BY <1>1, Uint8Small DEF LocationsInv, BlocksApart, NewUniform
<1> HIDE DEF new, place
<1>3. \E u \in DOMAIN uniforms' : uniforms'[u] = new
  <2> DEFINE n == Len(uniforms)
  <2>1. /\ n \in Nat /\ DOMAIN uniforms' = 1 .. n + 1
        /\ uniforms'[n + 1] = new
    BY <1>1, Appended
  <2> HIDE DEF n
  <2> QED
    BY <2>1
<1>4. ASSUME NEW l, NEW h, l.name = d.name, h.op = "block_header", h.at = at
      PROVE  Belongs(l, h, uniforms', push_constants')
  BY <1>2, <1>3, <1>4 DEF Belongs
<1>5. Widens
  BY <1>1, TablesWiden
<1>6. OpenHeader(vert_vars, "block_header", at) /\ OpenHeader(frag_vars, "block_header", at)
  BY <1>1 DEF HeadersInv
<1> HIDE DEF at
<1>7. /\ MembersHeaded(vert_vars', uniforms', push_constants')
      /\ OpenHeader(vert_vars', "block_header", at)
      /\ MembersHeaded(frag_vars', uniforms', push_constants')
      /\ OpenHeader(frag_vars', "block_header", at)
  BY <1>1, <1>4, <1>5, <1>6, MemberLines
<1> QED
  BY <1>1, <1>7, HeadersNext

LEMMA PushMemberHeaded ==
  ASSUME TypeOK, StreamsInv, HeadersInv, NEW d \in Decls, PushBlockMember(d)
  PROVE  HeadersInv'
<1> DEFINE place == <<AlignedOffset(open.offset), ScalarLayoutSize(ParsedType(d))>>
           new   == [name |-> d.name, type |-> ParsedType(d),
                     offset |-> AlignedOffset(open.offset),
                     size |-> ScalarLayoutSize(ParsedType(d))]
<1>1. /\ push_constants \in Seq(PushConst) /\ push_constants' = Append(push_constants, new)
      /\ uniforms' = uniforms /\ status = "push" /\ status' = "push"
      /\ EmitBoth(Line("member", d.name, place, {}))
  BY DEF PushBlockMember, TypeOK
<1>2. new.name = d.name
  OBVIOUS
<1> HIDE DEF new, place
<1>3. d.name \in NamesOf(push_constants')
  <2> DEFINE n == Len(push_constants)
  <2>1. /\ n \in Nat /\ DOMAIN push_constants' = 1 .. n + 1
        /\ push_constants'[n + 1] = new
    BY <1>1, Appended
  <2> HIDE DEF n
  <2> QED
    BY <1>2, <2>1 DEF NamesOf
<1>4. ASSUME NEW l, NEW h, l.name = d.name, h.op = "push_header", h.at = <<>>
      PROVE  Belongs(l, h, uniforms', push_constants')
  BY <1>3, <1>4 DEF Belongs
<1>5. Widens
  BY <1>1, TablesWiden
<1>6. OpenHeader(vert_vars, "push_header", <<>>) /\ OpenHeader(frag_vars, "push_header", <<>>)
  BY <1>1 DEF HeadersInv
<1>7. /\ MembersHeaded(vert_vars', uniforms', push_constants')
      /\ OpenHeader(vert_vars', "push_header", <<>>)
      /\ MembersHeaded(frag_vars', uniforms', push_constants')
      /\ OpenHeader(frag_vars', "push_header", <<>>)
  BY <1>1, <1>4, <1>5, <1>6, MemberLines
<1> QED
  BY <1>1, <1>7, HeadersNext

LEMMA EndHeaded ==
  ASSUME TypeOK, StreamsInv, HeadersInv, Finish \/ FinishWithoutStage PROVE HeadersInv'
<1>1. Widens
  <2>1. CASE Finish
    <3>1. NamesOf(push_constants') = NamesOf(push_constants)
      BY <2>1, ReorderedTables DEF Finish, Sort, SortedVersions
    <3>2. \A j \in DOMAIN uniforms : \E i \in DOMAIN uniforms' : Likewise(uniforms'[i], uniforms[j])
      BY <2>1, SortedLikewise
    <3>3. ASSUME NEW l, NEW h, Belongs(l, h, uniforms, push_constants)
          PROVE  Belongs(l, h, uniforms', push_constants')
      BY <3>1, <3>2, <3>3 DEF Belongs, Likewise
    <3> QED
      BY <3>3 DEF Widens, Widened
  <2>2. CASE FinishWithoutStage
    BY <2>2 DEF FinishWithoutStage, reflection, Widens, Widened
  <2> QED
    BY <2>1, <2>2
<1>2. /\ vert_vars' = vert_vars \o LocalLines /\ frag_vars' = frag_vars \o LocalLines
      /\ status' \notin {"block", "push"}
  BY DEF Finish, FinishWithoutStage, EmitLocals
<1> DEFINE Us == uniforms'
           Ps == push_constants'
<1>3. Widened(uniforms, push_constants, Us, Ps)
  BY <1>1 DEF Widens
<1>4. /\ IsASequence(vert_vars) /\ MembersHeaded(vert_vars, uniforms, push_constants)
      /\ IsASequence(frag_vars) /\ MembersHeaded(frag_vars, uniforms, push_constants)
  BY DEF StreamsInv, HeadersInv
<1> HIDE DEF Us, Ps
<1>5. MembersHeaded(vert_vars \o LocalLines, Us, Ps) /\ MembersHeaded(frag_vars \o LocalLines, Us, Ps)
  BY <1>3, <1>4, LocalsUnheaded
<1>6. MembersHeaded(vert_vars', uniforms', push_constants')
      /\ MembersHeaded(frag_vars', uniforms', push_constants')
  BY <1>2, <1>5 DEF Us, Ps
<1> QED
  BY <1>2, <1>6, HeadersNext

LEMMA HeadersInductive == NarrowLimits => (Spec => []HeadersInv)
<1> SUFFICES ASSUME NarrowLimits PROVE Spec => []HeadersInv
  OBVIOUS
<1>1. Init => HeadersInv
  BY DEF Init, HeadersInv, MembersHeaded
<1>2. TypeOK /\ StreamsInv /\ LocationsInv /\ HeadersInv /\ [Next]_vars => HeadersInv'
  <2> SUFFICES ASSUME TypeOK, StreamsInv, LocationsInv, HeadersInv, [Next]_vars
               PROVE  HeadersInv'
    OBVIOUS
  <2>1. CASE Quiet
    BY <2>1, HeadersNext DEF Quiet, HeadersInv
  <2>2. CASE \E d \in Decls, index \in Literals :
               VertexAttributeStatement(d, index) \/ FragmentOutputStatement(d, index)
    BY <2>2, OutsideBlocks
  <2>3. CASE \/ \E d \in Decls, flat \in BOOLEAN : LocalStatement(d, flat)
             \/ \E d \in Decls, set, binding \in Literals : HandleUniformStatement(d, set, binding)
             \/ CloseUniformBlock \/ ClosePushBlock
    BY <2>3, OutsideBlocks
  <2>4. CASE \E d \in Decls, init \in Inits :
               \/ GlobalConstantStatement(d, init)
               \/ \E index \in Literals : SpecConstantStatement(d, index, init)
    BY <2>4, OutsideBlocks
  <2>5. ASSUME NEW set \in Literals, NEW binding \in Literals, OpenUniformBlock(set, binding)
        PROVE  HeadersInv'
    <3>1. /\ EmitBoth(Line("block_header", NoName, <<set, binding>>, {}))
          /\ UNCHANGED <<uniforms, push_constants>> /\ status' = "block"
          /\ open'.set = set /\ open'.binding = binding
      BY <2>5 DEF OpenUniformBlock, reflection, NoBlock
    <3> QED
      BY <3>1, OpeningBlocks
  <2>6. CASE OpenPushBlock
    <3>1. /\ EmitBoth(Line("push_header", NoName, <<>>, {}))
          /\ UNCHANGED <<uniforms, push_constants>> /\ status' = "push"
      BY <2>6 DEF OpenPushBlock, reflection
    <3> QED
      BY <3>1, OpeningBlocks
  <2>7. CASE \E d \in Decls : UniformBlockMember(d)
    BY <2>7, BlockMemberHeaded
  <2>8. CASE \E d \in Decls : PushBlockMember(d)
    BY <2>8, PushMemberHeaded
  <2>9. CASE Finish \/ FinishWithoutStage
    BY <2>9, EndHeaded
  <2> QED
    BY <2>1, <2>2, <2>3, <2>4, <2>5, <2>6, <2>7, <2>8, <2>9, StepKinds
<1> QED
  BY <1>1, <1>2, LocationsInductive, StreamsInductive, TypeCorrect, PTL DEF Spec

\* With limits of at most 256, the GLSL text and the reflection info agree at
\* every point of the visit, in the middle of a block, after an error and after
\* sort(): in the vertex stage the attributes with their locations and no
\* output, in the fragment stage the outputs with theirs and no attribute, the
\* handles at their set and binding (subpass inputs in the fragment stage
\* only), and in both stages the specialization constants with their indices
\* and the members of the uniform and push blocks with their offsets and
\* sizes, each under the header of its own block
\* (GLSLGenerator::emit_*, visitUniformStatement).
THEOREM TextMatchesReflection == NarrowLimits => (Spec => []EmissionMatchesReflection)
<1> SUFFICES ASSUME NarrowLimits PROVE Spec => []EmissionMatchesReflection
  OBVIOUS
<1> QED
  BY EmissionInvMatches, EmissionInductive, HeadersInductive, PTL

-----------------------------------------------------------------------------
(* The locals, placed one after the other above everything else.           *)

\* The slots a global takes of the budget of the locals, and the running sum.
Weight(g) == IF IsLocal(g) THEN GetTypeSlotSize(g.type) ELSE 0
Adding(s) == [i \in DOMAIN s |-> [x \in Nat |-> x + Weight(s[i])]]
Sums(f, s) ==
  /\ f \in [0 .. Len(s) -> Nat]
  /\ f[0] = 0
  /\ \A i \in 1 .. Len(s) : f[i] = f[i - 1] + Weight(s[i])

LEMMA WeightType == ASSUME NEW g \in Variable PROVE Weight(g) \in Nat
<1>1. g.type \in HLSVType
  BY DEF Variable
<1> QED
  BY <1>1, TypeSlotSizeType, WidthsNat DEF Weight

LEMMA NaturalSums ==
  ASSUME NEW s \in Seq(Variable), NEW f, f = [i \in 0 .. Len(s) |-> f[i]], f[0] = 0,
         \A i \in 1 .. Len(s) : f[i - 1] \in Nat => f[i] = f[i - 1] + Weight(s[i])
  PROVE  Sums(f, s)
<1> DEFINE bad == {n \in 0 .. Len(s) : f[n] \notin Nat}
<1>0. Len(s) \in Nat /\ DOMAIN s = 1 .. Len(s) /\ \A i \in 1 .. Len(s) : s[i] \in Variable
  OBVIOUS
<1>2. bad = {}
  <2> SUFFICES ASSUME bad # {} PROVE FALSE
    OBVIOUS
  <2>1. bad \subseteq Nat
    BY <1>0
  <2>2. PICK m \in bad : \A y \in bad : m <= y
    BY <2>1, LeastElement
  <2>3. m \in 0 .. Len(s) /\ f[m] \notin Nat
    OBVIOUS
  <2>4. m # 0
    BY <2>3
  <2>5. m \in 1 .. Len(s) /\ m - 1 \in 0 .. Len(s) /\ ~ m <= m - 1
    BY <1>0, <2>3, <2>4
  <2>6. f[m - 1] \in Nat
    BY <2>2, <2>5
  <2>7. f[m] = f[m - 1] + Weight(s[m]) /\ Weight(s[m]) \in Nat
    BY <1>0, <2>5, <2>6, WeightType
  <2> QED
    BY <2>3, <2>6, <2>7
<1>3. f \in [0 .. Len(s) -> Nat]
  BY <1>2
<1>4. \A i \in 1 .. Len(s) : i - 1 \in 0 .. Len(s)
  BY <1>0
<1> QED
  BY <1>3, <1>4 DEF Sums

LEMMA SumsAreSteps ==
  ASSUME NEW s \in Seq(Variable), NEW f, Sums(f, s) PROVE Steps(f, Len(s), 0, Adding(s))
<1>0. Len(s) \in Nat /\ DOMAIN s = 1 .. Len(s)
  OBVIOUS
<1>1. \A i \in 1 .. Len(s) : i - 1 \in 0 .. Len(s)
  BY <1>0
<1> QED
  BY <1>0, <1>1 DEF Sums, Steps, Adding

LEMMA SlotsAreSums ==
  ASSUME NEW s \in Seq(Variable), NEW slots,
         slots = [k \in 0 .. Len(s) |-> IF k = 0 THEN 0 ELSE slots[k - 1] + Weight(s[k])]
  PROVE  Sums(slots, s)
<1> DEFINE n == Len(s)
<1>0. n \in Nat
  OBVIOUS
<1>1. \A k \in 0 .. n : slots[k] = IF k = 0 THEN 0 ELSE slots[k - 1] + Weight(s[k])
  OBVIOUS
<1>2. slots = [k \in 0 .. n |-> slots[k]]
  OBVIOUS
<1>3. \A k \in 1 .. n : k \in 0 .. n /\ k # 0
  OBVIOUS
<1>4. 0 \in 0 .. n
  BY <1>0
<1> HIDE DEF n
<1>5. slots[0] = 0 /\ \A k \in 1 .. n : slots[k] = slots[k - 1] + Weight(s[k])
  BY <1>1, <1>3, <1>4
<1> QED
  BY <1>2, <1>5, NaturalSums DEF n

LEMMA LocalSlotsIs ==
  ASSUME NEW s \in Seq(Variable) PROVE \E f : Sums(f, s) /\ LocalSlots(s) = f[Len(s)]
<1> DEFINE n == Len(s)
           IsSlots(f) == f = [k \in 0 .. n |-> IF k = 0 THEN 0 ELSE f[k - 1] + Weight(s[k])]
           slots == CHOOSE f : IsSlots(f)
<1>0. n \in Nat
  OBVIOUS
<1>1. LocalSlots(s) = slots[n]
  BY DEF LocalSlots, Weight
<1>2. PICK f : Steps(f, n, 0, Adding(s))
  BY <1>0, StepsExist
<1>3. Sums(f, s)
  <2>0. DOMAIN s = 1 .. n
    OBVIOUS
  <2>1. ASSUME NEW i \in 1 .. n, f[i - 1] \in Nat PROVE f[i] = f[i - 1] + Weight(s[i])
    <3>1. f[i] = Adding(s)[i][f[i - 1]]
      BY <1>2 DEF Steps
    <3>2. Adding(s)[i] = [x \in Nat |-> x + Weight(s[i])]
      BY <2>0 DEF Adding
    <3> QED
      BY <2>1, <3>1, <3>2
  <2> QED
    BY <1>2, <2>1, NaturalSums DEF Steps
<1>4. IsSlots(f)
  <2>1. f[0] = 0 /\ \A k \in 1 .. n : f[k] = f[k - 1] + Weight(s[k])
    BY <1>3 DEF Sums
  <2>2. \A k \in 0 .. n : f[k] = IF k = 0 THEN 0 ELSE f[k - 1] + Weight(s[k])
    BY <1>0, <2>1
  <2>3. f = [k \in 0 .. n |-> f[k]]
    BY <1>2 DEF Steps
  <2> QED
    BY <2>2, <2>3
<1>5. IsSlots(slots)
  BY <1>4
<1> HIDE DEF slots
<1>6. Sums(slots, s)
  BY <1>5, SlotsAreSums
<1> QED
  BY <1>1, <1>6

\* The sum over the first globals is where the next local goes.
LEMMA LocalSlotsOfPrefix ==
  ASSUME NEW s \in Seq(Variable), NEW f, Sums(f, s), NEW i \in 0 .. Len(s)
  PROVE  LocalSlots(SubSeq(s, 1, i)) = f[i]
<1> DEFINE p == SubSeq(s, 1, i)
<1>0. Len(s) \in Nat /\ i \in Nat /\ i <= Len(s) /\ DOMAIN s = 1 .. Len(s)
  OBVIOUS
<1>1. p \in Seq(Variable) /\ Len(p) = i /\ \A k \in 1 .. i : p[k] = s[k]
  BY <1>0, SubSeqProperties
<1>2. DOMAIN p = 1 .. i
  BY <1>1, LenProperties
<1> HIDE DEF p
<1>3. PICK g : Sums(g, p) /\ LocalSlots(p) = g[i]
  BY <1>1, LocalSlotsIs
<1>4. Steps(g, i, 0, Adding(p)) /\ Steps(f, Len(s), 0, Adding(s))
  BY <1>1, <1>3, SumsAreSteps
<1>5. \A k \in 1 .. i : Adding(p)[k] = Adding(s)[k]
  BY <1>0, <1>1, <1>2 DEF Adding
<1>6. \A k \in 0 .. i : g[k] = f[k]
  BY <1>0, <1>4, <1>5, StepsAgree
<1>7. i \in 0 .. i
  BY <1>0
<1> QED
  BY <1>3, <1>6, <1>7 DEF p

LEMMA SumsGrow ==
  ASSUME NEW s \in Seq(Variable), NEW f, Sums(f, s), NEW i \in 0 .. Len(s)
  PROVE  \A j \in i .. Len(s) : f[i] <= f[j]
<1> DEFINE bad == {j \in i .. Len(s) : ~ f[i] <= f[j]}
<1> SUFFICES ASSUME bad # {} PROVE FALSE
  OBVIOUS
<1>0. Len(s) \in Nat /\ \A k \in 1 .. Len(s) : s[k] \in Variable
  OBVIOUS
<1>1. bad \subseteq Nat
  BY <1>0
<1>2. PICK m \in bad : \A y \in bad : m <= y
  BY <1>1, LeastElement
<1>3. m \in i .. Len(s) /\ ~ f[i] <= f[m] /\ f[i] \in Nat
  BY DEF Sums
<1>4. m # i
  BY <1>3
<1>5. m \in 1 .. Len(s) /\ m - 1 \in i .. Len(s) /\ m - 1 \in 0 .. Len(s) /\ ~ m <= m - 1
  BY <1>0, <1>3, <1>4
<1>6. f[i] <= f[m - 1]
  BY <1>2, <1>5
<1>7. f[m] = f[m - 1] + Weight(s[m]) /\ Weight(s[m]) \in Nat /\ f[m - 1] \in Nat
  BY <1>0, <1>5, WeightType DEF Sums
<1> QED
  BY <1>3, <1>6, <1>7

\* Two elements of a finite set of numbers have different ranks.
LEMMA RanksDiffer ==
  ASSUME NEW D, D \subseteq Nat, IsFiniteSet(D), NEW a \in D, NEW b \in D, a # b
  PROVE  Cardinality({j \in D : j < a}) # Cardinality({j \in D : j < b})
<1> DEFINE Lower(i) == {j \in D : j < i}
<1>1. \A i \in D : i \in Nat /\ Lower(i) \in SUBSET D
  OBVIOUS
<1>2. \A i \in D : IsFiniteSet(Lower(i))
  BY <1>1, FS_Subset
<1>3. ASSUME NEW i \in D, NEW j \in D, i < j
      PROVE  Cardinality(Lower(i)) # Cardinality(Lower(j))
  <2>0. i \in Nat /\ j \in Nat /\ \A x \in D : x \in Nat
    BY <1>1
  <2>1. ASSUME NEW x \in Lower(i) PROVE x \in Lower(j)
    <3>1. x \in D /\ x < i /\ x \in Nat
      BY <2>0
    <3> QED
      BY <1>3, <2>0, <3>1
  <2>2. Lower(i) \in SUBSET Lower(j)
    BY <2>1
  <2>3. i \in Lower(j) /\ i \notin Lower(i)
    BY <1>3, <2>0
  <2> QED
    BY <1>2, <2>2, <2>3, FS_Subset
<1>4. a < b \/ b < a
  BY <1>1
<1> QED
  BY <1>3, <1>4

\* Each number below the size of a finite set of numbers is the rank of one
\* of its elements.
LEMMA RanksReached ==
  ASSUME NEW D, D \subseteq Nat, IsFiniteSet(D), NEW k \in 1 .. Cardinality(D)
  PROVE  \E i \in D : Cardinality({j \in D : j < i}) = k - 1
<1> DEFINE Lower(i) == {j \in D : j < i}
           rank == [i \in D |-> Cardinality(Lower(i))]
           R    == {rank[i] : i \in D}
           c    == Cardinality(D)
<1>2. IsFiniteSet(D) /\ c \in Nat
  BY FS_CardinalityType
<1>3. \A i \in D : i \in Nat /\ Lower(i) \in SUBSET D /\ i \notin Lower(i)
  OBVIOUS
<1>4. \A i \in D : IsFiniteSet(Lower(i)) /\ Cardinality(Lower(i)) \in Nat
  BY <1>2, <1>3, FS_Subset, FS_CardinalityType
<1>5. \A i \in D : rank[i] \in 0 .. c - 1
  <2> TAKE i \in D
  <2>1. Cardinality(Lower(i)) <= c /\ Cardinality(Lower(i)) # c
    BY <1>2, <1>3, FS_Subset
  <2> QED
    BY <1>2, <1>4, <2>1
<1>7. \A i, j \in D : i # j => rank[i] # rank[j]
  BY RanksDiffer
<1>8. Cardinality(R) = c
  <2> DEFINE ranking == [i \in D |-> rank[i]]
  <2>1. ranking \in Bijection(D, R)
    <3> HIDE DEF rank
    <3> QED
      BY <1>7 DEF Bijection, Injection, IsInjective, Surjection
  <2>2. ExistsBijection(D, R)
    BY <2>1 DEF ExistsBijection
  <2> QED
    BY <1>2, <2>2, FS_Bijection
<1>9. IsFiniteSet(0 .. c - 1) /\ Cardinality(0 .. c - 1) = c
  <2> HIDE DEF c
  <2>1. 0 \in Int /\ c - 1 \in Int
    BY <1>2
  <2>2. Cardinality(0 .. c - 1) = IF 0 > c - 1 THEN 0 ELSE c - 1 - 0 + 1
    BY <2>1, FS_Interval
  <2> QED
    BY <1>2, <2>1, <2>2, FS_Interval
<1>10. R = 0 .. c - 1
  <2>1. R \in SUBSET (0 .. c - 1)
    BY <1>5
  <2> HIDE DEF R, rank, c
  <2> QED
    BY <1>8, <1>9, <2>1, FS_Subset
<1>11. k - 1 \in 0 .. c - 1
  BY <1>2
<1>12. PICK i \in D : rank[i] = k - 1
  BY <1>10, <1>11
<1> QED
  BY <1>12

LEMMA RangeArithmetic ==
  ASSUME NEW a \in Nat, NEW m \in Nat, m >= 1, NEW b \in Nat, NEW n \in Nat, n >= 1
  PROVE  /\ a + m \in Nat /\ a + m - 1 + 1 = a + m
         /\ b \in b .. (b + n - 1)
         /\ a <= b /\ b \notin a .. (a + m - 1) => a + m <= b + n
         /\ \A s \in a .. (a + m - 1) : s \in Int /\ s < a + m
OBVIOUS

\* No attribute reaches the locations of the locals.
LEMMA AttributesBelowLocals ==
  ASSUME TypeOK, AttributesDisjoint, AttributesTakeSlots
  PROVE  /\ LocalBase \in Nat
         /\ \A i \in DOMAIN attributes : \A s \in SlotsOf(attributes[i]) : s < LocalBase
<1> DEFINE loc(i) == attributes[i].location
           cnt(i) == attributes[i].slot_count
           Highest(i) == \A j \in DOMAIN attributes : loc(j) <= loc(i)
           hi == CHOOSE i \in DOMAIN attributes : Highest(i)
<1>0. Len(outputs) \in Nat
  BY DEF TypeOK
<1>1. CASE attributes = <<>>
  <2>1. DOMAIN attributes = {} /\ GetHighestAttrSlot = 0
    BY <1>1 DEF GetHighestAttrSlot
  <2> QED
    BY <1>0, <2>1 DEF LocalBase
<1>2. CASE attributes # <<>>
  <2>1. attributes \in Seq(Attribute)
    BY DEF TypeOK
  <2>2. ASSUME NEW i \in DOMAIN attributes
        PROVE  /\ loc(i) \in 0 .. 255 /\ loc(i) \in Nat
               /\ cnt(i) \in Nat /\ cnt(i) >= 1
    <3>1. attributes[i] \in Attribute
      BY <2>1
    <3>2. loc(i) \in uint8 /\ cnt(i) \in uint8
      BY <3>1 DEF Attribute
    <3>3. cnt(i) >= 1
      BY DEF AttributesTakeSlots
    <3> QED
      BY <3>2, <3>3 DEF uint8
  <2>3. \E i \in DOMAIN attributes : Highest(i)
    <3> DEFINE L == {loc(i) : i \in DOMAIN attributes}
    <3>1. L \subseteq 0 .. 255
      <4>1. \A i \in DOMAIN attributes : loc(i) \in 0 .. 255
        BY <2>2
      <4> HIDE DEF loc
      <4> QED
        BY <4>1
    <3>2. DOMAIN attributes # {}
      BY <1>2, <2>1, EmptySeq
    <3>3. L # {}
      BY <3>2
    <3> DEFINE top == 255
    <3>5. top \in Nat /\ L \subseteq 0 .. top
      BY <3>1
    <3> HIDE DEF L, top
    <3>6. PICK x \in L : \A y \in L : y <= x
      BY <3>5, <3>3, GreatestElement
    <3> QED
      BY <3>6 DEF L
  <2>4. hi \in DOMAIN attributes /\ Highest(hi)
    BY <2>3
  <2>5. GetHighestAttrSlot = loc(hi) + cnt(hi) - 1
    BY <1>2 DEF GetHighestAttrSlot
  <2> HIDE DEF hi
  <2>6. GetHighestAttrSlot + 1 = loc(hi) + cnt(hi) /\ loc(hi) + cnt(hi) \in Nat
    <3>1. loc(hi) \in Nat /\ cnt(hi) \in Nat /\ cnt(hi) >= 1
      BY <2>2, <2>4
    <3> QED
      BY <2>5, <3>1, RangeArithmetic
  <2>7. LocalBase \in Nat /\ loc(hi) + cnt(hi) <= LocalBase
    BY <1>0, <2>6 DEF LocalBase
  <2>8. \A i \in DOMAIN attributes : loc(i) + cnt(i) <= loc(hi) + cnt(hi)
    <3> TAKE i \in DOMAIN attributes
    <3>0. /\ loc(i) \in Nat /\ cnt(i) \in Nat /\ cnt(i) >= 1
          /\ loc(hi) \in Nat /\ cnt(hi) \in Nat /\ cnt(hi) >= 1
      BY <2>2, <2>4
    <3>1. CASE i = hi
      BY <3>0, <3>1
    <3>2. CASE i # hi
      <4>1. SlotsOf(attributes[i]) \cap SlotsOf(attributes[hi]) = {}
        BY <2>4, <3>2 DEF AttributesDisjoint
      <4>2. loc(hi) \in SlotsOf(attributes[hi])
        BY <3>0, RangeArithmetic DEF SlotsOf
      <4>3. ~ loc(hi) \in SlotsOf(attributes[i])
        BY <4>1, <4>2
      <4>4. loc(i) <= loc(hi)
        BY <2>4
      <4> QED
        BY <3>0, <4>3, <4>4, RangeArithmetic DEF SlotsOf
    <3> QED
      BY <3>1, <3>2
  <2>9. ASSUME NEW i \in DOMAIN attributes, NEW s \in SlotsOf(attributes[i])
        PROVE  s < LocalBase
    <3>1. loc(i) \in Nat /\ cnt(i) \in Nat /\ cnt(i) >= 1
      BY <2>2
    <3>2. s \in Int /\ s < loc(i) + cnt(i) /\ loc(i) + cnt(i) \in Nat
      BY <3>1, RangeArithmetic DEF SlotsOf
    <3>3. loc(i) + cnt(i) <= loc(hi) + cnt(hi)
      BY <2>8
    <3> QED
      BY <2>6, <2>7, <3>2, <3>3
  <2> QED
    BY <2>7, <2>9
<1> QED
  BY <1>1, <1>2

\* No local takes more slots than the uint8 that get_type_slot_size returns
\* can count; the run locals_budget shows what happens to one that does.
LocalsFit == \A i \in DOMAIN globals : IsLocal(globals[i]) => TrueSlots(globals[i].type) <= 255

\* Line k of the locals is that of the global at nth, which starts above the
\* locals declared before it.
LineOf(line, f, i) ==
  /\ i \in 1 .. Len(globals) /\ IsLocal(globals[i])
  /\ line.op = "local" /\ line.name = globals[i].name
  /\ line.at = <<LocalBase + f[i - 1]>>

LEMMA LocalLinesOf ==
  ASSUME TypeOK, NEW f, Sums(f, globals)
  PROVE  \E nth : /\ \A k \in DOMAIN LocalLines : LineOf(LocalLines[k], f, nth[k])
                  /\ \A k, l \in DOMAIN LocalLines : k # l => nth[k] # nth[l]
<1> DEFINE locals == {i \in DOMAIN globals : IsLocal(globals[i])}
           Rank(i) == Cardinality({j \in locals : j < i})
           Nth(k) == CHOOSE i \in locals : Rank(i) = k - 1
           At(i)  == LocalBase + LocalSlots(SubSeq(globals, 1, i - 1))
           c == Cardinality(locals)
           nth == [k \in 1 .. c |-> Nth(k)]
<1>0. /\ globals \in Seq(Variable) /\ Len(globals) \in Nat /\ DOMAIN globals = 1 .. Len(globals)
  BY DEF TypeOK
<1>1. LocalLines = [k \in 1 .. c |-> Line("local", globals[Nth(k)].name, <<At(Nth(k))>>, {})]
  BY DEF LocalLines
<1>2. locals \subseteq 1 .. Len(globals)
  BY <1>0
<1>3. ASSUME NEW k \in 1 .. c PROVE Nth(k) \in locals /\ Rank(Nth(k)) = k - 1
  <2>1. \E i \in locals : Rank(i) = k - 1
    <3> HIDE DEF locals
    <3>1. IsFiniteSet(1 .. Len(globals)) /\ 1 .. Len(globals) \subseteq Nat
      BY <1>0, FS_Interval
    <3>2. IsFiniteSet(locals) /\ locals \subseteq Nat
      BY <1>2, <3>1, FS_Subset
    <3> QED
      BY <3>2, RanksReached
  <2> HIDE DEF locals, Rank
  <2> QED
    BY <2>1
<1>4. ASSUME NEW k \in DOMAIN LocalLines
      PROVE  LineOf(LocalLines[k], f, nth[k])
  <2> DEFINE i == Nth(k)
  <2>1. k \in 1 .. c /\ nth[k] = i
    BY <1>1
  <2>2. i \in 1 .. Len(globals) /\ IsLocal(globals[i])
    BY <1>0, <1>3, <2>1
  <2>3. LocalLines[k] = Line("local", globals[i].name, <<At(i)>>, {})
    BY <1>1, <2>1
  <2> HIDE DEF i
  <2>4. At(i) = LocalBase + f[i - 1]
    <3>1. i - 1 \in 0 .. Len(globals)
      BY <1>0, <2>2
    <3> QED
      BY <1>0, <3>1, LocalSlotsOfPrefix
  <2>5. nth[k] = i
    BY <2>1 DEF i
  <2> HIDE DEF nth, At
  <2> QED
    BY <2>2, <2>3, <2>4, <2>5 DEF LineOf, Line
<1>5. ASSUME NEW k \in DOMAIN LocalLines, NEW l \in DOMAIN LocalLines, nth[k] = nth[l]
      PROVE  k = l
  <2>1. k \in 1 .. c /\ l \in 1 .. c /\ nth[k] = Nth(k) /\ nth[l] = Nth(l)
    BY <1>1
  <2>2. k - 1 = l - 1
    <3>1. Rank(Nth(k)) = k - 1 /\ Rank(Nth(l)) = l - 1
      BY <1>3, <2>1
    <3> HIDE DEF Rank, Nth, nth, c
    <3> QED
      BY <1>5, <2>1, <3>1
  <2>3. k \in Int /\ l \in Int
    BY <2>1
  <2> QED
    BY <2>2, <2>3
<1> HIDE DEF nth
<1> QED
  BY <1>4, <1>5

\* Where no local is too large for the uint8, the cast loses nothing.
LEMMA SmallSlots ==
  ASSUME NEW vt \in HLSVType, TrueSlots(vt) <= 255 PROVE GetTypeSlotSize(vt) = TrueSlots(vt)
<1>1. vt.type \in PrimTypes /\ vt.count \in Nat
  BY WidthsNat DEF HLSVType
<1>2. TrueSlots(vt) \in Nat
  BY <1>1, SlotCountType DEF TrueSlots
<1> QED
  BY <1>2, Uint8Small DEF GetTypeSlotSize, uint8

LEMMA TrueWeight ==
  ASSUME TypeOK, LocalsFit, NEW i \in 1 .. Len(globals), IsLocal(globals[i])
  PROVE  TrueSlots(globals[i].type) = Weight(globals[i])
<1>1. globals[i] \in Variable /\ DOMAIN globals = 1 .. Len(globals)
  BY DEF TypeOK
<1>2. globals[i].type \in HLSVType
  BY <1>1 DEF Variable
<1>3. TrueSlots(globals[i].type) <= 255
  BY <1>1 DEF LocalsFit
<1>4. GetTypeSlotSize(globals[i].type) = TrueSlots(globals[i].type)
  BY <1>2, <1>3, SmallSlots
<1> QED
  BY <1>4 DEF Weight

\* The range of a placed local in terms of the sums.
LEMMA RangeOfLocal ==
  ASSUME TypeOK, SymbolsReflected, LocalsFit, NEW f, Sums(f, globals), LocalBase \in Nat,
         NEW line, NEW i, LineOf(line, f, i)
  PROVE  /\ i \in 1 .. Len(globals) /\ f[i - 1] \in Nat /\ f[i] \in Nat
         /\ LocalRange(line) = (LocalBase + f[i - 1]) .. (LocalBase + f[i] - 1)
<1>0. /\ globals \in Seq(Variable) /\ Len(globals) \in Nat /\ DOMAIN globals = 1 .. Len(globals)
  BY DEF TypeOK
<1>1. i \in 1 .. Len(globals) /\ IsLocal(globals[i]) /\ line.name = globals[i].name
  BY DEF LineOf
<1>2. i - 1 \in 0 .. Len(globals) /\ i \in 0 .. Len(globals)
  BY <1>0, <1>1
<1>3. f[i - 1] \in Nat /\ f[i] \in Nat /\ f[i] = f[i - 1] + Weight(globals[i])
  BY <1>1, <1>2 DEF Sums
<1>4. Find(line.name) = globals[i]
  <2>1. \A j \in DOMAIN globals : globals[j].name = line.name => j = i
    BY <1>0, <1>1 DEF SymbolsReflected
  <2>2. (CHOOSE j \in DOMAIN globals : globals[j].name = line.name) = i
    BY <1>0, <1>1, <2>1
  <2> QED
    BY <2>2 DEF Find
<1>5. TrueSlots(globals[i].type) = Weight(globals[i])
  BY <1>1, TrueWeight
<1>6. line.at[1] = LocalBase + f[i - 1]
  BY DEF LineOf
<1>7. LocalRange(line) = (LocalBase + f[i - 1]) .. (LocalBase + f[i - 1] + Weight(globals[i]) - 1)
  BY <1>4, <1>5, <1>6 DEF LocalRange
<1>8. Weight(globals[i]) \in Nat
  BY <1>0, <1>1, WeightType
<1>9. LocalRange(line) = (LocalBase + f[i - 1]) .. (LocalBase + f[i] - 1)
  <2> DEFINE lo == LocalBase + f[i - 1]
             hi == lo + Weight(globals[i]) - 1
             end == LocalBase + f[i] - 1
  <2>1. hi = end
    <3>1. \A b, x, y, w \in Nat : y = x + w => b + x + w - 1 = b + y - 1
      OBVIOUS
    <3> QED
      BY <1>3, <1>8, <3>1
  <2>2. LocalRange(line) = lo .. hi
    BY <1>7
  <2> HIDE DEF lo, hi, end
  <2>3. LocalRange(line) = lo .. end
    BY <2>1, <2>2
  <2> QED
    BY <2>3 DEF lo, end
<1> QED
  BY <1>1, <1>3, <1>9

\* The lines of a stream at the end of the file are those above and the locals.
LEMMA PlacingLocals ==
  ASSUME TypeOK, SymbolsReflected, AttributesDisjoint, AttributesTakeSlots, LocalsFit,
         NEW above, IsASequence(above), Placed(above) = {}, NEW t, t = above \o LocalLines
  PROVE  /\ \A i, j \in Placed(t) : i # j => LocalRange(t[i]) \cap LocalRange(t[j]) = {}
         /\ \A i \in Placed(t), k \in DOMAIN attributes :
              LocalRange(t[i]) \cap SlotsOf(attributes[k]) = {}
<1> DEFINE n == Len(above)
<1>0. globals \in Seq(Variable) /\ Len(globals) \in Nat /\ DOMAIN globals = 1 .. Len(globals)
  BY DEF TypeOK
<1>1. PICK f : Sums(f, globals)
  BY <1>0, LocalSlotsIs
<1>2. PICK nth : /\ \A k \in DOMAIN LocalLines : LineOf(LocalLines[k], f, nth[k])
                 /\ \A k, l \in DOMAIN LocalLines : k # l => nth[k] # nth[l]
  BY <1>1, LocalLinesOf
<1>3. /\ LocalBase \in Nat
      /\ \A i \in DOMAIN attributes : \A s \in SlotsOf(attributes[i]) : s < LocalBase
  BY AttributesBelowLocals
<1>4. /\ n \in Nat /\ DOMAIN above = 1 .. n
      /\ Len(LocalLines) \in Nat /\ DOMAIN LocalLines = 1 .. Len(LocalLines)
      /\ DOMAIN t = 1 .. n + Len(LocalLines)
      /\ \A i \in 1 .. n : t[i] = above[i]
      /\ \A i \in 1 .. Len(LocalLines) : t[n + i] = LocalLines[i]
  BY LocalLinesAre, ConcatSequences
<1>5. ASSUME NEW i \in Placed(t)
      PROVE  /\ i - n \in DOMAIN LocalLines /\ t[i] = LocalLines[i - n]
             /\ LineOf(t[i], f, nth[i - n])
  <2>1. i \in 1 .. n + Len(LocalLines) /\ t[i].op = "local"
    BY <1>4 DEF Placed
  <2>2. i \notin 1 .. n
    BY <1>4, <2>1 DEF Placed
  <2>3. i - n \in 1 .. Len(LocalLines) /\ n + (i - n) = i
    BY <1>4, <2>1, <2>2
  <2> QED
    BY <1>2, <1>4, <2>3
<1>6. ASSUME NEW i \in Placed(t)
      PROVE  /\ nth[i - n] \in 1 .. Len(globals)
             /\ f[nth[i - n] - 1] \in Nat /\ f[nth[i - n]] \in Nat
             /\ LocalRange(t[i]) = (LocalBase + f[nth[i - n] - 1])
                                     .. (LocalBase + f[nth[i - n]] - 1)
  BY <1>1, <1>3, <1>5, RangeOfLocal
<1>7. ASSUME NEW i \in Placed(t), NEW j \in Placed(t), nth[i - n] < nth[j - n]
      PROVE  LocalRange(t[i]) \cap LocalRange(t[j]) = {}
  <2> DEFINE a == nth[i - n]
             b == nth[j - n]
  <2>1. a \in 1 .. Len(globals) /\ b \in 1 .. Len(globals) /\ a < b
    BY <1>6, <1>7
  <2>2. a \in 0 .. Len(globals) /\ b - 1 \in a .. Len(globals)
    BY <1>0, <2>1
  <2>3. f[a] <= f[b - 1]
    BY <1>0, <1>1, <2>2, SumsGrow
  <2>4. /\ f[a - 1] \in Nat /\ f[a] \in Nat /\ f[b - 1] \in Nat /\ f[b] \in Nat
        /\ LocalRange(t[i]) = (LocalBase + f[a - 1]) .. (LocalBase + f[a] - 1)
        /\ LocalRange(t[j]) = (LocalBase + f[b - 1]) .. (LocalBase + f[b] - 1)
    BY <1>6
  <2> HIDE DEF a, b
  <2>5. \A x \in LocalRange(t[i]) : x \notin LocalRange(t[j])
    BY <1>3, <2>3, <2>4
  <2> QED
    BY <2>5
<1>8. ASSUME NEW i \in Placed(t), NEW j \in Placed(t), i # j
      PROVE  LocalRange(t[i]) \cap LocalRange(t[j]) = {}
  <2>1. i \in Int /\ j \in Int
    BY <1>4 DEF Placed
  <2>2. i - n # j - n
    BY <1>4, <1>8, <2>1
  <2>3. nth[i - n] # nth[j - n]
    BY <1>2, <1>5, <2>2
  <2>4. nth[i - n] \in Nat /\ nth[j - n] \in Nat
    BY <1>0, <1>6
  <2>5. nth[i - n] < nth[j - n] \/ nth[j - n] < nth[i - n]
    BY <2>3, <2>4
  <2> QED
    BY <1>7, <2>5
<1>9. ASSUME NEW i \in Placed(t), NEW k \in DOMAIN attributes
      PROVE  LocalRange(t[i]) \cap SlotsOf(attributes[k]) = {}
  <2>1. \A s \in SlotsOf(attributes[k]) : s < LocalBase
    BY <1>3
  <2>2. ASSUME NEW x \in LocalRange(t[i]) PROVE x \in Int /\ LocalBase <= x
    <3>1. PICK a \in Nat, b \in Nat : LocalRange(t[i]) = (LocalBase + a) .. (LocalBase + b - 1)
      BY <1>6
    <3> QED
      BY <1>3, <3>1
  <2>3. \A x \in LocalRange(t[i]) : x \notin SlotsOf(attributes[k])
    <3> SUFFICES ASSUME NEW x \in LocalRange(t[i]), x \in SlotsOf(attributes[k]) PROVE FALSE
      OBVIOUS
    <3>1. x \in Int /\ LocalBase <= x /\ x < LocalBase
      BY <2>1, <2>2
    <3> QED
      BY <1>3, <3>1
  <2> QED
    BY <2>3
<1> QED
  BY <1>8, <1>9

NoLocalYet == Placed(vert_vars) = {} /\ Placed(frag_vars) = {}
PlacedInv  == status \in {"done", "failed"} \/ NoLocalYet

\* The stream t is s, or s and a line that is no local.
NoLocalAdded(s, t) == t = s \/ \E l : l.op # "local" /\ t = Append(s, l)

LEMMA NotALocal ==
  ASSUME NEW s, IsASequence(s), Placed(s) = {}, NEW t, NoLocalAdded(s, t)
  PROVE  Placed(t) = {}
<1>1. CASE t = s
  BY <1>1
<1>2. ASSUME NEW l, l.op # "local", t = Append(s, l) PROVE Placed(t) = {}
  <2> DEFINE n == Len(s)
  <2>1. /\ n \in Nat /\ DOMAIN s = 1 .. n /\ DOMAIN t = 1 .. n + 1
        /\ \A i \in 1 .. n : t[i] = s[i]
        /\ t[n + 1] = l
    <3>1. IsASequence(s) /\ IsASequence(t)
      BY <1>2, AppendToSequence
    <3> QED
      BY <1>2, <3>1, AppendToSequence
  <2> HIDE DEF n
  <2>2. \A i \in DOMAIN t : i \in 1 .. n \/ i = n + 1
    BY <2>1
  <2>3. \A i \in DOMAIN t : t[i].op # "local"
    BY <1>2, <2>1, <2>2 DEF Placed
  <2> QED
    BY <2>3 DEF Placed
<1> QED
  BY <1>1, <1>2 DEF NoLocalAdded

\* Only the end of the file emits locals.
LEMMA LocalsAreLast ==
  ASSUME StreamsInv, NoLocalYet, [Next]_vars, ~ Finish, ~ FinishWithoutStage
  PROVE  NoLocalYet'
<1>1. NoLocalAdded(vert_vars, vert_vars') /\ NoLocalAdded(frag_vars, frag_vars')
  <2>1. CASE Quiet
    BY <2>1 DEF Quiet, NoLocalAdded
  <2>2. CASE \E d \in Decls, index \in Literals :
               VertexAttributeStatement(d, index) \/ FragmentOutputStatement(d, index)
    BY <2>2 DEF VertexAttributeStatement, FragmentOutputStatement, EmitVert, EmitFrag, Line,
         NoLocalAdded
  <2>3. CASE \E d \in Decls, flat \in BOOLEAN : LocalStatement(d, flat)
    BY <2>3 DEF LocalStatement, NoLocalAdded
  <2>4. CASE \E d \in Decls, set, binding \in Literals : HandleUniformStatement(d, set, binding)
    BY <2>4 DEF HandleUniformStatement, EmitVert, EmitFrag, Line, NoLocalAdded
  <2>5. ASSUME NEW o, NEW name, NEW at, NEW uses, o # "local", EmitBoth(Line(o, name, at, uses))
        PROVE  NoLocalAdded(vert_vars, vert_vars') /\ NoLocalAdded(frag_vars, frag_vars')
    BY <2>5 DEF EmitBoth, EmitVert, EmitFrag, Line, NoLocalAdded
  <2>6. CASE \/ \E set, binding \in Literals : OpenUniformBlock(set, binding)
             \/ CloseUniformBlock \/ OpenPushBlock \/ ClosePushBlock
    BY <2>5, <2>6 DEF OpenUniformBlock, CloseUniformBlock, OpenPushBlock, ClosePushBlock
  <2>7. CASE \E d \in Decls : UniformBlockMember(d) \/ PushBlockMember(d)
    BY <2>5, <2>7 DEF UniformBlockMember, PushBlockMember
  <2>8. CASE \E d \in Decls, init \in Inits :
               \/ GlobalConstantStatement(d, init)
               \/ \E index \in Literals : SpecConstantStatement(d, index, init)
    <3>1. CASE \E d \in Decls, init \in Inits : GlobalConstantStatement(d, init)
      BY <2>5, <3>1 DEF GlobalConstantStatement
    <3>2. CASE \E d \in Decls, init \in Inits, index \in Literals :
                 SpecConstantStatement(d, index, init)
      BY <2>5, <3>2 DEF SpecConstantStatement
    <3> QED
      BY <2>8, <3>1, <3>2
  <2> QED
    BY <2>1, <2>2, <2>3, <2>4, <2>6, <2>7, <2>8, StepKinds
<1>2. Placed(vert_vars') = {} /\ Placed(frag_vars') = {}
  BY <1>1, NotALocal DEF StreamsInv, NoLocalYet
<1> QED
  BY <1>2 DEF NoLocalYet, Placed

LEMMA TheEndIsFinal ==
  ASSUME [Next]_vars, status \in {"done", "failed"} PROVE UNCHANGED vars
<1>1. \A ver, compute : ~ ShaderVersionStatement(ver, compute)
  BY DEF ShaderVersionStatement
<1>2. ~ Interface
  BY DEF Interface, VertexAttributeStatement, FragmentOutputStatement, LocalStatement,
     AttributeRejected, OutputRejected, LocalRejected
<1>3. ~ Resources
  BY DEF Resources, HandleUniformStatement, HandleRejected, OpenUniformBlock,
     UniformBlockRejected, UniformBlockMember, PushBlockMember, MemberRejected,
     CloseUniformBlock, OpenPushBlock, SecondPushBlock, ClosePushBlock
<1>4. ~ Constants
  BY DEF Constants, GlobalConstantStatement, SpecConstantStatement, ConstantRejected
<1>5. ~ Functions
  BY DEF Functions, EnterStage, SecondStage
<1>6. ~ (LeaveStage \/ StageBodyRejected \/ Finish \/ FinishWithoutStage)
  BY DEF LeaveStage, StageBodyRejected, Finish, FinishWithoutStage
<1> QED
  BY <1>1, <1>2, <1>3, <1>4, <1>5, <1>6 DEF Next, Terminated

RangeIn(gs, l) ==
  LET g == gs[CHOOSE i \in DOMAIN gs : gs[i].name = l.name] IN
  l.at[1] .. (l.at[1] + TrueSlots(g.type) - 1)

\* Either end of the file places the locals beside each other and above the
\* attributes; sort() after it moves attributes in the table, not in the slots.
LEMMA EndPlacesLocals ==
  ASSUME TypeOK, SymbolsReflected, AttributesDisjoint, AttributesTakeSlots, StreamsInv,
         LocalsFit, NoLocalYet, Finish \/ FinishWithoutStage
  PROVE  LocalsPlaced'
<1>1. /\ vert_vars' = vert_vars \o LocalLines /\ frag_vars' = frag_vars \o LocalLines
      /\ globals' = globals
  BY DEF Finish, FinishWithoutStage, EmitLocals
<1>2. \A a \in ToSet(attributes') : \E k \in DOMAIN attributes : a = attributes[k]
  <2>1. CASE Finish
    <3>1. attributes' \in Reorderings(attributes)
      BY <2>1 DEF Finish, Sort, SortedVersions
    <3>2. PICK p : /\ DOMAIN attributes' = DOMAIN attributes
                   /\ Permutes(p, DOMAIN attributes)
                   /\ \A i \in DOMAIN attributes : attributes'[i] = attributes[p[i]]
      BY <3>1, Permuted
    <3>3. \A i \in DOMAIN attributes' : p[i] \in DOMAIN attributes
                                        /\ attributes'[i] = attributes[p[i]]
      BY <3>2 DEF Permutes
    <3>4. \A a \in ToSet(attributes') : \E i \in DOMAIN attributes' : a = attributes'[i]
      BY DEF ToSet
    <3> QED
      BY <3>3, <3>4
  <2>2. CASE FinishWithoutStage
    BY <2>2 DEF FinishWithoutStage, reflection, ToSet
  <2> QED
    BY <2>1, <2>2
<1>3. ASSUME NEW t, t = vert_vars \o LocalLines \/ t = frag_vars \o LocalLines
      PROVE  /\ \A i, j \in Placed(t) : i # j => LocalRange(t[i]) \cap LocalRange(t[j]) = {}
             /\ \A i \in Placed(t), k \in DOMAIN attributes :
                  LocalRange(t[i]) \cap SlotsOf(attributes[k]) = {}
  <2>1. /\ IsASequence(vert_vars) /\ Placed(vert_vars) = {}
        /\ IsASequence(frag_vars) /\ Placed(frag_vars) = {}
    BY DEF StreamsInv, NoLocalYet
  <2> QED
    BY <1>3, <2>1, PlacingLocals
<1>4. \A l : LocalRange(l) = RangeIn(globals, l)
  BY DEF LocalRange, Find, RangeIn
<1>5. ASSUME NEW t, t = vert_vars' \/ t = frag_vars'
      PROVE  /\ \A i, j \in Placed(t) :
                  i # j => RangeIn(globals', t[i]) \cap RangeIn(globals', t[j]) = {}
             /\ \A i \in Placed(t), a \in ToSet(attributes') :
                  RangeIn(globals', t[i]) \cap SlotsOf(a) = {}
  BY <1>1, <1>2, <1>3, <1>4, <1>5
<1>6. \A stream \in {vert_vars', frag_vars'} :
        /\ \A i, j \in Placed(stream) :
             i # j => RangeIn(globals', stream[i]) \cap RangeIn(globals', stream[j]) = {}
        /\ \A i \in Placed(stream), a \in ToSet(attributes') :
             RangeIn(globals', stream[i]) \cap SlotsOf(a) = {}
  BY <1>5
<1> QED
  BY <1>6 DEF LocalsPlaced, LocalRange, Find, Placed, RangeIn

\* With limits of at most 256 and no local of more than 255 slots, the
\* locations given to the locals in either stage overlap neither each other nor
\* an attribute, whatever was declared in which order and wherever sort() put it
\* (visitFile, get_highest_attr_slot, GLSLGenerator::emit_local).
THEOREM LocalsArePlaced == NarrowLimits => (Spec => [](LocalsFit => LocalsPlaced))
<1> SUFFICES ASSUME NarrowLimits PROVE Spec => [](LocalsFit => LocalsPlaced)
  OBVIOUS
<1> DEFINE Claim == LocalsFit => LocalsPlaced
<1>1. Init => PlacedInv /\ Claim
  BY DEF Init, PlacedInv, NoLocalYet, Placed, LocalsPlaced
<1>2. TypeOK /\ StreamsInv /\ SymbolsReflected /\ AttributesDisjoint /\ AttributesTakeSlots
      /\ PlacedInv /\ Claim /\ [Next]_vars => PlacedInv' /\ Claim'
  <2> SUFFICES ASSUME TypeOK, StreamsInv, SymbolsReflected, AttributesDisjoint,
                      AttributesTakeSlots, PlacedInv, Claim, [Next]_vars
               PROVE  PlacedInv' /\ Claim'
    OBVIOUS
  <2>1. CASE status \in {"done", "failed"}
    <3>1. UNCHANGED <<status, globals, attributes, vert_vars, frag_vars>>
      BY <2>1, TheEndIsFinal DEF vars, reflection
    <3>2. PlacedInv'
      BY <2>1, <3>1 DEF PlacedInv
    <3>3. LocalsFit' = LocalsFit
      BY <3>1 DEF LocalsFit
    <3>4. LocalsPlaced' = LocalsPlaced
      BY <3>1 DEF LocalsPlaced, Placed, LocalRange, Find
    <3> QED
      BY <3>2, <3>3, <3>4
  <2>2. CASE NoLocalYet /\ (Finish \/ FinishWithoutStage)
    <3>1. PlacedInv' /\ globals' = globals
      BY <2>2 DEF Finish, FinishWithoutStage, PlacedInv
    <3>2. LocalsFit' => LocalsFit
      BY <3>1 DEF LocalsFit
    <3>3. LocalsFit => LocalsPlaced'
      BY <2>2, EndPlacesLocals
    <3> QED
      BY <3>1, <3>2, <3>3
  <2>3. CASE NoLocalYet /\ ~ Finish /\ ~ FinishWithoutStage
    <3>1. NoLocalYet'
      BY <2>3, LocalsAreLast
    <3>2. Placed(vert_vars') = {} /\ Placed(frag_vars') = {}
      BY <3>1 DEF NoLocalYet, Placed
    <3>3. LocalsPlaced'
      BY <3>2 DEF LocalsPlaced, Placed
    <3> QED
      BY <3>1, <3>3 DEF PlacedInv
  <2> QED
    BY <2>1, <2>2, <2>3 DEF PlacedInv
<1>3. Spec => []SymbolsReflected /\ []AttributesDisjoint /\ []StreamsInv /\ []TypeOK
  BY GlobalsAreReflected, AttributesNeverOverlap, StreamsInductive, TypeCorrect
<1>4. Spec => []AttributesTakeSlots
  <2>1. Init => AttributesTakeSlots
    BY DEF Init, AttributesTakeSlots
  <2> QED
    BY <2>1, TakeSlotsInductive, TypeCorrect, PTL DEF Spec
<1> QED
  BY <1>1, <1>2, <1>3, <1>4, PTL DEF Spec

-----------------------------------------------------------------------------
(* The default value of a specialization constant.                         *)

SourceOrZero ==
  \A i \in DOMAIN spec_constants : \E j \in DOMAIN globals :
    /\ globals[j].name = spec_constants[i].name
    /\ spec_constants[i].default_value \in {0, globals[j].source}

LEMMA ValueIsSourceOrZero ==
  ASSUME NEW init \in Inits, NEW infer
  PROVE  Evaluate(init, infer).value \in {0, Evaluate(init, infer).source}
<1>1. CASE init.kind = "literal"
  BY <1>1 DEF Evaluate, AtomExpr
<1>2. CASE init.kind = "var"
  BY <1>2 DEF Evaluate, AtomExpr
<1>3. CASE init.kind = "other"
  BY <1>3 DEF Evaluate
<1>4. CASE init.kind \in {"list", "cast"}
  <2>1. \A vt, args : ComposedExpr(vt, args).value = 0
    BY DEF ComposedExpr
  <2>2. Evaluate(init, infer).value = 0
    BY <1>4, <2>1 DEF Evaluate
  <2> QED
    BY <2>2
<1> QED
  BY <1>1, <1>2, <1>3, <1>4, InitsAssumption DEF IsInitialiser

\* The steps that touch the table.
LEMMA SpecSteps ==
  ASSUME [Next]_vars
  PROVE  \/ spec_constants' = spec_constants /\ (globals' = globals \/ \E g : globals' = Append(globals, g))
         \/ \E g, x : /\ globals' = Append(globals, g) /\ spec_constants' = Append(spec_constants, x)
                      /\ x.name = g.name /\ x.default_value \in {0, g.source}
<1>1. ASSUME NEW d \in Decls, NEW init \in Inits, NEW index \in Literals,
             SpecConstantStatement(d, index, init)
      PROVE  \E g, x : /\ globals' = Append(globals, g)
                       /\ spec_constants' = Append(spec_constants, x)
                       /\ x.name = g.name /\ x.default_value \in {0, g.source}
  <2> DEFINE e == Evaluate(init, ParsedType(d))
             g == [Global(d, "Constant") EXCEPT
                     !.source = e.source, !.glsl = IF RewrittenAsFloat(d, e) THEN e.value ELSE e.glsl]
             x == [name |-> d.name, type |-> ParsedType(d), index |-> index,
                   size |-> ScalarLayoutSize(ParsedType(d)), default_value |-> e.value]
  <2>1. /\ globals' = Append(globals, g) /\ spec_constants' = Append(spec_constants, x)
    BY <1>1 DEF SpecConstantStatement, AddGlobal
  <2>2. e.value \in {0, e.source}
    BY ValueIsSourceOrZero
  <2> HIDE DEF e
  <2>3. g.source = e.source /\ g.name = d.name /\ x.name = d.name /\ x.default_value = e.value
    BY DEF Global
  <2> HIDE DEF g, x
  <2> QED
    BY <2>1, <2>2, <2>3
<1>2. \/ spec_constants' = spec_constants
      \/ \E d \in Decls, init \in Inits, index \in Literals : SpecConstantStatement(d, index, init)
  <2>1. CASE Quiet
    BY <2>1 DEF Quiet
  <2>2. CASE \E d \in Decls, index \in Literals :
               VertexAttributeStatement(d, index) \/ FragmentOutputStatement(d, index)
    BY <2>2 DEF VertexAttributeStatement, FragmentOutputStatement
  <2>3. CASE \/ \E d \in Decls, flat \in BOOLEAN : LocalStatement(d, flat)
             \/ \E d \in Decls, init \in Inits : GlobalConstantStatement(d, init)
    BY <2>3 DEF LocalStatement, GlobalConstantStatement, reflection
  <2>4. CASE \E d \in Decls, set, binding \in Literals : HandleUniformStatement(d, set, binding)
    BY <2>4 DEF HandleUniformStatement
  <2>5. CASE \/ \E d \in Decls : UniformBlockMember(d) \/ PushBlockMember(d)
             \/ \E set, binding \in Literals : OpenUniformBlock(set, binding)
    BY <2>5 DEF UniformBlockMember, PushBlockMember, OpenUniformBlock, reflection
  <2>6. CASE \/ CloseUniformBlock \/ OpenPushBlock \/ ClosePushBlock \/ Finish \/ FinishWithoutStage
    BY <2>6 DEF CloseUniformBlock, OpenPushBlock, ClosePushBlock, Finish, FinishWithoutStage,
                reflection
  <2> QED
    BY <2>1, <2>2, <2>3, <2>4, <2>5, <2>6, StepKinds
<1> QED
  BY <1>1, <1>2, Growth

LEMMA SourceOrZeroKept ==
  ASSUME TypeOK, SourceOrZero, [Next]_vars PROVE SourceOrZero'
<1> DEFINE n == Len(globals)
           m == Len(spec_constants)
<1>1. globals \in Seq(Variable) /\ spec_constants \in Seq(SpecConst)
  BY DEF TypeOK
<1>2. n \in Nat /\ DOMAIN globals = 1 .. n /\ m \in Nat /\ DOMAIN spec_constants = 1 .. m
  BY <1>1
<1>3. ASSUME NEW g, globals' = Append(globals, g)
      PROVE  /\ DOMAIN globals' = 1 .. n + 1 /\ globals'[n + 1] = g
             /\ \A i \in 1 .. n : globals'[i] = globals[i]
  BY <1>1, <1>3, Appended
<1>4. ASSUME NEW x, spec_constants' = Append(spec_constants, x)
      PROVE  /\ DOMAIN spec_constants' = 1 .. m + 1 /\ spec_constants'[m + 1] = x
             /\ \A i \in 1 .. m : spec_constants'[i] = spec_constants[i]
  BY <1>1, <1>4, Appended
<1> HIDE DEF n, m
<1>5. CASE UNCHANGED <<spec_constants, globals>>
  BY <1>5 DEF SourceOrZero
<1>6. CASE spec_constants' = spec_constants /\ \E g : globals' = Append(globals, g)
  <2>1. \A j \in DOMAIN globals : j \in DOMAIN globals' /\ globals'[j] = globals[j]
    BY <1>2, <1>3, <1>6
  <2> QED
    BY <1>6, <2>1 DEF SourceOrZero
<1>7. ASSUME NEW g, NEW x, globals' = Append(globals, g),
             spec_constants' = Append(spec_constants, x),
             x.name = g.name, x.default_value \in {0, g.source}
      PROVE  SourceOrZero'
  <2>1. \A j \in DOMAIN globals : j \in DOMAIN globals' /\ globals'[j] = globals[j]
    BY <1>2, <1>3, <1>7
  <2>2. n + 1 \in DOMAIN globals' /\ globals'[n + 1] = g
    BY <1>2, <1>3, <1>7
  <2>3. ASSUME NEW i \in DOMAIN spec_constants'
        PROVE  \E j \in DOMAIN globals' :
                 /\ globals'[j].name = spec_constants'[i].name
                 /\ spec_constants'[i].default_value \in {0, globals'[j].source}
    <3>1. CASE i = m + 1
      BY <1>4, <1>7, <2>2, <3>1
    <3>2. CASE i # m + 1
      <4>1. i \in DOMAIN spec_constants /\ spec_constants'[i] = spec_constants[i]
        BY <1>2, <1>4, <1>7, <3>2
      <4> QED
        BY <2>1, <4>1 DEF SourceOrZero
    <3> QED
      BY <3>1, <3>2
  <2> QED
    BY <2>3 DEF SourceOrZero
<1> QED
  BY <1>5, <1>6, <1>7, SpecSteps

\* What is reflected as the default of a specialization constant is the value
\* the program gives it, unless it is zero: a list, a cast or the name of
\* another constant loses the value (Expr::literal_value), but never turns it
\* into another one (visitSpecConstantStatement).
THEOREM DefaultsAreLostNotChanged ==
  Spec => []((\A i \in DOMAIN spec_constants : spec_constants[i].default_value # 0)
               => SpecDefaultReflected)
<1> DEFINE Given == \A i \in DOMAIN spec_constants : spec_constants[i].default_value # 0
<1>1. SourceOrZero /\ SymbolsReflected => (Given => SpecDefaultReflected)
  <2> SUFFICES ASSUME SourceOrZero, SymbolsReflected, NEW i \in DOMAIN spec_constants,
                      spec_constants[i].default_value # 0
               PROVE  spec_constants[i].default_value = Find(spec_constants[i].name).source
    BY DEF SpecDefaultReflected
  <2>1. PICK k \in DOMAIN globals : /\ globals[k].name = spec_constants[i].name
                                    /\ spec_constants[i].default_value = globals[k].source
    BY DEF SourceOrZero
  <2>2. (CHOOSE j \in DOMAIN globals : globals[j].name = spec_constants[i].name) = k
    BY <2>1 DEF SymbolsReflected
  <2> QED
    BY <2>1, <2>2 DEF Find
<1>2. Init => SourceOrZero
  BY DEF Init, SourceOrZero
<1> QED
  BY <1>1, <1>2, SourceOrZeroKept, GlobalsAreReflected, TypeCorrect, PTL DEF Spec

-----------------------------------------------------------------------------
(* The budget of the locals.                                               *)

LEMMA LocalSlotsAppended ==
  ASSUME NEW s \in Seq(Variable), NEW g \in Variable
  PROVE  LocalSlots(Append(s, g)) = LocalSlots(s) + Weight(g)
<1> DEFINE t == Append(s, g)
           n == Len(s)
<1>1. t \in Seq(Variable) /\ n \in Nat /\ Len(t) = n + 1 /\ t[n + 1] = g
  OBVIOUS
<1>2. SubSeq(t, 1, n) = s
  <2>1. /\ SubSeq(t, 1, n) \in Seq(Variable) /\ Len(SubSeq(t, 1, n)) = n
        /\ \A k \in 1 .. n : SubSeq(t, 1, n)[k] = t[k]
    BY <1>1, SubSeqProperties
  <2>2. \A k \in 1 .. n : t[k] = s[k]
    OBVIOUS
  <2> QED
    BY <2>1, <2>2, SeqEqual
<1> HIDE DEF t, n
<1>3. PICK f : Sums(f, t) /\ LocalSlots(t) = f[n + 1]
  BY <1>1, LocalSlotsIs
<1>4. n \in 0 .. Len(t) /\ n + 1 \in 1 .. Len(t) /\ (n + 1) - 1 = n
  BY <1>1
<1>5. LocalSlots(s) = f[n]
  BY <1>1, <1>2, <1>3, <1>4, LocalSlotsOfPrefix
<1>6. f[n + 1] = f[n] + Weight(g)
  BY <1>1, <1>3, <1>4 DEF Sums
<1> QED
  BY <1>3, <1>5, <1>6 DEF t

LEMMA LocalSlotsNat == ASSUME NEW s \in Seq(Variable) PROVE LocalSlots(s) \in Nat
<1>1. PICK f : Sums(f, s) /\ LocalSlots(s) = f[Len(s)]
  BY LocalSlotsIs
<1>2. Len(s) \in 0 .. Len(s)
  OBVIOUS
<1> QED
  BY <1>1, <1>2 DEF Sums

\* What the visit counts, each type cut to 8 bits, stays within the budget.
CountedWithinBudget == LocalSlots(globals) <= Limits.local_slots

LEMMA CountedSteps ==
  ASSUME [Next]_vars
  PROVE  \/ globals' = globals
         \/ \E g : globals' = Append(globals, g) /\ g.scope # "Local"
         \/ \E g : /\ globals' = Append(globals, g)
                   /\ LocalSlots(globals) + GetTypeSlotSize(g.type) <= Limits.local_slots
<1>1. ASSUME NEW d \in Decls, NEW flat \in BOOLEAN, LocalStatement(d, flat)
      PROVE  \E g : /\ globals' = Append(globals, g)
                    /\ LocalSlots(globals) + GetTypeSlotSize(g.type) <= Limits.local_slots
  <2> DEFINE g == [Global(d, "Local") EXCEPT !.flat = flat \/ IsIntegerType(d.prim)]
  <2>1. /\ globals' = Append(globals, g)
        /\ LocalSlots(globals) + GetTypeSlotSize(ParsedType(d)) <= Limits.local_slots
    BY <1>1 DEF LocalStatement, LocalOK, AddGlobal
  <2>2. g.type = ParsedType(d)
    BY DEF Global
  <2> HIDE DEF g
  <2> QED
    BY <2>1, <2>2
<1>2. CASE \/ Quiet \/ CloseUniformBlock \/ OpenPushBlock \/ ClosePushBlock
           \/ Finish \/ FinishWithoutStage
           \/ \E set, binding \in Literals : OpenUniformBlock(set, binding)
  BY <1>2 DEF Quiet, CloseUniformBlock, OpenPushBlock, ClosePushBlock, Finish,
              FinishWithoutStage, OpenUniformBlock
<1>3. ASSUME NEW d \in Decls,
             \/ \E index \in Literals :
                  VertexAttributeStatement(d, index) \/ FragmentOutputStatement(d, index)
             \/ \E set, binding \in Literals : HandleUniformStatement(d, set, binding)
             \/ UniformBlockMember(d) \/ PushBlockMember(d)
      PROVE  \E g : globals' = Append(globals, g) /\ g.scope # "Local"
  <2>1. PICK scope \in {"Attribute", "Output", "Uniform", "PushConstant"} :
          globals' = Append(globals, Global(d, scope))
    BY <1>3 DEF VertexAttributeStatement, FragmentOutputStatement, HandleUniformStatement,
                UniformBlockMember, PushBlockMember, AddGlobal
  <2>2. Global(d, scope).scope # "Local"
    BY DEF Global
  <2> QED
    BY <2>1, <2>2
<1>4. ASSUME NEW d \in Decls, NEW init \in Inits,
             \/ GlobalConstantStatement(d, init)
             \/ \E index \in Literals : SpecConstantStatement(d, index, init)
      PROVE  \E g : globals' = Append(globals, g) /\ g.scope # "Local"
  <2> DEFINE A(x, y) == [Global(d, "Constant") EXCEPT !.source = x, !.glsl = y]
  <2>1. PICK x, y : globals' = Append(globals, A(x, y))
    BY <1>4 DEF GlobalConstantStatement, SpecConstantStatement, AddGlobal
  <2>2. A(x, y).scope # "Local"
    BY DEF Global
  <2> HIDE DEF A
  <2> QED
    BY <2>1, <2>2
<1> QED
  BY <1>1, <1>2, <1>3, <1>4, StepKinds

LEMMA CountedKept ==
  ASSUME TypeOK, TypeOK', CountedWithinBudget, [Next]_vars PROVE CountedWithinBudget'
<1>1. globals \in Seq(Variable) /\ globals' \in Seq(Variable)
  BY DEF TypeOK
<1>2. CASE globals' = globals
  BY <1>2 DEF CountedWithinBudget
<1>3. ASSUME NEW g, globals' = Append(globals, g)
      PROVE  LocalSlots(globals') = LocalSlots(globals) + Weight(g)
  <2>1. /\ Len(globals') = Len(globals) + 1 /\ Len(globals) \in Nat
        /\ globals'[Len(globals) + 1] = g
    BY <1>1, <1>3, Appended
  <2>2. g \in Variable
    BY <1>1, <2>1
  <2> QED
    BY <1>1, <1>3, <2>2, LocalSlotsAppended
<1>4. LocalSlots(globals) \in Nat
  BY <1>1, LocalSlotsNat
<1>5. ASSUME NEW g, globals' = Append(globals, g), g.scope # "Local" PROVE CountedWithinBudget'
  <2>1. Weight(g) = 0
    BY <1>5 DEF Weight, IsLocal
  <2>2. LocalSlots(globals') = LocalSlots(globals)
    BY <1>3, <1>4, <1>5, <2>1
  <2> QED
    BY <2>2 DEF CountedWithinBudget
<1>6. ASSUME NEW g, globals' = Append(globals, g),
             LocalSlots(globals) + GetTypeSlotSize(g.type) <= Limits.local_slots
      PROVE  CountedWithinBudget'
  <2>1. CASE IsLocal(g)
    <3>1. Weight(g) = GetTypeSlotSize(g.type)
      BY <2>1 DEF Weight
    <3> QED
      BY <1>3, <1>6, <3>1 DEF CountedWithinBudget
  <2>2. CASE ~ IsLocal(g)
    BY <1>5, <1>6, <2>2 DEF IsLocal
  <2> QED
    BY <2>1, <2>2
<1> QED
  BY <1>2, <1>5, <1>6, CountedSteps

\* The slots the locals really take are those the visit counts.
LEMMA TakenAsCounted ==
  ASSUME TypeOK, LocalsFit, CountedWithinBudget PROVE LocalsWithinBudget
<1> DEFINE n == Len(globals)
           Counts(f) == f = [k \in 0 .. n |-> IF k = 0 THEN 0 ELSE f[k - 1] + Weight(globals[k])]
           Takes(f)  == f = [k \in 0 .. n |->
                               IF k = 0 THEN 0
                               ELSE f[k - 1] + IF IsLocal(globals[k]) THEN TrueSlots(globals[k].type)
                                               ELSE 0]
           taken == CHOOSE f : Takes(f)
<1>1. globals \in Seq(Variable) /\ n \in Nat
  BY DEF TypeOK
<1>2. SUFFICES taken[n] <= Limits.local_slots
  BY DEF LocalsWithinBudget
<1>3. ASSUME NEW f PROVE Counts(f) <=> Takes(f)
  <2>1. ASSUME NEW k \in 0 .. n, k # 0
        PROVE  Weight(globals[k]) = IF IsLocal(globals[k]) THEN TrueSlots(globals[k].type) ELSE 0
    <3>1. k \in 1 .. Len(globals)
      BY <1>1, <2>1
    <3> QED
      BY <3>1, TrueWeight DEF Weight
  <2> QED
    BY <2>1
<1>4. PICK f : Sums(f, globals) /\ LocalSlots(globals) = f[n]
  BY <1>1, LocalSlotsIs
<1>5. Counts(f)
  <2>1. f[0] = 0 /\ \A k \in 1 .. n : f[k] = f[k - 1] + Weight(globals[k])
    BY <1>4 DEF Sums
  <2>2. \A k \in 0 .. n : f[k] = IF k = 0 THEN 0 ELSE f[k - 1] + Weight(globals[k])
    BY <1>1, <2>1
  <2>3. f = [k \in 0 .. n |-> f[k]]
    BY <1>4 DEF Sums
  <2> QED
    BY <2>2, <2>3
<1>6. Counts(taken)
  BY <1>3, <1>5
<1> HIDE DEF taken, Counts, Takes
<1>7. Sums(taken, globals)
  BY <1>1, <1>6, SlotsAreSums DEF Counts
<1>8. Steps(taken, n, 0, Adding(globals)) /\ Steps(f, n, 0, Adding(globals))
  BY <1>1, <1>4, <1>7, SumsAreSteps
<1>9. n <= n /\ n \in 0 .. n
  BY <1>1
<1> HIDE DEF n
<1>10. taken[n] = f[n]
  <2>1. \A k \in 0 .. n : taken[k] = f[k]
    BY <1>1, <1>8, <1>9, StepsAgree
  <2> QED
    BY <1>9, <2>1
<1> QED
  BY <1>4, <1>10 DEF CountedWithinBudget

\* As long as no local takes more than 255 slots, the locals together take no
\* more than the options allow, in whatever order they come with other
\* statements (visitLocalStatement, get_local_slot_count); larger ones are
\* counted modulo 256, and only they can break the limit.
THEOREM SmallLocalsKeepTheBudget == Spec => [](LocalsFit => LocalsWithinBudget)
<1>1. TypeOK /\ CountedWithinBudget => (LocalsFit => LocalsWithinBudget)
  BY TakenAsCounted
<1>2. Init => CountedWithinBudget
  <2> SUFFICES ASSUME Init PROVE CountedWithinBudget
    OBVIOUS
  <2>1. globals = <<>> /\ <<>> \in Seq(Variable) /\ Len(<<>>) = 0
    BY DEF Init
  <2>2. PICK f : Sums(f, <<>>) /\ LocalSlots(<<>>) = f[0]
    BY <2>1, LocalSlotsIs
  <2>3. LocalSlots(<<>>) = 0
    BY <2>2 DEF Sums
  <2>4. Limits.local_slots \in Nat
    BY LimitsAssumption DEF LimitNames
  <2> QED
    BY <2>1, <2>3, <2>4 DEF CountedWithinBudget
<1>3. TypeOK /\ TypeOK' /\ CountedWithinBudget /\ [Next]_vars => CountedWithinBudget'
  BY CountedKept
<1> QED
  BY <1>1, <1>2, <1>3, TypeCorrect, PTL DEF Spec
=============================================================================
