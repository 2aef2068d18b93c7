------------------------------ MODULE TopLevel ------------------------------
(***************************************************************************)
(* The top level of the HLSV visitor: one pass over the statements of a    *)
(* shader file that fills the reflection info, the table of global         *)
(* variables and the two GLSL variable streams, and the final step that    *)
(* places the locals and sorts the reflection info.                        *)
(*                                                                         *)
(* The statements of the file are the inputs, chosen one at a time.  A     *)
(* statement whose checks fail raises a VisitError, which ends the visit;  *)
(* a block is visited header, members, close, so that an error inside it   *)
(* leaves what was already emitted.  Function bodies are opaque here.      *)
(***************************************************************************)
EXTENDS Declarations

CONSTANTS
  Decls,     \* the variable declarations programs are built from
  Literals,  \* the literals written as an index, a set or a binding
  Inits,     \* the initialisers of constants (see Evaluate)
  Versions,  \* the versions a shader may ask for
  Kinds,     \* the statements the programs may use
  Limits,    \* CompilerOptions::Limits
  NoName     \* not an identifier; stands for "no variable"

\* Initialisers: a literal or a name, a list or a cast of those, or any other
\* expression, which is known by its type.
IsAtom(i) ==
  \/ i.kind = "literal" /\ i.prim \in PrimTypes /\ i.value \in Int
  \/ i.kind = "var" /\ i.name \in Names
IsSequenceOfAtoms(s) ==
  /\ DOMAIN s = 1 .. Len(s) /\ Len(s) \in Nat
  /\ \A k \in DOMAIN s : IsAtom(s[k])
IsInitialiser(i) ==
  \/ i.kind \in {"literal", "var"} /\ IsAtom(i)
  \/ i.kind = "list" /\ IsSequenceOfAtoms(i.args)
  \/ i.kind = "cast" /\ i.prim \in PrimTypes /\ IsSequenceOfAtoms(i.args)
  \/ i.kind = "other" /\ i.type \in HLSVType

LimitNames == {"vertex_attribute_slots", "fragment_outputs", "local_slots", "uniform_sets",
               "uniform_bindings", "uniform_block_size", "push_constants_size"}

ASSUME LimitsAssumption == Limits \in [LimitNames -> Nat]
ASSUME DeclsAssumption == \A d \in Decls : IsDeclaration(d)
ASSUME LiteralsAssumption == Literals \subseteq Nat \cup {Unparsable}
ASSUME InitsAssumption == \A init \in Inits : IsInitialiser(init)
ASSUME NoNameAssumption == NoName \notin Names

\* Reflection stores locations in a uint8; below this the cast loses nothing.
NarrowLimits ==
  /\ Limits.vertex_attribute_slots <= 256
  /\ Limits.fragment_outputs <= 256
  /\ Limits.uniform_sets <= 256
  /\ Limits.uniform_bindings <= 256

VARIABLES
  status,          \* where the visit is: see Statuses
  current_stage,   \* the stage whose function is being visited, or "None"
  stages,          \* ReflectionInfo from here ...
  attributes, outputs, uniforms, blocks,
  push_constants, push_layout,
  spec_constants,  \* ... to here
  globals,         \* VariableManager::globals_
  open,            \* the uniform or push constant block being visited
  vert_vars, frag_vars   \* what the generator has emitted for each stage

reflection == <<stages, attributes, outputs, uniforms, blocks, push_constants, push_layout,
                spec_constants>>
vars == <<status, current_stage, reflection, globals, open, vert_vars, frag_vars>>

Statuses == {"version", "toplevel", "block", "push", "stage", "done", "failed"}
Stages   == {"Vertex", "Fragment"}
HLSV_VERSION == 100

Declared == {globals[i].name : i \in DOMAIN globals}
Throw    == status' = "failed" /\ UNCHANGED <<current_stage, reflection, globals, open,
                                              vert_vars, frag_vars>>

\* parse_size_literal: an unparsable literal never passes a comparison.
Below(literal, limit) == literal # Unparsable /\ literal < limit

\* A global variable.  source is the value the program gives a constant,
\* glsl the value its emitted text has; both 0 for everything else.
Global(d, scope) == [name |-> d.name, type |-> ParsedType(d), scope |-> scope,
                     flat |-> FALSE, source |-> 0, glsl |-> 0]
AddGlobal(g) == globals' = Append(globals, g)

\* A line of a GLSL variable stream: what is declared, where, using what.
Line(op, name, at, uses) == [op |-> op, name |-> name, at |-> at, uses |-> uses]
EmitVert(l) == vert_vars' = Append(vert_vars, l)
EmitFrag(l) == frag_vars' = Append(frag_vars, l)
EmitBoth(l) == EmitVert(l) /\ EmitFrag(l)

\* members is the list UniformBlock::members, which is always in ascending
\* order, as a set.
NoBlock == [set |-> 0, binding |-> 0, index |-> 0, offset |-> 0, packed |-> TRUE,
            members |-> {}]

Init ==
  /\ status = "version"
  /\ current_stage = "None"
  /\ stages = {}
  /\ attributes = <<>> /\ outputs = <<>> /\ uniforms = <<>> /\ blocks = <<>>
  /\ push_constants = <<>> /\ push_layout = [packed |-> FALSE, size |-> 0]
  /\ spec_constants = <<>>
  /\ globals = <<>>
  /\ open = NoBlock
  /\ vert_vars = <<>> /\ frag_vars = <<>>
-----------------------------------------------------------------------------
(* shader <version> graphics|compute; *)
VersionOK(ver, compute) == ver <= HLSV_VERSION /\ ~ compute

ShaderVersionStatement(ver, compute) ==
  /\ status = "version"
  /\ IF VersionOK(ver, compute)
     THEN status' = "toplevel" /\ UNCHANGED <<current_stage, reflection, globals, open,
                                              vert_vars, frag_vars>>
     ELSE Throw
-----------------------------------------------------------------------------
(* attr(index) ...; *)
\* Faulty variant for the mutation runs: an attribute that starts inside an
\* earlier, longer one is not noticed.
AttributeOverlapAhead(index, scount, attr) ==
  \/ index = attr.location
  \/ index < attr.location /\ index + scount > attr.location

\* Faulty variant for the mutation runs: an attribute may reach into an
\* earlier one that starts above it.
AttributeOverlapBehind(index, scount, attr) ==
  \/ index = attr.location
  \/ index > attr.location /\ attr.location + attr.slot_count > index

AttributeOverlap(index, scount, attr) ==
  \/ index = attr.location
  \/ index < attr.location /\ index + scount > attr.location
  \/ index > attr.location /\ attr.location + attr.slot_count > index

AttributeOK(d, index) ==
  LET vt == ParsedType(d) IN
  /\ ParseVariableOK(d, Declared)
  /\ IsValueType(vt.type) /\ vt.count <= 8
  /\ Below(index, Limits.vertex_attribute_slots)
  /\ index + GetTypeSlotSize(vt) <= Limits.vertex_attribute_slots
  /\ \A i \in DOMAIN attributes :
       ~ AttributeOverlap(index, GetTypeSlotSize(vt), attributes[i])

NewAttribute(d, index) ==
  [name |-> d.name, type |-> ParsedType(d), location |-> Uint8(index),
   slot_count |-> GetTypeSlotSize(ParsedType(d))]

VertexAttributeStatement(d, index) ==
  /\ status = "toplevel"
  /\ AttributeOK(d, index)
  /\ attributes' = Append(attributes, NewAttribute(d, index))
  /\ AddGlobal(Global(d, "Attribute"))
  /\ EmitVert(Line("attribute", d.name, <<Uint8(index)>>, {}))
  /\ UNCHANGED <<status, current_stage, stages, outputs, uniforms, blocks, push_constants,
                 push_layout, spec_constants, open, frag_vars>>
-----------------------------------------------------------------------------
(* frag(index) ...; *)
\* Faulty variant for the mutation runs: the location may be taken.
OutputFits(d, index) ==
  /\ ParseVariableOK(d, Declared)
  /\ d.prim \in ScalarOrVector /\ d.size = NoSize
  /\ Below(index, Limits.fragment_outputs)

OutputOK(d, index) ==
  LET vt == ParsedType(d) IN
  /\ ParseVariableOK(d, Declared)
  /\ vt.type \in ScalarOrVector /\ ~ vt.is_array
  /\ Below(index, Limits.fragment_outputs)
  /\ \A i \in DOMAIN outputs : outputs[i].location # index

FragmentOutputStatement(d, index) ==
  /\ status = "toplevel"
  /\ OutputOK(d, index)
  /\ outputs' = Append(outputs, [name |-> d.name, type |-> ParsedType(d),
                                 location |-> Uint8(index)])
  /\ AddGlobal(Global(d, "Output"))
  /\ EmitFrag(Line("output", d.name, <<Uint8(index)>>, {}))
  /\ UNCHANGED <<status, current_stage, stages, attributes, uniforms, blocks, push_constants,
                 push_layout, spec_constants, open, vert_vars>>
-----------------------------------------------------------------------------
(* local [flat] ...; -- placed only when the whole file has been visited *)
IsLocal(g) == g.scope = "Local"

\* get_local_slot_count over a sequence of globals.
LocalSlots(gs) ==
  LET slots[k \in 0 .. Len(gs)] ==
        IF k = 0 THEN 0
        ELSE slots[k - 1] + IF IsLocal(gs[k]) THEN GetTypeSlotSize(gs[k].type) ELSE 0
  IN slots[Len(gs)]

LocalOK(d) ==
  /\ ParseVariableOK(d, Declared)
  /\ IsValueType(d.prim)
  /\ LocalSlots(globals) + GetTypeSlotSize(ParsedType(d)) <= Limits.local_slots

LocalStatement(d, flat) ==
  /\ status = "toplevel"
  /\ LocalOK(d)
  /\ AddGlobal([Global(d, "Local") EXCEPT !.flat = flat \/ IsIntegerType(d.prim)])
  /\ UNCHANGED <<status, current_stage, reflection, open, vert_vars, frag_vars>>
-----------------------------------------------------------------------------
(* unif(set, binding) ...; *)
UniformsAt(set, binding) ==
  {i \in DOMAIN uniforms : uniforms[i].set = set /\ uniforms[i].binding = binding}

\* Faulty variant for the mutation runs: the location may be occupied.
UniformLocationInRange(set, binding) ==
  Below(set, Limits.uniform_sets) /\ Below(binding, Limits.uniform_bindings)

UniformLocationOK(set, binding) ==
  /\ Below(set, Limits.uniform_sets)
  /\ Below(binding, Limits.uniform_bindings)
  /\ UniformsAt(set, binding) = {}

\* Faulty variant for the mutation runs: the index is compared before it is
\* cut to 8 bits.
HandleOKBeforeCast(d) ==
  /\ ParseVariableOK(d, Declared)
  /\ IsHandleType(d.prim) /\ d.size = NoSize
  /\ d.prim = SubpassInput =>
       \A i \in DOMAIN uniforms :
         uniforms[i].type.type = SubpassInput => uniforms[i].type.extra # d.targ.val

HandleOK(d) ==
  LET vt == ParsedType(d) IN
  /\ ParseVariableOK(d, Declared)
  /\ IsHandleType(vt.type) /\ ~ vt.is_array
  /\ vt.type = SubpassInput =>
       \A i \in DOMAIN uniforms :
         uniforms[i].type.type = SubpassInput => uniforms[i].type.extra # vt.extra

NewUniform(d, set, binding, index, offset, size) ==
  [name |-> d.name, type |-> ParsedType(d), set |-> Uint8(set), binding |-> Uint8(binding),
   block |-> [index |-> index, offset |-> offset, size |-> size]]

\* Faulty variant for the mutation runs: subpass inputs reach both stages.
HandleUniformInBothStages(d, set, binding) ==
  /\ status = "toplevel"
  /\ UniformLocationOK(set, binding)
  /\ HandleOK(d)
  /\ uniforms' = Append(uniforms, NewUniform(d, set, binding, 0, 0, 0))
  /\ AddGlobal(Global(d, "Uniform"))
  /\ EmitBoth(Line("handle", d.name, <<Uint8(set), Uint8(binding)>>, {}))
  /\ UNCHANGED <<status, current_stage, stages, attributes, outputs, blocks, push_constants,
                 push_layout, spec_constants, open>>

HandleUniformStatement(d, set, binding) ==
  LET line == Line("handle", d.name, <<Uint8(set), Uint8(binding)>>, {}) IN
  /\ status = "toplevel"
  /\ UniformLocationOK(set, binding)
  /\ HandleOK(d)
  /\ uniforms' = Append(uniforms, NewUniform(d, set, binding, 0, 0, 0))
  /\ AddGlobal(Global(d, "Uniform"))
  /\ EmitFrag(line)
  /\ IF d.prim = SubpassInput THEN UNCHANGED vert_vars ELSE EmitVert(line)
  /\ UNCHANGED <<status, current_stage, stages, attributes, outputs, blocks, push_constants,
                 push_layout, spec_constants, open>>
-----------------------------------------------------------------------------
(* unif(set, binding) block { ... };  header, members, close *)
OpenUniformBlock(set, binding) ==
  /\ status = "toplevel"
  /\ UniformLocationOK(set, binding)
  /\ status' = "block"
  /\ open' = [NoBlock EXCEPT !.set = set, !.binding = binding, !.index = Uint8(Len(blocks))]
  /\ EmitBoth(Line("block_header", NoName, <<set, binding>>, {}))
  /\ UNCHANGED <<current_stage, reflection, globals>>

\* The offset the next member of a block gets, a uint16.
AlignedOffset(offset) ==
  IF offset % ScalarAlign = 0 THEN offset
  ELSE Uint16(offset + (ScalarAlign - (offset % ScalarAlign)))

MemberOK(d, limit) ==
  /\ ParseVariableOK(d, Declared)
  /\ IsValueType(d.prim)
  /\ AlignedOffset(open.offset) + ScalarLayoutSize(ParsedType(d)) <= limit

\* Faulty variant for the mutation runs: an array takes the room of one element.
ExtendedByElement(d, members) ==
  LET offset == AlignedOffset(open.offset) IN
  [open EXCEPT !.offset  = Uint16(offset + GetValueTypeSize(d.prim)),
               !.packed  = @ /\ offset = open.offset,
               !.members = members]

\* The open block after the member d.
Extended(d, members) ==
  LET offset == AlignedOffset(open.offset) IN
  [open EXCEPT !.offset  = Uint16(offset + ScalarLayoutSize(ParsedType(d))),
               !.packed  = @ /\ offset = open.offset,
               !.members = members]

UniformBlockMember(d) ==
  LET offset == AlignedOffset(open.offset)
      size   == ScalarLayoutSize(ParsedType(d))
  IN
  /\ status = "block"
  /\ MemberOK(d, Limits.uniform_block_size)
  /\ AddGlobal(Global(d, "Uniform"))
  /\ uniforms' = Append(uniforms,
                        NewUniform(d, open.set, open.binding, open.index, offset, size))
  /\ open' = Extended(d, open.members \cup {Uint8(Len(uniforms))})
  /\ EmitBoth(Line("member", d.name, <<offset, size>>, {}))
  /\ UNCHANGED <<status, current_stage, stages, attributes, outputs, blocks, push_constants,
                 push_layout, spec_constants>>

CloseUniformBlock ==
  /\ status = "block"
  /\ open.members # {}
  /\ status' = "toplevel"
  /\ blocks' = Append(blocks, [set |-> Uint8(open.set), binding |-> Uint8(open.binding),
                               size |-> open.offset, packed |-> open.packed,
                               members |-> open.members])
  /\ open' = NoBlock
  /\ EmitBoth(Line("block_close", NoName, <<>>, {}))
  /\ UNCHANGED <<current_stage, stages, attributes, outputs, uniforms, push_constants,
                 push_layout, spec_constants, globals>>
-----------------------------------------------------------------------------
(* push block { ... };  an empty block is ignored before any check *)
\* Faulty variant for the mutation runs: a second push block is let through.
OpenAnyPushBlock ==
  /\ status = "toplevel"
  /\ status' = "push"
  /\ open' = NoBlock
  /\ EmitBoth(Line("push_header", NoName, <<>>, {}))
  /\ UNCHANGED <<current_stage, reflection, globals>>

OpenPushBlock ==
  /\ status = "toplevel"
  /\ push_constants = <<>>
  /\ status' = "push"
  /\ open' = NoBlock
  /\ EmitBoth(Line("push_header", NoName, <<>>, {}))
  /\ UNCHANGED <<current_stage, reflection, globals>>

PushBlockMember(d) ==
  LET offset == AlignedOffset(open.offset)
      size   == ScalarLayoutSize(ParsedType(d))
  IN
  /\ status = "push"
  /\ MemberOK(d, Limits.push_constants_size)
  /\ AddGlobal(Global(d, "PushConstant"))
  /\ push_constants' = Append(push_constants, [name |-> d.name, type |-> ParsedType(d),
                                               offset |-> offset, size |-> size])
  /\ open' = Extended(d, open.members)
  /\ EmitBoth(Line("member", d.name, <<offset, size>>, {}))
  /\ UNCHANGED <<status, current_stage, stages, attributes, outputs, uniforms, blocks,
                 push_layout, spec_constants>>

ClosePushBlock ==
  /\ status = "push"
  /\ push_constants # <<>>
  /\ status' = "toplevel"
  /\ push_layout' = [packed |-> open.packed, size |-> open.offset]
  /\ open' = NoBlock
  /\ EmitBoth(Line("block_close", NoName, <<>>, {}))
  /\ UNCHANGED <<current_stage, stages, attributes, outputs, uniforms, blocks,
                 push_constants, spec_constants, globals>>
-----------------------------------------------------------------------------
(* const ... = init;  and  const(index) ... = init;                        *)
(* An initialiser is a literal, a variable, an initialiser list or a cast  *)
(* of such atoms, or any other expression (never a compile constant).      *)
NoIndex == -2

Atoms(init) == IF init.kind \in {"list", "cast"} THEN ToSet(init.args) ELSE {init}
Referenced(init) == {a.name : a \in {b \in Atoms(init) : b.kind = "var"}}

Find(n) == globals[CHOOSE i \in DOMAIN globals : globals[i].name = n]

\* The Expr of a literal or a variable.  value is Expr::literal_value, which
\* only literals set; source and glsl are the values meant and emitted.
AtomExpr(a) ==
  IF a.kind = "literal"
  THEN [type |-> PlainType(a.prim), const |-> TRUE,
        value |-> a.value, source |-> a.value, glsl |-> a.value]
  ELSE LET g == Find(a.name) IN
       [type |-> g.type, const |-> g.scope \in {"Constant", "PushConstant"},
        value |-> 0, source |-> g.source, glsl |-> g.glsl]

\* The Expr of several arguments made into one value of type vt; a cast of
\* one scalar keeps its value, which is all the properties look at.
ComposedExpr(vt, args) ==
  LET scalar == Len(args) = 1 /\ IsScalarType(vt.type) IN
  [type |-> vt, const |-> \A i \in DOMAIN args : args[i].const, value |-> 0,
   source |-> IF scalar THEN args[1].source ELSE 0,
   glsl   |-> IF scalar THEN args[1].glsl ELSE 0]

\* The Expr of an initialiser where infer_type_ is infer.
Evaluate(init, infer) ==
  IF init.kind \in {"literal", "var"} THEN AtomExpr(init)
  ELSE IF init.kind = "other"
  THEN [type |-> init.type, const |-> FALSE, value |-> 0, source |-> 0, glsl |-> 0]
  ELSE LET args == [i \in DOMAIN init.args |-> AtomExpr(init.args[i])] IN
       ComposedExpr(IF init.kind = "cast" THEN PlainType(init.prim)
                    ELSE IF infer.is_array THEN ArrayType(infer.type, Len(args))
                    ELSE PlainType(infer.type),
                    args)

\* The checks made while an initialiser is visited.
InitialiserOK(init, infer) ==
  /\ Referenced(init) \subseteq Declared
  /\ init.kind \in {"list", "cast"} =>
       LET types == [i \in DOMAIN init.args |-> AtomExpr(init.args[i]).type] IN
       IF init.kind = "cast" THEN CheckConstructor(init.prim, types)
       ELSE IF infer.is_array
       THEN \A i \in DOMAIN types : ~ types[i].is_array /\ CanPromoteTo(types[i].type, infer.type)
       ELSE ~ IsScalarType(infer.type) /\ CheckConstructor(infer.type, types)

\* The checks a constant and a specialization constant share.
ConstantOK(d, init) ==
  LET vt == ParsedType(d)
      e  == Evaluate(init, vt)
  IN
  /\ ParseVariableOK(d, Declared)
  /\ IsValueType(vt.type)
  /\ InitialiserOK(init, vt)
  /\ e.const
  /\ e.type.is_array = vt.is_array /\ e.type.count = vt.count
  /\ vt.is_array \/ CanPromoteTo(e.type.type, vt.type)

\* Faulty variant for the mutation runs: only the fragment stage gets it.
GlobalConstantInFragment(d, init) ==
  LET e == Evaluate(init, ParsedType(d)) IN
  /\ status = "toplevel"
  /\ ConstantOK(d, init)
  /\ EmitFrag(Line("global_constant", d.name, <<>>, Referenced(init)))
  /\ AddGlobal([Global(d, "Constant") EXCEPT !.source = e.source, !.glsl = e.glsl])
  /\ UNCHANGED <<status, current_stage, reflection, open, vert_vars>>

GlobalConstantStatement(d, init) ==
  LET e == Evaluate(init, ParsedType(d)) IN
  /\ status = "toplevel"
  /\ ConstantOK(d, init)
  /\ EmitBoth(Line("global_constant", d.name, <<>>, Referenced(init)))
  /\ AddGlobal([Global(d, "Constant") EXCEPT !.source = e.source, !.glsl = e.glsl])
  /\ UNCHANGED <<status, current_stage, reflection, open>>

SpecConstantOK(d, index, init) ==
  /\ ConstantOK(d, init)
  /\ IsScalarType(d.prim) /\ d.size = NoSize
  /\ Below(index, 256)

\* A float constant given an integer expression has its text rewritten from
\* the expression's literal_value.
RewrittenAsFloat(d, e) == d.prim = Float /\ e.type.type # Float

SpecConstantStatement(d, index, init) ==
  LET e         == Evaluate(init, ParsedType(d))
      rewritten == RewrittenAsFloat(d, e)
  IN
  /\ status = "toplevel"
  /\ SpecConstantOK(d, index, init)
  /\ spec_constants' = Append(spec_constants,
       [name |-> d.name, type |-> ParsedType(d), index |-> index,
        size |-> ScalarLayoutSize(ParsedType(d)), default_value |-> e.value])
  /\ EmitBoth(Line("spec_constant", d.name, <<index>>,
                   IF rewritten THEN {} ELSE Referenced(init)))
  /\ AddGlobal([Global(d, "Constant") EXCEPT
                  !.source = e.source, !.glsl = IF rewritten THEN e.value ELSE e.glsl])
  /\ UNCHANGED <<status, current_stage, stages, attributes, outputs, uniforms, blocks,
                 push_constants, push_layout, open>>
-----------------------------------------------------------------------------
(* @vert { ... }  and  @frag { ... } *)
\* Faulty variant for the mutation runs: the current stage is not recorded.
EnterStageUnmarked(stage) ==
  /\ status = "toplevel"
  /\ stage \notin stages
  /\ stages' = stages \cup {stage}
  /\ status' = "stage"
  /\ UNCHANGED <<current_stage, attributes, outputs, uniforms, blocks, push_constants,
                 push_layout, spec_constants, globals, open, vert_vars, frag_vars>>

EnterStage(stage) ==
  /\ status = "toplevel"
  /\ stage \notin stages
  /\ stages' = stages \cup {stage}
  /\ current_stage' = stage
  /\ status' = "stage"
  /\ UNCHANGED <<attributes, outputs, uniforms, blocks, push_constants, push_layout,
                 spec_constants, globals, open, vert_vars, frag_vars>>

LeaveStage ==
  /\ status = "stage"
  /\ status' = "toplevel"
  /\ current_stage' = "None"
  /\ UNCHANGED <<reflection, globals, open, vert_vars, frag_vars>>

StageBodyRejected == status = "stage" /\ Throw
-----------------------------------------------------------------------------
(* End of the file: place the locals, check the stages, sort. *)
\* Faulty variant for the mutation runs: trusts the vector to be sorted.
LastAttrSlot ==
  IF attributes = <<>> THEN 0
  ELSE Last(attributes).location + Last(attributes).slot_count - 1

GetHighestAttrSlot ==
  IF attributes = <<>> THEN 0
  ELSE LET hi == CHOOSE i \in DOMAIN attributes :
                   \A j \in DOMAIN attributes : attributes[j].location <= attributes[i].location
       IN attributes[hi].location + attributes[hi].slot_count - 1

LocalBase == IF GetHighestAttrSlot + 1 >= Len(outputs) THEN GetHighestAttrSlot + 1
             ELSE Len(outputs)

\* The lines of the locals, in the order of their declarations.
LocalLines ==
  LET locals == {i \in DOMAIN globals : IsLocal(globals[i])}
      Nth(k) == CHOOSE i \in locals : Cardinality({j \in locals : j < i}) = k - 1
      At(i)  == LocalBase + LocalSlots(SubSeq(globals, 1, i - 1))
  IN [k \in 1 .. Cardinality(locals) |->
        Line("local", globals[Nth(k)].name, <<At(Nth(k))>>, {})]

EmitLocals == vert_vars' = vert_vars \o LocalLines /\ frag_vars' = frag_vars \o LocalLines

\* What std::sort may turn s into: it is not stable, so every reordering
\* that before does not contradict.
Reorderings(s) == {[i \in DOMAIN s |-> s[p[i]]] : p \in Bijection(DOMAIN s, DOMAIN s)}

SortedVersions(s, before(_, _)) ==
  {t \in Reorderings(s) : \A j \in DOMAIN t : \A i \in 1 .. j - 1 : ~ before(t[j], t[i])}

ByLocation(l, r) == l.location < r.location
\* Faulty variant for the mutation runs: the largest comes last.
BySize(l, r)     == l.size < r.size
ByOffset(l, r)   == l.offset < r.offset
\* Faulty variant for the mutation runs: the bindings of a set are left alone.
BySet(l, r)      == l.set < r.set
ByBinding(l, r)  == IF l.set = r.set THEN l.binding < r.binding ELSE l.set < r.set
ByBlockOffset(l, r) ==
  IF l.set = r.set /\ l.binding = r.binding THEN l.block.offset < r.block.offset
  ELSE ByBinding(l, r)

SameLocation(u, b) == u.set = b.set /\ u.binding = b.binding

\* sort() numbers the blocks and their members again: a block lists the
\* uniforms at its location, and each of those is told its (last) block.
MembersOf(b, us) == {Uint8(i - 1) : i \in {j \in DOMAIN us : SameLocation(us[j], b)}}

\* Faulty variant for the mutation runs: uniforms keep their block number.
NotReindexed(u, bs) == u

Reindexed(u, bs) ==
  LET mine == {k \in DOMAIN bs : SameLocation(u, bs[k])} IN
  IF mine = {} THEN u
  ELSE [u EXCEPT !.block.index =
          Uint8((CHOOSE k \in mine : \A j \in mine : j <= k) - 1)]

\* Faulty variant for the mutation runs: the outputs are forgotten.
SortWithoutOutputs ==
  /\ attributes' \in SortedVersions(attributes, ByLocation)
  /\ push_constants' \in SortedVersions(push_constants, ByOffset)
  /\ \E us \in SortedVersions(uniforms, ByBlockOffset), bs \in SortedVersions(blocks, ByBinding) :
       /\ uniforms' = [i \in DOMAIN us |-> Reindexed(us[i], bs)]
       /\ blocks' = [k \in DOMAIN bs |-> [bs[k] EXCEPT !.members = MembersOf(bs[k], us)]]
  /\ UNCHANGED outputs

Sort ==
  /\ attributes' \in SortedVersions(attributes, ByLocation)
  /\ outputs' \in SortedVersions(outputs, ByLocation)
  /\ push_constants' \in SortedVersions(push_constants, ByOffset)
  /\ \E us \in SortedVersions(uniforms, ByBlockOffset), bs \in SortedVersions(blocks, ByBinding) :
       /\ uniforms' = [i \in DOMAIN us |-> Reindexed(us[i], bs)]
       /\ blocks' = [k \in DOMAIN bs |-> [bs[k] EXCEPT !.members = MembersOf(bs[k], us)]]

Finish ==
  /\ status = "toplevel"
  /\ stages = Stages
  /\ EmitLocals
  /\ Sort
  /\ status' = "done"
  /\ UNCHANGED <<current_stage, stages, push_layout, spec_constants, globals, open>>

FinishWithoutStage ==
  /\ status = "toplevel"
  /\ stages # Stages
  /\ EmitLocals
  /\ status' = "failed"
  /\ UNCHANGED <<current_stage, reflection, globals, open>>
-----------------------------------------------------------------------------
(* Statements in error: the checks precede every change. *)
AttributeRejected(d, index)   == status = "toplevel" /\ ~ AttributeOK(d, index) /\ Throw
OutputRejected(d, index)      == status = "toplevel" /\ ~ OutputOK(d, index) /\ Throw
LocalRejected(d)              == status = "toplevel" /\ ~ LocalOK(d) /\ Throw
HandleRejected(d, set, binding) ==
  /\ status = "toplevel"
  /\ ~ (UniformLocationOK(set, binding) /\ HandleOK(d))
  /\ Throw
\* The location is taken, or (an error too) the block has no members.
UniformBlockRejected          == status = "toplevel" /\ Throw
SecondPushBlock               == status = "toplevel" /\ push_constants # <<>> /\ Throw
MemberRejected(d) ==
  /\ \/ status = "block" /\ ~ MemberOK(d, Limits.uniform_block_size)
     \/ status = "push" /\ ~ MemberOK(d, Limits.push_constants_size)
  /\ Throw
ConstantRejected(d, index, init) ==
  /\ status = "toplevel"
  /\ IF index = NoIndex THEN ~ ConstantOK(d, init) ELSE ~ SpecConstantOK(d, index, init)
  /\ Throw
SecondStage(stage)            == status = "toplevel" /\ stage \in stages /\ Throw

Terminated == status \in {"done", "failed"} /\ UNCHANGED vars

Allows(kind) == kind \in Kinds

Interface ==
  \/ \E d \in Decls, index \in Literals :
       /\ Allows("attr")
       /\ VertexAttributeStatement(d, index) \/ AttributeRejected(d, index)
  \/ \E d \in Decls, index \in Literals :
       /\ Allows("frag")
       /\ FragmentOutputStatement(d, index) \/ OutputRejected(d, index)
  \/ \E d \in Decls, flat \in BOOLEAN :
       /\ Allows("local")
       /\ LocalStatement(d, flat) \/ LocalRejected(d)

Resources ==
  \/ \E d \in Decls, set, binding \in Literals :
       /\ Allows("unif")
       /\ HandleUniformStatement(d, set, binding) \/ HandleRejected(d, set, binding)
  \/ Allows("unif") /\ \E set, binding \in Literals : OpenUniformBlock(set, binding)
  \/ Allows("unif") /\ UniformBlockRejected
  \/ \E d \in Decls : UniformBlockMember(d) \/ PushBlockMember(d) \/ MemberRejected(d)
  \/ CloseUniformBlock
  \/ Allows("push") /\ (OpenPushBlock \/ SecondPushBlock)
  \/ ClosePushBlock

Constants ==
  \E d \in Decls, init \in Inits :
    \/ Allows("const") /\ (GlobalConstantStatement(d, init) \/ ConstantRejected(d, NoIndex, init))
    \/ \E index \in Literals :
         /\ Allows("spec")
         /\ SpecConstantStatement(d, index, init) \/ ConstantRejected(d, index, init)

Functions == \E stage \in Stages : EnterStage(stage) \/ SecondStage(stage)

Next ==
  \/ \E ver \in Versions, compute \in BOOLEAN : ShaderVersionStatement(ver, compute)
  \/ Interface
  \/ Resources
  \/ Constants
  \/ Functions
  \/ LeaveStage \/ StageBodyRejected
  \/ Finish \/ FinishWithoutStage
  \/ Terminated

Spec == Init /\ [][Next]_vars
-----------------------------------------------------------------------------
Attribute == [name : Names, type : HLSVType, location : uint8, slot_count : uint8]
Output    == [name : Names, type : HLSVType, location : uint8]
Uniform   == [name : Names, type : HLSVType, set : uint8, binding : uint8,
              block : [index : uint8, offset : uint16, size : uint16]]
Block     == [set : uint8, binding : uint8, size : uint16, packed : BOOLEAN,
              members : SUBSET uint8]
PushConst == [name : Names, type : HLSVType, offset : uint16, size : uint16]
SpecConst == [name : Names, type : HLSVType, index : uint8, size : uint16,
              default_value : Int]
OpenBlock == [set : Nat, binding : Nat, index : uint8, offset : uint16,
              packed : BOOLEAN, members : SUBSET uint8]
Variable  == [name : Names, type : HLSVType, flat : BOOLEAN, source : Int, glsl : Int,
              scope : {"Attribute", "Output", "Local", "Uniform", "PushConstant", "Constant"}]

\* Every field keeps the range of its C++ type; a stage is current exactly
\* while its function is visited.
TypeOK ==
  /\ status \in Statuses
  /\ current_stage \in Stages \cup {"None"}
  /\ status = "stage" => current_stage # "None"
  /\ status \notin {"stage", "failed"} => current_stage = "None"
  /\ stages \subseteq Stages
  /\ attributes \in Seq(Attribute) /\ outputs \in Seq(Output)
  /\ uniforms \in Seq(Uniform) /\ blocks \in Seq(Block)
  /\ push_constants \in Seq(PushConst)
  /\ push_layout \in [packed : BOOLEAN, size : uint16]
  /\ spec_constants \in Seq(SpecConst)
  /\ globals \in Seq(Variable)
  /\ open \in OpenBlock

SlotsOf(a) == a.location .. (a.location + a.slot_count - 1)

\* No two vertex attributes share a binding slot, though arrays and matrices
\* take several and statements come in any order, and none passes the limit
\* (the overlap test of VertexAttributeStatement).
AttributesDisjoint ==
  /\ \A i, j \in DOMAIN attributes :
       i # j => SlotsOf(attributes[i]) \cap SlotsOf(attributes[j]) = {}
  /\ \A i \in DOMAIN attributes :
       attributes[i].location + attributes[i].slot_count <= Limits.vertex_attribute_slots

\* No two fragment outputs have the same location.
OutputsDistinct ==
  \A i, j \in DOMAIN outputs : i # j => outputs[i].location # outputs[j].location

\* A (set, binding) pair holds one handle or the members of one block, also
\* while the block is still being visited: two uniforms at one location are
\* value members of the same block.
UniformLocationExclusive ==
  \A i, j \in DOMAIN uniforms :
    i # j /\ SameLocation(uniforms[i], uniforms[j]) =>
      /\ IsValueType(uniforms[i].type.type)
      /\ uniforms[i].block.index = uniforms[j].block.index

\* Two subpass inputs never read the same input attachment.
SubpassIndexesUnique ==
  \A i, j \in DOMAIN uniforms :
    /\ i # j
    /\ uniforms[i].type.type = SubpassInput /\ uniforms[j].type.type = SubpassInput
    => uniforms[i].type.extra # uniforms[j].type.extra

\* Byte ranges of the variables xs (with offset and size) are aligned, do not
\* overlap and end within limit.
SideBySide(xs, limit) ==
  /\ \A x \in xs : x.offset % ScalarAlign = 0 /\ x.offset + x.size <= limit
  /\ \A x, y \in xs : x # y => x.offset + x.size <= y.offset \/ y.offset + y.size <= x.offset

\* Members of a uniform block lie side by side inside the size reflected for
\* the block, which is within the configured limit.
BlockLayoutSound ==
  \A k \in DOMAIN blocks :
    LET b == blocks[k] IN
    /\ b.size <= Limits.uniform_block_size
    /\ SideBySide({uniforms[i].block : i \in UniformsAt(b.set, b.binding)}, b.size)
    /\ Cardinality({uniforms[i].block.offset : i \in UniformsAt(b.set, b.binding)})
         = Cardinality(UniformsAt(b.set, b.binding))

\* The same of the push constants, once their block is closed.
PushLayoutSound ==
  status \notin {"push", "failed"} =>
    /\ push_layout.size <= Limits.push_constants_size
    /\ SideBySide(ToSet(push_constants), push_layout.size)

\* Between statements, and again after sort() has renumbered everything, a
\* block lists exactly the uniforms at its location, and each of them names
\* that block.
BlockIndexesConsistent ==
  status \in {"toplevel", "stage", "done"} =>
    \A k \in DOMAIN blocks :
      LET mine == UniformsAt(blocks[k].set, blocks[k].binding) IN
      /\ blocks[k].members = {i - 1 : i \in mine}
      /\ \A i \in mine : uniforms[i].block.index = k - 1

\* The reflection info handed to the caller is sorted: attributes and outputs
\* by location, uniforms by location and offset, blocks by location, push
\* constants by offset, no two of them alike.  Specialization constants are
\* not sorted and keep the order of their declarations.
ReflectionSorted ==
  status = "done" =>
    /\ \A i, j \in DOMAIN attributes : i < j => attributes[i].location < attributes[j].location
    /\ \A i, j \in DOMAIN outputs : i < j => outputs[i].location < outputs[j].location
    /\ \A i, j \in DOMAIN uniforms : i < j => ByBlockOffset(uniforms[i], uniforms[j])
    /\ \A i, j \in DOMAIN blocks : i < j => ByBinding(blocks[i], blocks[j])
    /\ \A i, j \in DOMAIN push_constants :
         i < j => push_constants[i].offset < push_constants[j].offset

Placed(stream) == {i \in DOMAIN stream : stream[i].op = "local"}
LocalRange(l) == l.at[1] .. (l.at[1] + TrueSlots(Find(l.name).type) - 1)

\* The locations given to the locals at the end of the file overlap neither
\* each other nor the attributes, in the text of either stage.
LocalsPlaced ==
  \A stream \in {vert_vars, frag_vars} :
    /\ \A i, j \in Placed(stream) :
         i # j => LocalRange(stream[i]) \cap LocalRange(stream[j]) = {}
    /\ \A i \in Placed(stream), a \in ToSet(attributes) :
         LocalRange(stream[i]) \cap SlotsOf(a) = {}

\* Locals occupy no more than the configured number of binding slots.
LocalsWithinBudget ==
  LET taken[k \in 0 .. Len(globals)] ==
        IF k = 0 THEN 0
        ELSE taken[k - 1] + IF IsLocal(globals[k]) THEN TrueSlots(globals[k].type) ELSE 0
  IN taken[Len(globals)] <= Limits.local_slots

NamesOf(s) == {s[i].name : i \in DOMAIN s}
GlobalsIn(scope) == {globals[i].name : i \in {j \in DOMAIN globals : globals[j].scope = scope}}

\* Every global was declared once, and reflection and the symbol table name
\* the same variables, each in the table of its scope.
SymbolsReflected ==
  /\ \A i, j \in DOMAIN globals : i # j => globals[i].name # globals[j].name
  /\ NamesOf(attributes) = GlobalsIn("Attribute")
  /\ NamesOf(outputs) = GlobalsIn("Output")
  /\ NamesOf(uniforms) = GlobalsIn("Uniform")
  /\ NamesOf(push_constants) = GlobalsIn("PushConstant")
  /\ NamesOf(spec_constants) \subseteq GlobalsIn("Constant")

Located(stream, op) ==
  {<<stream[i].name, stream[i].at>> : i \in {j \in DOMAIN stream : stream[j].op = op}}

\* Under the header h, the member line l is in the block reflection puts it in.
Belongs(l, h, us, pushed) ==
  \/ /\ h.op = "block_header"
     /\ \E u \in DOMAIN us : us[u].name = l.name /\ h.at = <<us[u].set, us[u].binding>>
  \/ h.op = "push_header" /\ l.name \in NamesOf(pushed)

\* Every member line of the stream stands in its block: the nearest line above
\* it that is no member is the header it belongs under.
MembersHeaded(stream, us, pushed) ==
  \A i \in DOMAIN stream :
    stream[i].op = "member" =>
      \E j \in 1 .. i - 1 : /\ \A k \in j + 1 .. i : stream[k].op = "member"
                            /\ Belongs(stream[i], stream[j], us, pushed)

\* What the GLSL text binds is what reflection reports: attributes in the
\* vertex stage only, outputs in the fragment stage only, each at its location;
\* handles at their set and binding, in both stages except subpass inputs,
\* which only the fragment stage has; in both stages the members of the
\* uniform blocks and of the push block, each with its offset and size and
\* under the header of its own block, and the specialization constants with
\* their indices.
EmissionMatchesReflection ==
  LET handles == {i \in DOMAIN uniforms : IsHandleType(uniforms[i].type.type)}
      At(i)   == <<uniforms[i].name, <<uniforms[i].set, uniforms[i].binding>>>>
      InBlock(i) == <<uniforms[i].name, <<uniforms[i].block.offset, uniforms[i].block.size>>>>
      Pushed(i)  == <<push_constants[i].name,
                      <<push_constants[i].offset, push_constants[i].size>>>>
  IN
  /\ Located(vert_vars, "attribute") =
       {<<attributes[i].name, <<attributes[i].location>>>> : i \in DOMAIN attributes}
  /\ Located(frag_vars, "attribute") = {}
  /\ Located(frag_vars, "output") =
       {<<outputs[i].name, <<outputs[i].location>>>> : i \in DOMAIN outputs}
  /\ Located(vert_vars, "output") = {}
  /\ Located(frag_vars, "handle") = {At(i) : i \in handles}
  /\ Located(vert_vars, "handle") =
       {At(i) : i \in {j \in handles : uniforms[j].type.type # SubpassInput}}
  /\ \A stream \in {vert_vars, frag_vars} :
       /\ Located(stream, "member") = {InBlock(i) : i \in DOMAIN uniforms \ handles}
                                        \cup {Pushed(i) : i \in DOMAIN push_constants}
       /\ MembersHeaded(stream, uniforms, push_constants)
       /\ Located(stream, "spec_constant") =
            {<<spec_constants[i].name, <<spec_constants[i].index>>>> :
               i \in DOMAIN spec_constants}

\* In each stage's text, whatever an initialiser uses is declared above it.
DeclaredBeforeUse ==
  \A stream \in {vert_vars, frag_vars} : \A i \in DOMAIN stream :
    stream[i].uses \subseteq {stream[j].name : j \in 1 .. i - 1}

\* The default value reflected for a specialization constant is the value the
\* program gives it.
SpecDefaultReflected ==
  \A i \in DOMAIN spec_constants :
    spec_constants[i].default_value = Find(spec_constants[i].name).source

\* Nothing a constant is initialised from has a value set at draw time.
InitialisersAreCompileTime ==
  \A i \in DOMAIN vert_vars : \A n \in vert_vars[i].uses : Find(n).scope = "Constant"

-----------------------------------------------------------------------------
(* The tables of attribute slots, outputs and uniform locations are three  *)
(* binding spaces.  The owner of a uniform location is the first uniform   *)
(* get_uniform_at finds there.                                             *)
OwnerOf(table, taken(_)) ==
  LET holders == {i \in DOMAIN table : taken(table[i])} IN
  IF holders = {} THEN NoName
  ELSE table[CHOOSE i \in holders : \A j \in holders : i <= j].name

AttributeSlots   == 0 .. (Limits.vertex_attribute_slots - 1)
OutputSlots      == 0 .. (Limits.fragment_outputs - 1)
UniformLocations == (0 .. (Limits.uniform_sets - 1)) \X (0 .. (Limits.uniform_bindings - 1))

AttributeOwner == [s \in AttributeSlots |-> OwnerOf(attributes, LAMBDA x : s \in SlotsOf(x))]
OutputOwner    == [s \in OutputSlots |-> OwnerOf(outputs, LAMBDA x : x.location = s)]
UniformOwner   ==
  [s \in UniformLocations |-> OwnerOf(uniforms, LAMBDA x : <<x.set, x.binding>> = s)]

AttributeSpace == INSTANCE BindingSpace WITH
  Slots <- AttributeSlots, Owners <- Names, Free <- NoName, owner <- AttributeOwner
OutputSpace == INSTANCE BindingSpace WITH
  Slots <- OutputSlots, Owners <- Names, Free <- NoName, owner <- OutputOwner
UniformSpace == INSTANCE BindingSpace WITH
  Slots <- UniformLocations, Owners <- Names, Free <- NoName, owner <- UniformOwner

\* The compiler hands out binding slots as a binding space does: an
\* attribute, an output or a uniform takes all its slots at once, only free
\* ones, and never loses one, through sort() too.
AttributeSpaceSpec == AttributeSpace!Spec
OutputSpaceSpec    == OutputSpace!Spec
UniformSpaceSpec   == UniformSpace!Spec
=============================================================================
