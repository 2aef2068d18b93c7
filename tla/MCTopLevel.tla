----------------------------- MODULE MCTopLevel -----------------------------
(***************************************************************************)
(* Finite instances of TopLevel: declaration, literal and initialiser sets *)
(* for each family of statements.                                          *)
(***************************************************************************)
EXTENDS ReflWriter

CONSTANTS n1, n2, n3, n4, refused, nobody

AllNames     == {n1, n2, n3, n4}
ThreeNames   == {n1, n2, n3}
WithBadName  == {n1, n2, n3, refused}
JustBad      == {refused}
NoBadNames   == {}

\* Names are interchangeable: every set below is built from all of Names.
Symmetry == Permutations(Names \ BadNames)

DefaultLimits == [vertex_attribute_slots |-> 16, fragment_outputs |-> 4, local_slots |-> 8,
                  uniform_sets |-> 4, uniform_bindings |-> 8, uniform_block_size |-> 1024,
                  push_constants_size |-> 128]
SmallLimits == [DefaultLimits EXCEPT !.vertex_attribute_slots = 6, !.fragment_outputs = 3,
                  !.local_slots = 6, !.uniform_sets = 2, !.uniform_bindings = 2,
                  !.uniform_block_size = 24, !.push_constants_size = 24]

JustV100 == {100}
NoInits == {}

\* A scalar, an array and a matrix (1, 2 and 3 slots), an integer, a handle.
InterfaceDecls == UNION {
  {Declaration(n, Float), ArrayDecl(n, SInt, 2), Declaration(n, Mat3)} : n \in Names}
InterfaceLiterals == {0, 2, 3, 5}
InterfaceKinds == {"attr", "frag", "local"}

\* Members of 4 and 12 bytes and subpass inputs whose indexes are equal once
\* cut to 8 bits.
UniformDecls == UNION {
  {Declaration(n, Float), ArrayDecl(n, UInt, 3),
   SubpassDecl(n, SubpassInput, 0), SubpassDecl(n, SubpassInput, 256)} : n \in Names}
UniformLiterals == {0, 1, 2}
UniformKinds == {"unif"}

Vec2 == 14
IntLiteral    == [kind |-> "literal", prim |-> SInt, value |-> 3]
FloatLiteral  == [kind |-> "literal", prim |-> Float, value |-> 5]
NameAtom(n)   == [kind |-> "var", name |-> n]

\* Inputs of the runs that disagree with a comment of the source: a local
\* array of 64 matrices, constants initialised from names.
OneName == {n1}
TwoNames == {n1, n2}
BigLocals == {ArrayDecl(n, Mat4, 64) : n \in Names}
IntDecls == {Declaration(n, SInt) : n \in Names}
NameInits == {IntLiteral} \cup {NameAtom(n) : n \in Names}
LocalKinds == {"local"}
SpecKinds == {"const", "spec"}
PushKinds == {"const", "push"}

\* Declarations for each kind of statement, and constants of four shapes from
\* literals, names, lists and casts.
MixedDecls == UNION {
  {Declaration(n, Vec2), Declaration(n, SInt), ArrayDecl(n, Float, 2),
   SubpassDecl(n, SubpassInput, 1), ImageDecl(n, Image1D, Float)} : n \in Names}
MixedInits ==
  {[kind |-> "list", args |-> <<IntLiteral, FloatLiteral>>],
   [kind |-> "cast", prim |-> SInt, args |-> <<FloatLiteral>>]}
  \cup {NameAtom(n) : n \in Names \ BadNames}
MixedLiterals == {0, Unparsable}
MixedVersions == {100, 200}
MixedKinds == {"attr", "frag", "local", "unif", "push", "const", "spec"}
=============================================================================
