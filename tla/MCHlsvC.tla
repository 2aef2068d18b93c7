------------------------------- MODULE MCHlsvC -------------------------------
(***************************************************************************)
(* Two processes of the tool started side by side, as a build does, on     *)
(* lists that mix good, faulty and missing files.                          *)
(***************************************************************************)
EXTENDS HlsvC

CONSTANTS c1, c2, good, other, rejected, garbled, none

File(base, ext) == [base |-> base, ext |-> ext]
ToolProcesses == {c1, c2}
ToolShaders   == {good, other, rejected, garbled}
ParsingOnes   == {good, other, rejected}
CompilingOnes == {good, other}

A == File("a", "hlsv")
B == File("b", "hlsv")
C == File("c", "hlsv")
V == File("b", "vert")     \* an output of B, and an input too
D == File("d", "hlsv")
M == File("m", "hlsv")     \* does not exist

Digits == File("16", "")   \* a file whose name could be a limit
Odd    == File("2d", "hlsv")

ToolFiles == {File(b, e) : b \in {"a", "b", "c", "d", "m", "2d", "16"},
                           e \in {"", "hlsv", "refl", "vert", "frag"}}

\* Limits: given, twice, out of range, negative, without a value, of no known
\* type; flags after each, and a help flag last.  The others are full of work.
Attr == LimitFlag("attr")
High == Number(40, Digits)
Four == Number(4, Digits)
OddLines ==
  {<<Attr, Four, Name(M), Attr, Number(8, Digits)>>,
   <<Attr, High, Flag("reflect"), Name(M)>>,
   <<Attr, Flag("negative"), Flag("binary"), Name(M)>>,
   <<Name(M), LimitFlag("none"), Four, Flag("glsl"), Four, Attr>>,
   <<Attr, Name(Odd), LimitFlag("uset"), Four, Flag("other")>>,
   <<Attr, Flag("glsl"), Four>>,
   <<Name(A), Name(B), Attr, Flag("help")>>,
   <<Flag("reflect"), LimitFlag("frag"), Four>>}

ToolLines == [c \in ToolProcesses |->
  IF c = c1
  THEN OddLines \cup {<<Name(A), Name(B), Flag("binary"), Attr, Four, Name(C), Name(M)>>,
                      <<Flag("glsl"), Name(A), Name(C), Name(A)>>}
  ELSE {<<Flag("glsl"), Name(B), Name(V), Name(D)>>}]
ToolInputs == [c \in ToolProcesses |->
  UNION {ToSet(ParseArgs(line).input_files) : line \in ToolLines[c]}]
BothOptions == [generate_reflection_file : BOOLEAN, keep_intermediate : BOOLEAN]

\* Paths must exist: the outputs of D and of the odd files do not.
Sources == [f \in {A, B, C, D, V, Odd} |->
  CASE f = A        -> Text("hlsv", good)
    [] f \in {B, D} -> Text("hlsv", other)
    [] f = C        -> Text("hlsv", rejected)
    [] OTHER        -> Text("hlsv", garbled)]
ToolFilesAtStart ==
  [f \in ToolFiles |->
    CASE f \in DOMAIN Sources -> Sources[f]
      [] f \notin DOMAIN Sources /\ f.base \in {"a", "b", "c"} /\ f.ext \in OutputKinds ->
           Text(f.ext, rejected)
      [] OTHER -> Absent]
ToolOutput == [f \in ToolFiles |-> [kind \in OutputKinds |-> File(f.base, kind)]]
=============================================================================
