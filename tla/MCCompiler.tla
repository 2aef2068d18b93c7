----------------------------- MODULE MCCompiler -----------------------------
(***************************************************************************)
(* Finite instances of Compiler: files are a base name with an extension.  *)
(***************************************************************************)
EXTENDS Compiler

CONSTANTS c1, good, other, rejected, garbled, none

File(base, ext) == [base |-> base, ext |-> ext]
AllShaders    == {good, other, rejected, garbled}
ParsingOnes   == {good, other, rejected}
CompilingOnes == {good, other}

FilesOf(bases)    == {File(b, e) : b \in bases, e \in {"hlsv", "txt", "refl", "vert", "frag"}}
OutputFrom(fs)    == [f \in fs |-> [kind \in OutputKinds |-> File(f.base, kind)]]
With(fs, initial) == [f \in fs |-> IF f \in DOMAIN initial THEN initial[f] ELSE Absent]
Source(s)         == Text("hlsv", s)
AllOptions        == [generate_reflection_file : BOOLEAN, keep_intermediate : BOOLEAN]

\* One compiler where paths must exist: two files with the outputs in common,
\* of which one outlives every removal, a source named as an output, a file
\* the visitor rejects, one that does not parse, and one that is missing.
OneCompiler == {c1}
CallFiles   == FilesOf({"a", "b"})
CallInputs  ==
  [c \in OneCompiler |-> {File("a", "hlsv"), File("a", "txt"), File("b", "vert"),
                          File("b", "hlsv"), File("a", "frag"), File("b", "refl")}]
CallInitialFiles ==
  With(CallFiles, [f \in {File("a", "hlsv"), File("a", "txt"), File("a", "refl"),
                          File("a", "vert"), File("a", "frag"), File("b", "hlsv"),
                          File("b", "vert"), File("b", "frag")} |->
    CASE f = File("a", "hlsv") -> Source(good)
      [] f = File("a", "txt")  -> Source(other)
      [] f = File("a", "refl") -> Text("refl", other)
      [] f = File("a", "frag") -> Source(rejected)
      [] f = File("b", "hlsv") -> Source(garbled)
      [] OTHER                 -> Source(good)])
CallOutput    == OutputFrom(CallFiles)
CallRemovable == CallFiles \ {File("a", "frag")}
=============================================================================
