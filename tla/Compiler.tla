------------------------------ MODULE Compiler ------------------------------
(***************************************************************************)
(* hlsv::Compiler over many calls: compile() with preparePaths(),          *)
(* writeGLSL() and cleanGLSL(), the members that survive a call            *)
(* (last_error_, reflect_), and the files it reads, writes and removes.    *)
(* Several compilers share a file system, each in a process of its own; a  *)
(* call is cut into steps where another process may touch a file.          *)
(*                                                                         *)
(* A shader stands for its text.  A file is a shader's source or something *)
(* generated from it.  What the ofstream operators do once a file is open  *)
(* is never checked by the code: a generated file may have been cut short. *)
(***************************************************************************)
EXTENDS Naturals, FiniteSets

CONSTANTS
  Compilers,        \* the Compiler objects
  Files,            \* absolute paths
  Shaders,          \* source texts
  Parses,           \* the shaders that parse ...
  Compiles,         \* ... and those of them the visitor accepts
  Inputs,           \* Inputs[c]: the files compiler c is asked to compile
  Options,          \* the CompilerOptions used, as far as they select outputs
  InitialFiles,     \* the file system at the start
  Output,           \* Output[file][kind]: where an output of a file goes
  Removable,        \* the files that remove_file can remove
  OutputsMustExist, \* TRUE where make_absolute() is realpath(), as on POSIX
  NoShader          \* not a shader

Text(kind, shader) == [kind |-> kind, of |-> shader]
Absent  == Text("absent", NoShader)
Content == {Absent} \cup [kind : {"hlsv", "refl", "vert", "frag"}, of : Shaders]
OutputKinds == {"refl", "vert", "frag"}

ASSUME ShadersAssumption ==
  Compiles \subseteq Parses /\ Parses \subseteq Shaders /\ NoShader \notin Shaders
ASSUME FilesAssumption ==
  /\ Files # {}
  /\ Inputs \in [Compilers -> SUBSET Files]
  /\ InitialFiles \in [Files -> Content]
  /\ Removable \subseteq Files
OptionRecord == [generate_reflection_file : BOOLEAN, keep_intermediate : BOOLEAN]
ASSUME OptionsAssumption == Options \subseteq OptionRecord
\* The three outputs of a file differ in their extension.
ASSUME OutputAssumption ==
  /\ Output \in [Files -> [OutputKinds -> Files]]
  /\ \A f \in Files : \A k, l \in OutputKinds : k # l => Output[f][k] # Output[f][l]

VARIABLES
  pc,          \* where each call is
  call,        \* its arguments, kept until the next call
  source,      \* the local variable of compile()
  last_error,  \* last_error_: "none" or the place that set it
  reflect,     \* reflect_: the shader it describes, or NoShader
  result,      \* how the last call ended: see Results
  files

local == <<pc, call, source, last_error, reflect, result>>
vars  == <<local, files>>

Results == {"none", "true", "false", "threw"}
Errors  == {"none", "input", "open", "parser", "compiler", "refl", "glsl"}
Places  == {"idle", "paths", "open", "parse", "visit", "refl", "vert", "frag",
            "undo", "undo_frag", "finish", "clean_frag"}
NoCall  == [file |-> CHOOSE f \in Files : TRUE,
            options |-> [generate_reflection_file |-> FALSE, keep_intermediate |-> FALSE]]

Init ==
  /\ pc = [c \in Compilers |-> "idle"]
  /\ call = [c \in Compilers |-> NoCall]
  /\ source = [c \in Compilers |-> Absent]
  /\ last_error = [c \in Compilers |-> "none"]
  /\ reflect = [c \in Compilers |-> NoShader]
  /\ result = [c \in Compilers |-> "none"]
  /\ files = InitialFiles

At(c, place)      == pc[c] = place
Goto(c, place)    == pc' = [pc EXCEPT ![c] = place]
OutputOf(c, kind) == Output[call[c].file][kind]

Return(c, res, err) ==
  /\ Goto(c, "idle")
  /\ result' = [result EXCEPT ![c] = res]
  /\ last_error' = [last_error EXCEPT ![c] = err]

\* Faulty variant for the mutation runs: the path is not set to the second file.
RemovedVertAgain(c, kind) ==
  [f \in Files |-> IF f = OutputOf(c, "vert") /\ f \in Removable THEN Absent ELSE files[f]]

\* What cleanGLSL does to one intermediate file.
Removed(c, kind) ==
  [f \in Files |-> IF f = OutputOf(c, kind) /\ f \in Removable THEN Absent ELSE files[f]]
-----------------------------------------------------------------------------
Begin(c, file, options) ==
  /\ At(c, "idle")
  /\ Goto(c, "paths")
  /\ call' = [call EXCEPT ![c] = [file |-> file, options |-> options]]
  /\ source' = [source EXCEPT ![c] = Absent]
  /\ result' = [result EXCEPT ![c] = "none"]
  /\ UNCHANGED <<last_error, reflect, files>>

(* preparePaths; make_absolute() of the outputs is outside its try block. *)
InputExists(c)       == files[call[c].file] # Absent
OutputsResolvable(c) ==
  OutputsMustExist => \A kind \in OutputKinds : files[OutputOf(c, kind)] # Absent

PreparePaths(c) ==
  /\ At(c, "paths")
  /\ InputExists(c) /\ OutputsResolvable(c)
  /\ Goto(c, "open")
  /\ UNCHANGED <<call, source, last_error, reflect, result, files>>

InputMissing(c) ==
  /\ At(c, "paths")
  /\ ~ InputExists(c)
  /\ Return(c, "false", "input")
  /\ UNCHANGED <<call, source, reflect, files>>

PathsThrow(c) ==
  /\ At(c, "paths")
  /\ InputExists(c) /\ ~ OutputsResolvable(c)
  /\ Return(c, "threw", last_error[c])
  /\ UNCHANGED <<call, source, reflect, files>>

OpenInput(c) ==
  /\ At(c, "open")
  /\ InputExists(c)
  /\ source' = [source EXCEPT ![c] = files[call[c].file]]
  /\ Goto(c, "parse")
  /\ UNCHANGED <<call, last_error, reflect, result, files>>

\* The file has gone since, or may not be read.
OpenFails(c) ==
  /\ At(c, "open")
  /\ Return(c, "false", "open")
  /\ UNCHANGED <<call, source, reflect, files>>
-----------------------------------------------------------------------------
IsShaderIn(text, shaders) == text.kind = "hlsv" /\ text.of \in shaders

Parse(c) ==
  /\ At(c, "parse")
  /\ IsShaderIn(source[c], Parses)
  /\ Goto(c, "visit")
  /\ UNCHANGED <<call, source, last_error, reflect, result, files>>

\* Faulty variant for the mutation runs: the listener's error is not copied.
SyntaxErrorUnset(c) ==
  /\ At(c, "parse")
  /\ ~ IsShaderIn(source[c], Parses)
  /\ Return(c, "false", last_error[c])
  /\ UNCHANGED <<call, source, reflect, files>>

SyntaxError(c) ==
  /\ At(c, "parse")
  /\ ~ IsShaderIn(source[c], Parses)
  /\ Return(c, "false", "parser")
  /\ UNCHANGED <<call, source, reflect, files>>

\* Faulty variant for the mutation runs: info that is there is not replaced.
VisitOnce(c) ==
  /\ At(c, "visit")
  /\ source[c].of \in Compiles
  /\ reflect' = [reflect EXCEPT ![c] = IF @ = NoShader THEN source[c].of ELSE @]
  /\ Goto(c, "refl")
  /\ UNCHANGED <<call, source, last_error, result, files>>

\* Faulty variant for the mutation runs: a VisitError goes unnoticed.
VisitUnchecked(c) ==
  /\ At(c, "visit")
  /\ reflect' = [reflect EXCEPT ![c] = source[c].of]
  /\ Goto(c, "refl")
  /\ UNCHANGED <<call, source, last_error, result, files>>

\* The old reflection info is deleted, and the visitor fills a new one.
Visit(c) ==
  /\ At(c, "visit")
  /\ source[c].of \in Compiles
  /\ reflect' = [reflect EXCEPT ![c] = source[c].of]
  /\ Goto(c, "refl")
  /\ UNCHANGED <<call, source, last_error, result, files>>

VisitFails(c) ==
  /\ At(c, "visit")
  /\ source[c].of \notin Compiles
  /\ reflect' = [reflect EXCEPT ![c] = NoShader]
  /\ Return(c, "false", "compiler")
  /\ UNCHANGED <<call, source, files>>
-----------------------------------------------------------------------------
WriteReflection(c) ==
  /\ At(c, "refl")
  /\ call[c].options.generate_reflection_file
  /\ files' = [files EXCEPT ![OutputOf(c, "refl")] = Text("refl", reflect[c])]
  /\ Goto(c, "vert")
  /\ UNCHANGED <<call, source, last_error, reflect, result>>

WriteReflectionFails(c) ==
  /\ At(c, "refl")
  /\ call[c].options.generate_reflection_file
  /\ Return(c, "false", "refl")
  /\ UNCHANGED <<call, source, reflect, files>>

NoReflectionFile(c) ==
  /\ At(c, "refl")
  /\ ~ call[c].options.generate_reflection_file
  /\ Goto(c, "vert")
  /\ UNCHANGED <<call, source, last_error, reflect, result, files>>

\* writeGLSL: both stages are always there (visitFile insists).
WriteGLSL(c, stage) ==
  /\ At(c, stage)
  /\ files' = [files EXCEPT ![OutputOf(c, stage)] = Text(stage, source[c].of)]
  /\ Goto(c, IF stage = "vert" THEN "frag" ELSE "finish")
  /\ UNCHANGED <<call, source, last_error, reflect, result>>

WriteGLSLFails(c, stage) ==
  /\ At(c, stage)
  /\ last_error' = [last_error EXCEPT ![c] = "glsl"]
  /\ Goto(c, "undo")
  /\ UNCHANGED <<call, source, reflect, result, files>>

(* cleanGLSL, one file at a time, from either of its two call sites.       *)
CleanVert(c) ==
  /\ \/ At(c, "undo") /\ Goto(c, "undo_frag")
     \/ At(c, "finish") /\ ~ call[c].options.keep_intermediate /\ Goto(c, "clean_frag")
  /\ files' = Removed(c, "vert")
  /\ UNCHANGED <<call, source, last_error, reflect, result>>

Undo(c) ==
  /\ At(c, "undo_frag")
  /\ files' = Removed(c, "frag")
  /\ Return(c, "false", last_error[c])
  /\ UNCHANGED <<call, source, reflect>>

Finish(c) ==
  /\ \/ At(c, "finish") /\ call[c].options.keep_intermediate /\ UNCHANGED files
     \/ At(c, "clean_frag") /\ files' = Removed(c, "frag")
  /\ Return(c, "true", "none")
  /\ UNCHANGED <<call, source, reflect>>
-----------------------------------------------------------------------------
\* A step of compile() itself.
Step(c) ==
  \/ PreparePaths(c) \/ InputMissing(c) \/ PathsThrow(c)
  \/ OpenInput(c) \/ OpenFails(c)
  \/ Parse(c) \/ SyntaxError(c)
  \/ Visit(c) \/ VisitFails(c)
  \/ WriteReflection(c) \/ WriteReflectionFails(c) \/ NoReflectionFile(c)
  \/ \E stage \in {"vert", "frag"} : WriteGLSL(c, stage) \/ WriteGLSLFails(c, stage)
  \/ CleanVert(c) \/ Undo(c) \/ Finish(c)

Next ==
  \E c \in Compilers :
    \/ \E file \in Inputs[c], options \in Options : Begin(c, file, options)
    \/ Step(c)

Spec == Init /\ [][Next]_vars
-----------------------------------------------------------------------------
\* Every field of a compiler and every file has a value of its kind.
TypeOK ==
  /\ pc \in [Compilers -> Places]
  /\ call \in [Compilers -> [file : Files, options : OptionRecord]]
  /\ source \in [Compilers -> Content]
  /\ last_error \in [Compilers -> Errors]
  /\ reflect \in [Compilers -> Compiles \cup {NoShader}]
  /\ result \in [Compilers -> Results]
  /\ files \in [Files -> Content]

\* A call that returned true left no error, and one that returned false left
\* one, whatever the call before it left in last_error_.
ErrorMatchesResult ==
  \A c \in Compilers :
    /\ result[c] = "true" => last_error[c] = "none"
    /\ result[c] = "false" => last_error[c] # "none"

\* The reflection info is that of the text this call read, from the visit to
\* the end of a successful call; a failed visit leaves none, not even that of
\* the call before.
ReflectionFollowsVisit ==
  \A c \in Compilers :
    /\ pc[c] \in {"refl", "vert", "frag", "undo", "undo_frag", "finish", "clean_frag"}
         \/ result[c] = "true" => reflect[c] = source[c].of
    /\ result[c] = "false" /\ last_error[c] = "compiler" => reflect[c] = NoShader

OutputsOf(f) == {Output[f][kind] : kind \in OutputKinds}

\* No other compiler reads or writes the outputs of c's call.
Alone(c) ==
  \A d \in Compilers \ {c} : \A g \in Inputs[d] :
    OutputsOf(call[c].file) \cap (OutputsOf(g) \cup {g}) = {}

Holds(c, kind)   == files[OutputOf(c, kind)] = Text(kind, source[c].of)
GlslRemoved(c) ==
  \A f \in {OutputOf(c, "vert"), OutputOf(c, "frag")} \cap Removable : files[f] = Absent

\* When a call has returned, the outputs that were asked for come from the
\* text it read, intermediate files not asked for are gone, and a call whose
\* second GLSL file failed leaves no first one; what other compilers do in
\* the meantime elsewhere changes nothing.
OutputsAsRequested ==
  \A c \in Compilers : Alone(c) =>
    /\ result[c] = "true" =>
         /\ call[c].options.generate_reflection_file => Holds(c, "refl")
         /\ IF call[c].options.keep_intermediate THEN Holds(c, "vert") /\ Holds(c, "frag")
            ELSE GlslRemoved(c)
    /\ result[c] = "false" /\ last_error[c] = "glsl" => GlslRemoved(c)

\* The reflection info is there only if the last call was successful.
ReflectionOnlyOnSuccess ==
  \A c \in Compilers : result[c] = "false" => reflect[c] = NoShader

\* compile() reports success or failure as a boolean.
ReturnsBoolean == \A c \in Compilers : result[c] # "threw"
=============================================================================
