---------------------------- MODULE CompilerProofs ----------------------------
(***************************************************************************)
(* Theorems about Compiler for every number of compilers, every file       *)
(* system and every sequence of calls, and about the processes of HlsvC    *)
(* for all their command lines, checked by TLAPS.                          *)
(***************************************************************************)
EXTENDS HlsvC, StateSequences

LEMMA AbsentContent == Absent \in Content
  BY DEF Content

LEMMA RemovedType ==
  ASSUME TypeOK, NEW c \in Compilers, NEW kind \in OutputKinds
  PROVE  Removed(c, kind) \in [Files -> Content]
  BY AbsentContent DEF TypeOK, Removed

-----------------------------------------------------------------------------
(* Types.                                                                  *)

LEMMA InitTypeOK == Init => TypeOK
<1> SUFFICES ASSUME Init PROVE TypeOK
  OBVIOUS
<1>1. NoCall \in [file : Files, options : OptionRecord]
  BY FilesAssumption DEF NoCall, OptionRecord
<1> QED
  BY <1>1, AbsentContent, FilesAssumption
  DEF Init, TypeOK, Places, Errors, Results

LEMMA BeginTypeOK ==
  ASSUME TypeOK, NEW c \in Compilers, NEW file \in Inputs[c], NEW options \in Options,
         Begin(c, file, options)
  PROVE  TypeOK'
<1>1. file \in Files /\ options \in OptionRecord
  BY FilesAssumption, OptionsAssumption
<1> QED
  BY <1>1, AbsentContent DEF TypeOK, Begin, Goto, Places, Results

\* The steps that change nothing but how the call stands.
LEMMA ControlTypeOK ==
  ASSUME TypeOK, NEW c \in Compilers,
         \/ PreparePaths(c) \/ InputMissing(c) \/ PathsThrow(c) \/ OpenFails(c)
         \/ Parse(c) \/ SyntaxError(c) \/ NoReflectionFile(c) \/ WriteReflectionFails(c)
         \/ \E stage \in {"vert", "frag"} : WriteGLSLFails(c, stage)
  PROVE  TypeOK'
<1>1. CASE PreparePaths(c) \/ Parse(c) \/ NoReflectionFile(c)
  BY <1>1 DEF TypeOK, PreparePaths, Parse, NoReflectionFile, Goto, Places
<1>2. CASE InputMissing(c) \/ OpenFails(c) \/ SyntaxError(c) \/ WriteReflectionFails(c)
  BY <1>2 DEF TypeOK, InputMissing, OpenFails, SyntaxError, WriteReflectionFails, Return, Goto,
       Places, Errors, Results
<1>3. CASE PathsThrow(c)
  BY <1>3 DEF TypeOK, PathsThrow, Return, Goto, Places, Results
<1>4. CASE \E stage \in {"vert", "frag"} : WriteGLSLFails(c, stage)
  BY <1>4 DEF TypeOK, WriteGLSLFails, Goto, Places, Errors
<1> QED
  BY <1>1, <1>2, <1>3, <1>4

LEMMA OpenInputTypeOK == ASSUME TypeOK, NEW c \in Compilers, OpenInput(c) PROVE TypeOK'
<1>1. files[call[c].file] \in Content
  BY DEF TypeOK
<1> QED
  BY <1>1 DEF TypeOK, OpenInput, Goto, Places

LEMMA VisitTypeOK ==
  ASSUME TypeOK, NEW c \in Compilers, Visit(c) \/ VisitFails(c) PROVE TypeOK'
  BY DEF TypeOK, Visit, VisitFails, Return, Goto, Places, Errors, Results

LEMMA WriteTypeOK ==
  ASSUME TypeOK, NEW c \in Compilers, NEW kind \in OutputKinds, NEW shader \in Shaders
  PROVE  [files EXCEPT ![OutputOf(c, kind)] = Text(kind, shader)] \in [Files -> Content]
  BY DEF TypeOK, Text, Content, OutputKinds

LEMMA CleanTypeOK ==
  ASSUME TypeOK, NEW c \in Compilers, CleanVert(c) \/ Undo(c) \/ Finish(c) PROVE TypeOK'
<1>1. Removed(c, "vert") \in [Files -> Content] /\ Removed(c, "frag") \in [Files -> Content]
  BY RemovedType DEF OutputKinds
<1>2. files' \in [Files -> Content]
  BY <1>1 DEF TypeOK, CleanVert, Undo, Finish
<1>3. CASE CleanVert(c)
  BY <1>2, <1>3 DEF TypeOK, CleanVert, Goto, Places
<1>4. CASE Undo(c) \/ Finish(c)
  BY <1>2, <1>4 DEF TypeOK, Undo, Finish, Return, Goto, Places, Errors, Results
<1> QED
  BY <1>3, <1>4

LEMMA WritesTypeOK ==
  ASSUME TypeOK, NEW c \in Compilers, source[c].of \in Shaders, reflect[c] \in Shaders,
         WriteReflection(c) \/ \E stage \in {"vert", "frag"} : WriteGLSL(c, stage)
  PROVE  TypeOK'
<1>1. CASE WriteReflection(c)
  <2>1. files' \in [Files -> Content]
    BY <1>1, WriteTypeOK DEF WriteReflection, OutputKinds
  <2> QED
    BY <1>1, <2>1 DEF TypeOK, WriteReflection, Goto, Places
<1>2. ASSUME NEW stage \in {"vert", "frag"}, WriteGLSL(c, stage) PROVE TypeOK'
  <2>1. files' \in [Files -> Content]
    BY <1>2, WriteTypeOK DEF WriteGLSL, OutputKinds
  <2> QED
    BY <1>2, <2>1 DEF TypeOK, WriteGLSL, Goto, Places
<1> QED
  BY <1>1, <1>2

-----------------------------------------------------------------------------
(* The text that is visited is a shader, and past the visit it is the one  *)
(* the reflection info describes.  With the two halves about a call that   *)
(* has returned this is inductive.                                         *)

AfterVisit == {"refl", "vert", "frag", "undo", "undo_frag", "finish", "clean_frag"}

VisitedText ==
  \A c \in Compilers :
    /\ pc[c] = "visit" => IsShaderIn(source[c], Parses)
    /\ pc[c] \in AfterVisit => source[c].of \in Compiles /\ reflect[c] = source[c].of
    /\ pc[c] # "idle" => result[c] = "none"
    /\ pc[c] \in {"undo", "undo_frag"} => last_error[c] = "glsl"

IInv == TypeOK /\ ErrorMatchesResult /\ ReflectionFollowsVisit /\ VisitedText

LEMMA InitIInv == Init => IInv
<1> SUFFICES ASSUME Init PROVE IInv
  OBVIOUS
<1>1. TypeOK
  BY InitTypeOK
<1> QED
  BY <1>1 DEF Init, IInv, ErrorMatchesResult, ReflectionFollowsVisit, VisitedText, AfterVisit

LEMMA StepTypeOK == ASSUME IInv, NEW c \in Compilers, Step(c) PROVE TypeOK'
<1>1. TypeOK
  BY DEF IInv
<1>2. CASE WriteReflection(c) \/ \E stage \in {"vert", "frag"} : WriteGLSL(c, stage)
  <2>1. pc[c] \in {"refl", "vert", "frag"}
    BY <1>2 DEF WriteReflection, WriteGLSL, At
  <2>2. source[c].of \in Shaders /\ reflect[c] \in Shaders
    BY <2>1, ShadersAssumption DEF IInv, VisitedText, AfterVisit
  <2> QED
    BY <1>1, <1>2, <2>2, WritesTypeOK
<1> QED
  BY <1>1, <1>2, ControlTypeOK, OpenInputTypeOK, VisitTypeOK, CleanTypeOK DEF Step

LEMMA OthersUnchanged ==
  ASSUME TypeOK, NEW c \in Compilers, NEW d \in Compilers, c # d,
         Step(c) \/ \E file \in Inputs[c], options \in Options : Begin(c, file, options)
  PROVE  /\ pc'[d] = pc[d] /\ source'[d] = source[d] /\ last_error'[d] = last_error[d]
         /\ reflect'[d] = reflect[d] /\ result'[d] = result[d]
<1>1. CASE \E file \in Inputs[c], options \in Options : Begin(c, file, options)
  BY <1>1 DEF TypeOK, Begin, Goto
<1>2. CASE PreparePaths(c) \/ InputMissing(c) \/ PathsThrow(c) \/ OpenInput(c) \/ OpenFails(c)
  BY <1>2 DEF TypeOK, PreparePaths, InputMissing, PathsThrow, OpenInput, OpenFails, Return, Goto
<1>3. CASE Parse(c) \/ SyntaxError(c) \/ Visit(c) \/ VisitFails(c)
  BY <1>3 DEF TypeOK, Parse, SyntaxError, Visit, VisitFails, Return, Goto
<1>4. CASE WriteReflection(c) \/ WriteReflectionFails(c) \/ NoReflectionFile(c)
  BY <1>4 DEF TypeOK, WriteReflection, WriteReflectionFails, NoReflectionFile, Return, Goto
<1>5. CASE \E stage \in {"vert", "frag"} : WriteGLSL(c, stage) \/ WriteGLSLFails(c, stage)
  BY <1>5 DEF TypeOK, WriteGLSL, WriteGLSLFails, Goto
<1>6. CASE CleanVert(c) \/ Undo(c) \/ Finish(c)
  BY <1>6 DEF TypeOK, CleanVert, Undo, Finish, Return, Goto
<1> QED
  BY <1>1, <1>2, <1>3, <1>4, <1>5, <1>6 DEF Step

\* What the invariant says of one compiler besides types.
Consistent(c) ==
  /\ result[c] = "true" => last_error[c] = "none"
  /\ result[c] = "false" => last_error[c] # "none"
  /\ pc[c] \in AfterVisit \/ result[c] = "true" => reflect[c] = source[c].of
  /\ result[c] = "false" /\ last_error[c] = "compiler" => reflect[c] = NoShader
  /\ pc[c] = "visit" => IsShaderIn(source[c], Parses)
  /\ pc[c] \in AfterVisit => source[c].of \in Compiles /\ reflect[c] = source[c].of
  /\ pc[c] # "idle" => result[c] = "none"
  /\ pc[c] \in {"undo", "undo_frag"} => last_error[c] = "glsl"

LEMMA ConsistentCompilers ==
  (\A c \in Compilers : Consistent(c)) <=>
    ErrorMatchesResult /\ ReflectionFollowsVisit /\ VisitedText
  BY DEF Consistent, ErrorMatchesResult, ReflectionFollowsVisit, VisitedText, AfterVisit

LEMMA BeginConsistent ==
  ASSUME TypeOK, NEW c \in Compilers, Consistent(c), NEW file \in Inputs[c],
         NEW options \in Options, Begin(c, file, options)
  PROVE  Consistent(c)'
  BY DEF TypeOK, Begin, Goto, Consistent, AfterVisit

LEMMA StepConsistent ==
  ASSUME TypeOK, NEW c \in Compilers, Consistent(c), Step(c)
  PROVE  Consistent(c)'
<1>1. CASE PreparePaths(c) \/ OpenInput(c) \/ Parse(c)
  BY <1>1 DEF TypeOK, PreparePaths, OpenInput, Parse, At, Goto, Consistent, AfterVisit
<1>2. CASE InputMissing(c) \/ OpenFails(c) \/ SyntaxError(c)
  BY <1>2 DEF TypeOK, InputMissing, OpenFails, SyntaxError, At, Goto, Return, Consistent, AfterVisit
<1>3. CASE PathsThrow(c)
  BY <1>3 DEF TypeOK, PathsThrow, At, Goto, Return, Consistent, AfterVisit
<1>4. CASE Visit(c)
  BY <1>4 DEF TypeOK, Visit, At, Goto, Consistent, AfterVisit
<1>5. CASE VisitFails(c)
  BY <1>5 DEF TypeOK, VisitFails, At, Goto, Return, Consistent, AfterVisit
<1>6. CASE WriteReflection(c) \/ NoReflectionFile(c)
  BY <1>6 DEF TypeOK, WriteReflection, NoReflectionFile, At, Goto, Consistent, AfterVisit
<1>7. CASE WriteReflectionFails(c)
  BY <1>7 DEF TypeOK, WriteReflectionFails, At, Goto, Return, Consistent, AfterVisit
<1>8. ASSUME NEW stage \in {"vert", "frag"}, WriteGLSL(c, stage) \/ WriteGLSLFails(c, stage)
      PROVE  Consistent(c)'
  BY <1>8 DEF TypeOK, WriteGLSL, WriteGLSLFails, At, Goto, Consistent, AfterVisit
<1>9. CASE Undo(c)
  BY <1>9 DEF TypeOK, Undo, At, Goto, Return, Consistent, AfterVisit
<1>10. CASE Finish(c)
  BY <1>10 DEF TypeOK, Finish, At, Goto, Return, Consistent, AfterVisit
<1>11. CASE CleanVert(c)
  BY <1>11 DEF TypeOK, CleanVert, At, Goto, Consistent, AfterVisit
<1> QED
  BY <1>1, <1>2, <1>3, <1>4, <1>5, <1>6, <1>7, <1>8, <1>9, <1>10, <1>11 DEF Step

LEMMA NextIInv == IInv /\ [Next]_vars => IInv'
<1> SUFFICES ASSUME IInv, [Next]_vars PROVE IInv'
  OBVIOUS
<1>1. TypeOK /\ \A c \in Compilers : Consistent(c)
  BY ConsistentCompilers DEF IInv
<1>2. CASE UNCHANGED vars
  BY <1>2 DEF vars, local, IInv, TypeOK, ErrorMatchesResult, ReflectionFollowsVisit, VisitedText
<1>3. ASSUME NEW c \in Compilers, NEW file \in Inputs[c], NEW options \in Options,
             Begin(c, file, options)
      PROVE  TypeOK' /\ \A d \in Compilers : Consistent(d)'
  <2>1. TypeOK' /\ Consistent(c)'
    BY <1>1, <1>3, BeginTypeOK, BeginConsistent
  <2>2. \A d \in Compilers \ {c} : Consistent(d)'
    BY <1>1, <1>3, OthersUnchanged DEF Consistent
  <2> QED
    BY <2>1, <2>2
<1>4. ASSUME NEW c \in Compilers, Step(c)
      PROVE  TypeOK' /\ \A d \in Compilers : Consistent(d)'
  <2>1. TypeOK' /\ Consistent(c)'
    BY <1>1, <1>4, StepTypeOK, StepConsistent
  <2>2. \A d \in Compilers \ {c} : Consistent(d)'
    BY <1>1, <1>4, OthersUnchanged DEF Consistent
  <2> QED
    BY <2>1, <2>2
<1>5. (\A c \in Compilers : Consistent(c)') =>
        ErrorMatchesResult' /\ ReflectionFollowsVisit' /\ VisitedText'
  BY DEF Consistent, ErrorMatchesResult, ReflectionFollowsVisit, VisitedText, AfterVisit
<1> QED
  BY <1>2, <1>3, <1>4, <1>5 DEF Next, IInv

-----------------------------------------------------------------------------
\* Every field of a compiler and every file keeps its type through any
\* sequence of calls by any number of processes.
THEOREM TypeCorrect == Spec => []TypeOK
<1>1. IInv => TypeOK
  BY DEF IInv
<1> QED
  BY <1>1, InitIInv, NextIInv, PTL DEF Spec

\* Whatever earlier calls left in last_error_, and wherever a call ends,
\* true means no error and false means one.
THEOREM ErrorTellsResult == Spec => []ErrorMatchesResult
<1>1. IInv => ErrorMatchesResult
  BY DEF IInv
<1> QED
  BY <1>1, InitIInv, NextIInv, PTL DEF Spec

\* The reflection info of a successful call is that of the text it read,
\* even if other processes have rewritten the file since; a failed visit
\* leaves none.
THEOREM ReflectionIsCurrent == Spec => []ReflectionFollowsVisit
<1>1. IInv => ReflectionFollowsVisit
  BY DEF IInv
<1> QED
  BY <1>1, InitIInv, NextIInv, PTL DEF Spec

-----------------------------------------------------------------------------
(* The outputs of a compiler that is alone on them.                        *)

ProcessCalls == \A c \in Compilers : pc[c] # "idle" => call[c].file \in Inputs[c]

\* OutputsAsRequested, for one compiler.
Requested(c) ==
  /\ result[c] = "true" =>
       /\ call[c].options.generate_reflection_file => Holds(c, "refl")
       /\ IF call[c].options.keep_intermediate THEN Holds(c, "vert") /\ Holds(c, "frag")
          ELSE GlslRemoved(c)
  /\ result[c] = "false" /\ last_error[c] = "glsl" => GlslRemoved(c)

\* What has been written so far is still there, and what was removed is not.
VertRemoved(c) ==
  OutputOf(c, "vert") \in Removable => files[OutputOf(c, "vert")] = Absent
Progressing(c) ==
  /\ pc[c] \in {"vert", "frag", "finish", "clean_frag"}
       /\ call[c].options.generate_reflection_file => Holds(c, "refl")
  /\ pc[c] \in {"frag", "finish"} => Holds(c, "vert")
  /\ pc[c] = "finish" => Holds(c, "frag")
  /\ pc[c] \in {"undo_frag", "clean_frag"} => VertRemoved(c)
  /\ pc[c] = "clean_frag" => ~ call[c].options.keep_intermediate

OutputsOK(c) == Alone(c) => Progressing(c) /\ Requested(c)

OInv == IInv /\ ProcessCalls /\ \A c \in Compilers : OutputsOK(c)

LEMMA InitOInv == Init => OInv
<1> SUFFICES ASSUME Init PROVE OInv
  OBVIOUS
<1>1. \A c \in Compilers : pc[c] = "idle" /\ result[c] = "none"
  BY DEF Init
<1> QED
  BY <1>1, InitIInv DEF OInv, ProcessCalls, OutputsOK, Progressing, Requested

\* A step touches no files but the outputs of its own call.
LEMMA StepTouches ==
  ASSUME TypeOK, NEW d \in Compilers, Step(d)
  PROVE  /\ pc[d] # "idle" /\ call' = call
         /\ \A f \in Files : files'[f] = files[f] \/ f \in OutputsOf(call[d].file)
<1>1. CASE UNCHANGED files
  BY <1>1 DEF Step, PreparePaths, InputMissing, PathsThrow, OpenInput, OpenFails, Parse,
       SyntaxError, Visit, VisitFails, WriteReflection, WriteReflectionFails, NoReflectionFile,
       WriteGLSL, WriteGLSLFails, CleanVert, Undo, Finish, At
<1>2. CASE WriteReflection(d)
  BY <1>2 DEF TypeOK, WriteReflection, At, OutputOf, OutputsOf, OutputKinds
<1>3. ASSUME NEW stage \in {"vert", "frag"}, WriteGLSL(d, stage)
      PROVE  /\ pc[d] # "idle" /\ call' = call
             /\ \A f \in Files : files'[f] = files[f] \/ f \in OutputsOf(call[d].file)
  BY <1>3 DEF TypeOK, WriteGLSL, At, OutputOf, OutputsOf, OutputKinds
<1>4. ASSUME NEW kind \in {"vert", "frag"}, files' = Removed(d, kind),
             CleanVert(d) \/ Undo(d) \/ Finish(d)
      PROVE  /\ pc[d] # "idle" /\ call' = call
             /\ \A f \in Files : files'[f] = files[f] \/ f \in OutputsOf(call[d].file)
  BY <1>4 DEF CleanVert, Undo, Finish, At, Removed, OutputOf, OutputsOf, OutputKinds
<1>5. CleanVert(d) \/ Undo(d) \/ Finish(d) =>
        files' = Removed(d, "vert") \/ files' = Removed(d, "frag") \/ UNCHANGED files
  BY DEF CleanVert, Undo, Finish
<1> QED
  BY <1>1, <1>2, <1>3, <1>4, <1>5
  DEF Step, PreparePaths, InputMissing, PathsThrow, OpenInput, OpenFails, Parse,
      SyntaxError, Visit, VisitFails, WriteReflectionFails, NoReflectionFile, WriteGLSLFails

\* So the steps of another process leave c's outputs as they are.
LEMMA OthersLeaveOutputs ==
  ASSUME TypeOK, ProcessCalls, NEW c \in Compilers, NEW d \in Compilers, c # d,
         Step(d) \/ \E file \in Inputs[d], options \in Options : Begin(d, file, options),
         OutputsOK(c)
  PROVE  OutputsOK(c)'
<1>1. /\ pc'[c] = pc[c] /\ source'[c] = source[c] /\ last_error'[c] = last_error[c]
      /\ reflect'[c] = reflect[c] /\ result'[c] = result[c]
  BY OthersUnchanged
<1>2. CASE \E file \in Inputs[d], options \in Options : Begin(d, file, options)
  <2>1. files' = files /\ call'[c] = call[c]
    BY <1>2 DEF Begin
  <2> QED
    BY <1>1, <2>1 DEF OutputsOK, Alone, Progressing, Requested, Holds, GlslRemoved, VertRemoved,
         OutputOf
<1>3. CASE Step(d) /\ Alone(c)
  <2>1. call' = call /\ call[d].file \in Inputs[d]
    BY <1>3, StepTouches DEF ProcessCalls
  <2>2. OutputsOf(call[c].file) \cap OutputsOf(call[d].file) = {}
    BY <1>3, <2>1 DEF Alone
  <2>3. \A kind \in OutputKinds :
          OutputOf(c, kind) \in Files /\ OutputOf(c, kind) \in OutputsOf(call[c].file)
    BY OutputAssumption DEF TypeOK, OutputOf, OutputsOf
  <2>4. \A kind \in OutputKinds : files'[OutputOf(c, kind)] = files[OutputOf(c, kind)]
    BY <1>3, <2>2, <2>3, StepTouches
  <2>5. {"refl", "vert", "frag"} = OutputKinds
    BY DEF OutputKinds
  <2>6. Progressing(c) /\ Requested(c)
    BY <1>3 DEF OutputsOK
  <2>7. Progressing(c)'
    BY <1>1, <2>1, <2>4, <2>5, <2>6 DEF Progressing, Holds, VertRemoved, OutputOf
  <2>8. Requested(c)'
    BY <1>1, <2>1, <2>4, <2>5, <2>6 DEF Requested, Holds, GlslRemoved, OutputOf
  <2> QED
    BY <2>7, <2>8 DEF OutputsOK
<1>4. CASE Step(d) /\ ~ Alone(c)
  BY <1>4, StepTouches DEF OutputsOK, Alone
<1> QED
  BY <1>2, <1>3, <1>4

\* The three outputs are files, and writing one leaves the other two.
LEMMA OutputsApart ==
  ASSUME TypeOK, NEW c \in Compilers
  PROVE  /\ OutputOf(c, "refl") \in Files /\ OutputOf(c, "vert") \in Files
         /\ OutputOf(c, "frag") \in Files
         /\ OutputOf(c, "refl") # OutputOf(c, "vert")
         /\ OutputOf(c, "refl") # OutputOf(c, "frag")
         /\ OutputOf(c, "vert") # OutputOf(c, "frag")
<1>1. call[c].file \in Files
  BY DEF TypeOK
<1>2. {"refl", "vert", "frag"} \subseteq OutputKinds
  BY DEF OutputKinds
<1> QED
  BY <1>1, <1>2, OutputAssumption DEF OutputOf

\* The two removals together remove both intermediate files and no other output.
LEMMA CleanRemoves ==
  ASSUME TypeOK, NEW c \in Compilers, NEW kind \in {"vert", "frag"},
         files' = Removed(c, kind), call' = call
  PROVE  /\ kind = "vert" => VertRemoved(c)'
         /\ kind = "frag" /\ VertRemoved(c) => GlslRemoved(c)'
         /\ source'[c] = source[c] /\ Holds(c, "refl") => Holds(c, "refl")'
<1>1. kind = "vert" => VertRemoved(c)'
  BY OutputsApart DEF VertRemoved, Removed, OutputOf
<1>2. kind = "frag" /\ VertRemoved(c) => GlslRemoved(c)'
  BY OutputsApart DEF GlslRemoved, VertRemoved, Removed, OutputOf
<1>3. ASSUME source'[c] = source[c], Holds(c, "refl") PROVE Holds(c, "refl")'
  BY <1>3, OutputsApart DEF Holds, Removed, OutputOf
<1> QED
  BY <1>1, <1>2, <1>3

LEMMA OwnStepOutputs ==
  ASSUME IInv, NEW c \in Compilers, OutputsOK(c), Step(c)
  PROVE  OutputsOK(c)'
<1> SUFFICES ASSUME Alone(c)' PROVE Progressing(c)' /\ Requested(c)'
  BY DEF OutputsOK
<1>1. TypeOK /\ Consistent(c)
  BY ConsistentCompilers DEF IInv
<1>2. call' = call
  BY <1>1, StepTouches
<1>3. Progressing(c)
  BY <1>2 DEF OutputsOK, Alone
<1>4. CASE PreparePaths(c) \/ OpenInput(c) \/ Parse(c) \/ Visit(c)
  BY <1>1, <1>4 DEF TypeOK, PreparePaths, OpenInput, Parse, Visit, At, Goto, Consistent,
       Progressing, Requested
<1>5. CASE InputMissing(c) \/ OpenFails(c) \/ SyntaxError(c) \/ VisitFails(c)
             \/ WriteReflectionFails(c)
  BY <1>1, <1>5 DEF TypeOK, InputMissing, OpenFails, SyntaxError, VisitFails,
       WriteReflectionFails, Goto, Return, Progressing, Requested
<1>6. CASE PathsThrow(c)
  BY <1>1, <1>6 DEF TypeOK, PathsThrow, Goto, Return, Progressing, Requested
<1>7. CASE WriteReflection(c)
  <2>1. pc'[c] = "vert" /\ result'[c] = "none" /\ source'[c] = source[c]
    BY <1>1, <1>7 DEF TypeOK, WriteReflection, At, Goto, Consistent
  <2>2. reflect[c] = source[c].of
    BY <1>1, <1>7 DEF WriteReflection, At, Consistent, AfterVisit
  <2>3. Holds(c, "refl")'
    BY <1>1, <1>2, <1>7, <2>1, <2>2, OutputsApart DEF TypeOK, WriteReflection, Holds, OutputOf
  <2> QED
    BY <2>1, <2>3 DEF Progressing, Requested
<1>8. CASE NoReflectionFile(c)
  BY <1>1, <1>2, <1>8 DEF TypeOK, NoReflectionFile, At, Goto, Consistent, Progressing, Requested
<1>9. ASSUME NEW stage \in {"vert", "frag"}, WriteGLSL(c, stage)
      PROVE  Progressing(c)' /\ Requested(c)'
  <2>1. /\ pc[c] = stage /\ pc'[c] = IF stage = "vert" THEN "frag" ELSE "finish"
        /\ result'[c] = "none" /\ source'[c] = source[c]
    BY <1>1, <1>9 DEF TypeOK, WriteGLSL, At, Goto, Consistent
  <2>2. Holds(c, stage)'
    BY <1>1, <1>2, <1>9, <2>1, OutputsApart DEF TypeOK, WriteGLSL, Holds, OutputOf
  <2>3. \A kind \in {"refl", "vert", "frag"} \ {stage} : Holds(c, kind) => Holds(c, kind)'
    BY <1>1, <1>2, <1>9, <2>1, OutputsApart DEF TypeOK, WriteGLSL, Holds, OutputOf
  <2> QED
    BY <1>2, <1>3, <2>1, <2>2, <2>3 DEF Progressing, Requested
<1>10. ASSUME NEW stage \in {"vert", "frag"}, WriteGLSLFails(c, stage)
       PROVE  Progressing(c)' /\ Requested(c)'
  BY <1>1, <1>10 DEF TypeOK, WriteGLSLFails, At, Goto, Consistent, Progressing, Requested
<1>11. CASE Undo(c)
  <2>1. pc[c] = "undo_frag" /\ pc'[c] = "idle" /\ result'[c] = "false"
    BY <1>1, <1>11 DEF TypeOK, Undo, At, Goto, Return
  <2>2. VertRemoved(c)
    BY <1>3, <2>1 DEF Progressing
  <2>3. GlslRemoved(c)'
    BY <1>1, <1>2, <1>11, <2>2, CleanRemoves DEF Undo
  <2> QED
    BY <2>1, <2>3 DEF Progressing, Requested
<1>12. CASE Finish(c)
  <2>1. /\ pc[c] \in {"finish", "clean_frag"} /\ pc'[c] = "idle" /\ result'[c] = "true"
        /\ last_error'[c] = "none" /\ source'[c] = source[c]
    BY <1>1, <1>12 DEF TypeOK, Finish, At, Goto, Return
  <2>2. CASE pc[c] = "finish"
    <3>1. files' = files /\ call[c].options.keep_intermediate
      BY <1>12, <2>2 DEF Finish, At
    <3> QED
      BY <1>2, <1>3, <2>1, <2>2, <3>1 DEF Progressing, Requested, Holds, OutputOf
  <2>3. CASE pc[c] = "clean_frag"
    <3>1. VertRemoved(c) /\ ~ call[c].options.keep_intermediate /\ files' = Removed(c, "frag")
      BY <1>3, <1>12, <2>3 DEF Progressing, Finish, At
    <3>2. GlslRemoved(c)' /\ (Holds(c, "refl") => Holds(c, "refl")')
      BY <1>1, <1>2, <2>1, <3>1, CleanRemoves
    <3> QED
      BY <1>2, <1>3, <2>1, <2>3, <3>1, <3>2 DEF Progressing, Requested
  <2> QED
    BY <2>1, <2>2, <2>3
<1>13. CASE CleanVert(c)
  <2>1. /\ pc[c] \in {"undo", "finish"} /\ pc'[c] \in {"undo_frag", "clean_frag"}
        /\ pc'[c] = "clean_frag" => pc[c] = "finish" /\ ~ call[c].options.keep_intermediate
        /\ result'[c] = "none" /\ source'[c] = source[c] /\ files' = Removed(c, "vert")
    BY <1>1, <1>13 DEF TypeOK, CleanVert, At, Goto, Consistent
  <2>2. VertRemoved(c)' /\ (Holds(c, "refl") => Holds(c, "refl")')
    BY <1>1, <1>2, <2>1, CleanRemoves
  <2> QED
    BY <1>2, <1>3, <2>1, <2>2 DEF Progressing, Requested
<1> QED
  BY <1>4, <1>5, <1>6, <1>7, <1>8, <1>9, <1>10, <1>11, <1>12, <1>13 DEF Step

LEMMA NextOInv == OInv /\ [Next]_vars => OInv'
<1> SUFFICES ASSUME OInv, [Next]_vars PROVE OInv'
  OBVIOUS
<1>1. IInv' /\ TypeOK /\ ProcessCalls
  BY NextIInv DEF OInv, IInv
<1>2. CASE UNCHANGED vars
  BY <1>1, <1>2 DEF vars, local, OInv, ProcessCalls, OutputsOK, Alone, Progressing, Requested,
       Holds, GlslRemoved, VertRemoved, OutputOf
<1>3. ASSUME NEW c \in Compilers, NEW file \in Inputs[c], NEW options \in Options,
             Begin(c, file, options)
      PROVE  OInv'
  <2>1. \A d \in Compilers \ {c} : OutputsOK(d)'
    BY <1>1, <1>3, OthersLeaveOutputs DEF OInv
  <2>2. OutputsOK(c)'
    BY <1>1, <1>3 DEF TypeOK, Begin, Goto, OutputsOK, Progressing, Requested
  <2>3. ProcessCalls'
    BY <1>1, <1>3 DEF TypeOK, Begin, Goto, ProcessCalls
  <2> QED
    BY <1>1, <2>1, <2>2, <2>3 DEF OInv
<1>4. ASSUME NEW c \in Compilers, Step(c) PROVE OInv'
  <2>1. \A d \in Compilers \ {c} : OutputsOK(d)'
    BY <1>1, <1>4, OthersLeaveOutputs DEF OInv
  <2>2. OutputsOK(c)'
    BY <1>4, OwnStepOutputs DEF OInv
  <2>3. \A d \in Compilers : pc[d] = "idle" => d = c \/ pc'[d] = "idle"
    BY <1>1, <1>4, OthersUnchanged
  <2>4. call' = call /\ pc[c] # "idle"
    BY <1>1, <1>4, StepTouches
  <2>5. ProcessCalls'
    BY <1>1, <2>3, <2>4 DEF ProcessCalls
  <2> QED
    BY <1>1, <2>1, <2>2, <2>5 DEF OInv
<1> QED
  BY <1>2, <1>3, <1>4 DEF Next

\* Processes that share a directory but no base name do not disturb each
\* other, whatever the order of their steps: each returns with its outputs
\* as its options ask, also when its last write fails.
THEOREM OutputsSurviveOthers == Spec => []OutputsAsRequested
<1>1. OInv => OutputsAsRequested
  BY DEF OInv, OutputsOK, Requested, OutputsAsRequested
<1> QED
  BY <1>1, InitOInv, NextOInv, PTL DEF Spec

-----------------------------------------------------------------------------
(* What a call says of its file: the files that nobody writes to are those *)
(* of the start, so what was read of one of them is still what it holds.   *)

ParsedPlaces == {"parse", "visit"} \cup AfterVisit

FilesKept == \A f \in Files : Unwritten(f) => files[f] = InitialFiles[f]

Judged(c) ==
  Unwritten(call[c].file) =>
    /\ pc[c] \in ParsedPlaces \/ result[c] = "true" => source[c] = InitialFiles[call[c].file]
    /\ pc[c] \in AfterVisit \/ result[c] = "true" => IsShaderIn(source[c], Compiles)
    /\ result[c] = "false" /\ last_error[c] \in {"parser", "compiler"} =>
         ~ IsShaderIn(InitialFiles[call[c].file], Compiles)

JudgedInv == OInv /\ FilesKept /\ \A c \in Compilers : Judged(c)

LEMMA InitJudged == ASSUME Init PROVE JudgedInv
<1>1. OInv
  BY InitOInv
<1>2. files = InitialFiles /\ \A c \in Compilers : pc[c] = "idle" /\ result[c] = "none"
  BY DEF Init
<1> QED
  BY <1>1, <1>2 DEF JudgedInv, FilesKept, Judged, ParsedPlaces, AfterVisit

LEMMA StepKeepsFiles ==
  ASSUME TypeOK, ProcessCalls, FilesKept, NEW c \in Compilers, Step(c) PROVE FilesKept'
<1>1. call[c].file \in Inputs[c]
  BY StepTouches DEF ProcessCalls
<1>2. \A f \in Files : Unwritten(f) => f \notin OutputsOf(call[c].file)
  BY <1>1 DEF Unwritten
<1>3. \A f \in Files : files'[f] = files[f] \/ f \in OutputsOf(call[c].file)
  BY StepTouches
<1> QED
  BY <1>2, <1>3 DEF FilesKept

LEMMA StepJudged ==
  ASSUME IInv, FilesKept, NEW c \in Compilers, Judged(c), Step(c) PROVE Judged(c)'
<1> DEFINE f == call[c].file
<1> SUFFICES ASSUME Unwritten(f) PROVE Judged(c)'
  <2>1. call' = call
    BY StepTouches DEF IInv
  <2> QED
    BY <2>1 DEF Judged
<1>1. TypeOK /\ Consistent(c)
  BY ConsistentCompilers DEF IInv
<1>2. call' = call /\ files[f] = InitialFiles[f]
  BY <1>1, StepTouches DEF FilesKept, TypeOK
<1>3. /\ pc[c] \in ParsedPlaces => source[c] = InitialFiles[f]
      /\ pc[c] \in AfterVisit => IsShaderIn(source[c], Compiles)
      /\ pc[c] # "idle" => result[c] = "none"
  BY <1>1 DEF Judged, Consistent
<1> HIDE DEF f
<1> SUFFICES /\ pc'[c] \in ParsedPlaces \/ result'[c] = "true" => source'[c] = InitialFiles[f]
             /\ pc'[c] \in AfterVisit \/ result'[c] = "true" => IsShaderIn(source'[c], Compiles)
             /\ result'[c] = "false" /\ last_error'[c] \in {"parser", "compiler"} =>
                  ~ IsShaderIn(InitialFiles[f], Compiles)
  BY <1>2 DEF Judged, f
<1>4. CASE PreparePaths(c) \/ InputMissing(c) \/ PathsThrow(c) \/ OpenFails(c)
  BY <1>1, <1>3, <1>4 DEF TypeOK, PreparePaths, InputMissing, PathsThrow, OpenFails, At, Goto, Return,
       ParsedPlaces, AfterVisit
<1>5. CASE OpenInput(c)
  <2>1. pc'[c] = "parse" /\ source'[c] = files[f] /\ result'[c] = "none"
    BY <1>1, <1>3, <1>5 DEF TypeOK, OpenInput, At, Goto, f
  <2> QED
    BY <1>2, <2>1 DEF ParsedPlaces, AfterVisit
<1>6. CASE Parse(c)
  <2>1. pc[c] = "parse" /\ pc'[c] = "visit" /\ source'[c] = source[c] /\ result'[c] = "none"
    BY <1>1, <1>3, <1>6 DEF TypeOK, Parse, At, Goto
  <2> QED
    BY <1>3, <2>1 DEF ParsedPlaces, AfterVisit
<1>7. CASE SyntaxError(c)
  <2>1. /\ pc[c] = "parse" /\ pc'[c] = "idle" /\ result'[c] = "false"
        /\ ~ IsShaderIn(source[c], Parses)
    BY <1>1, <1>7 DEF TypeOK, SyntaxError, At, Goto, Return
  <2>2. ~ IsShaderIn(source[c], Compiles)
    BY <2>1, ShadersAssumption DEF IsShaderIn
  <2> QED
    BY <1>3, <2>1, <2>2 DEF ParsedPlaces, AfterVisit
<1>8. CASE Visit(c)
  <2>1. /\ pc[c] = "visit" /\ pc'[c] = "refl" /\ source'[c] = source[c] /\ result'[c] = "none"
        /\ source[c].of \in Compiles
    BY <1>1, <1>3, <1>8 DEF TypeOK, Visit, At, Goto
  <2>2. IsShaderIn(source[c], Compiles)
    BY <1>1, <2>1 DEF Consistent, IsShaderIn
  <2> QED
    BY <1>3, <2>1, <2>2 DEF ParsedPlaces, AfterVisit
<1>9. CASE VisitFails(c)
  <2>1. /\ pc[c] = "visit" /\ pc'[c] = "idle" /\ result'[c] = "false"
        /\ source[c].of \notin Compiles
    BY <1>1, <1>9 DEF TypeOK, VisitFails, At, Goto, Return
  <2>2. ~ IsShaderIn(source[c], Compiles)
    BY <2>1 DEF IsShaderIn
  <2> QED
    BY <1>3, <2>1, <2>2 DEF ParsedPlaces, AfterVisit
<1>10. CASE WriteReflection(c) \/ NoReflectionFile(c)
  <2>1. /\ pc[c] = "refl" /\ pc'[c] = "vert" /\ source'[c] = source[c] /\ result'[c] = "none"
    BY <1>1, <1>3, <1>10 DEF TypeOK, WriteReflection, NoReflectionFile, At, Goto
  <2> QED
    BY <1>3, <2>1 DEF ParsedPlaces, AfterVisit
<1>11. CASE WriteReflectionFails(c)
  BY <1>1, <1>3, <1>11 DEF TypeOK, WriteReflectionFails, At, Goto, Return, ParsedPlaces, AfterVisit
<1>12. CASE \E stage \in {"vert", "frag"} : WriteGLSL(c, stage) \/ WriteGLSLFails(c, stage)
  <2>1. /\ pc[c] \in {"vert", "frag"} /\ pc'[c] \in {"frag", "finish", "undo"}
        /\ source'[c] = source[c] /\ result'[c] = "none"
    BY <1>1, <1>3, <1>12 DEF TypeOK, WriteGLSL, WriteGLSLFails, At, Goto
  <2> QED
    BY <1>3, <2>1 DEF ParsedPlaces, AfterVisit
<1>13. CASE Undo(c)
  <2>1. pc'[c] = "idle" /\ result'[c] = "false" /\ last_error'[c] = "glsl"
    BY <1>1, <1>13 DEF TypeOK, Undo, At, Goto, Return, Consistent
  <2> QED
    BY <2>1 DEF ParsedPlaces, AfterVisit
<1>14. CASE Finish(c)
  <2>1. /\ pc[c] \in {"finish", "clean_frag"} /\ pc'[c] = "idle" /\ result'[c] = "true"
        /\ source'[c] = source[c]
    BY <1>1, <1>14 DEF TypeOK, Finish, At, Goto, Return
  <2> QED
    BY <1>3, <2>1 DEF ParsedPlaces, AfterVisit
<1>15. CASE CleanVert(c)
  <2>1. /\ pc[c] \in {"undo", "finish"} /\ pc'[c] \in {"undo_frag", "clean_frag"}
        /\ source'[c] = source[c] /\ result'[c] = "none"
    BY <1>1, <1>3, <1>15 DEF TypeOK, CleanVert, At, Goto
  <2> QED
    BY <1>3, <2>1 DEF ParsedPlaces, AfterVisit
<1> QED
  BY <1>4, <1>5, <1>6, <1>7, <1>8, <1>9, <1>10, <1>11, <1>12, <1>13, <1>14, <1>15 DEF Step

LEMMA NextJudged == ASSUME JudgedInv, [Next]_vars PROVE JudgedInv'
<1>1. OInv' /\ IInv /\ TypeOK /\ ProcessCalls
  BY NextOInv DEF JudgedInv, OInv, IInv
<1>2. CASE UNCHANGED vars
  BY <1>1, <1>2 DEF vars, local, JudgedInv, FilesKept, Judged
<1>3. ASSUME NEW c \in Compilers, NEW file \in Inputs[c], NEW options \in Options,
             Begin(c, file, options)
      PROVE  JudgedInv'
  <2>1. ASSUME NEW d \in Compilers \ {c} PROVE Judged(d)'
    <3>1. /\ pc'[d] = pc[d] /\ source'[d] = source[d] /\ last_error'[d] = last_error[d]
          /\ result'[d] = result[d]
      BY <1>1, <1>3, OthersUnchanged
    <3>2. call'[d] = call[d]
      BY <1>3 DEF Begin
    <3> QED
      BY <3>1, <3>2 DEF JudgedInv, Judged
  <2>2. pc'[c] = "paths" /\ result'[c] = "none" /\ files' = files
    BY <1>1, <1>3 DEF TypeOK, Begin, Goto
  <2>3. Judged(c)' /\ FilesKept'
    BY <2>2 DEF JudgedInv, Judged, FilesKept, ParsedPlaces, AfterVisit
  <2> QED
    BY <1>1, <2>1, <2>3 DEF JudgedInv
<1>4. ASSUME NEW c \in Compilers, Step(c) PROVE JudgedInv'
  <2>1. ASSUME NEW d \in Compilers \ {c} PROVE Judged(d)'
    <3>1. /\ pc'[d] = pc[d] /\ source'[d] = source[d] /\ last_error'[d] = last_error[d]
          /\ result'[d] = result[d]
      BY <1>1, <1>4, OthersUnchanged
    <3>2. call' = call
      BY <1>1, <1>4, StepTouches
    <3> QED
      BY <3>1, <3>2 DEF JudgedInv, Judged
  <2>2. Judged(c)' /\ FilesKept'
    BY <1>1, <1>4, StepJudged, StepKeepsFiles DEF JudgedInv
  <2> QED
    BY <1>1, <2>1, <2>2 DEF JudgedInv
<1> QED
  BY <1>2, <1>3, <1>4 DEF Next

-----------------------------------------------------------------------------
(* The tool: its processes are compilers, and each report is of the call   *)
(* that was made for it.                                                   *)

Asked(c) ==
  /\ IsASequence(InputFiles(c)) /\ \A i \in 1 .. Len(InputFiles(c)) : InputFiles(c)[i] \in Inputs[c]
  /\ ToolOptions(c) \in Options

Reporting(c) ==
  /\ next[c] \in 0 .. Len(InputFiles(c))
  /\ IsASequence(reports[c]) /\ Len(reports[c]) <= next[c] /\ next[c] <= Len(reports[c]) + 1
  /\ ~ Reported(c) => /\ call[c].file = InputFiles(c)[next[c]]
                      /\ pc[c] = "idle" => result[c] # "none"
  /\ pc[c] # "idle" => ~ Reported(c)
  /\ \A i \in 1 .. Len(reports[c]) : ReportIsTrue(reports[c][i], InputFiles(c)[i])

ToolInv ==
  /\ JudgedInv
  /\ DOMAIN next = Compilers /\ DOMAIN reports = Compilers
  /\ \A c \in Compilers : Asked(c) /\ Reporting(c)

LEMMA InitTool == ASSUME ToolInit PROVE ToolInv
<1>1. JudgedInv
  BY InitJudged DEF ToolInit
<1>2. ASSUME NEW c \in Compilers PROVE Asked(c)
  <2>1. PICK words \in CommandLines[c] : args[c] = ParseArgs(words)
    BY DEF ToolInit
  <2>2. ToolOptions(c) \in Options /\ args[c].input_files \in Seq(Inputs[c])
    BY <2>1, ToolAssumption DEF ToolOptions
  <2>3. InputFiles(c) \in Seq(Inputs[c])
    BY <2>2, EmptySeq DEF InputFiles
  <2> QED
    BY <2>2, <2>3, ElementOfSeq DEF Asked, IsASequence
<1>3. ASSUME NEW c \in Compilers PROVE Reporting(c)
  <2>1. next[c] = 0 /\ reports[c] = <<>> /\ Len(<<>>) = 0 /\ pc[c] = "idle"
    BY DEF ToolInit, Init
  <2>2. IsASequence(<<>>)
    BY EmptySeq DEF IsASequence
  <2>3. Len(InputFiles(c)) \in Nat
    BY <1>2, LenProperties DEF Asked, IsASequence
  <2> QED
    BY <2>1, <2>2, <2>3 DEF Reporting, Reported
<1>4. DOMAIN next = Compilers /\ DOMAIN reports = Compilers
  BY DEF ToolInit
<1> QED
  BY <1>1, <1>2, <1>3, <1>4 DEF ToolInv

\* Seen from the compilers, a step of the tool is one of theirs or none.
LEMMA ToolStep == ASSUME ToolInv, [ToolNext]_toolvars PROVE [Next]_vars
<1>1. CASE UNCHANGED toolvars
  BY <1>1 DEF toolvars
<1>2. CASE AllEnded
  BY <1>2 DEF AllEnded, toolvars
<1>3. ASSUME NEW c \in Compilers, Process(c) PROVE [Next]_vars
  <2>1. CASE CompileNext(c)
    <3>1. next[c] + 1 \in 1 .. Len(InputFiles(c))
      <4>1. /\ next[c] \in 0 .. Len(InputFiles(c)) /\ next[c] < Len(InputFiles(c))
            /\ IsASequence(InputFiles(c))
        BY <2>1 DEF CompileNext, ToolInv, Reporting, Asked
      <4>2. Len(InputFiles(c)) \in Nat
        BY <4>1, LenProperties DEF IsASequence
      <4> QED
        BY <4>1, <4>2
    <3>2. InputFiles(c)[next[c] + 1] \in Inputs[c] /\ ToolOptions(c) \in Options
      BY <3>1 DEF ToolInv, Asked
    <3> QED
      BY <2>1, <3>2 DEF CompileNext, Next
  <2>2. CASE Compiling(c)
    BY <2>2 DEF Compiling, Next
  <2>3. CASE Report(c)
    BY <2>3 DEF Report
  <2> QED
    BY <1>3, <2>1, <2>2, <2>3 DEF Process
<1> QED
  BY <1>1, <1>2, <1>3 DEF ToolNext

\* What main() knows of c, without the state of the compiler.
LEMMA Untouched ==
  ASSUME NEW c \in Compilers, Asked(c), Reporting(c),
         UNCHANGED <<argv, args>>, next'[c] = next[c], reports'[c] = reports[c],
         call'[c] = call[c], pc'[c] = pc[c], result'[c] = result[c]
  PROVE  Asked(c)' /\ Reporting(c)'
BY DEF Asked, Reporting, Reported, InputFiles, ToolOptions

\* The loop takes its next file when it has reported on the last.
LEMMA NextFile == ASSUME ToolInv, NEW c \in Compilers, CompileNext(c) PROVE Reporting(c)'
<1> DEFINE n == next[c]
           fs == InputFiles(c)
<1>1. /\ n \in 0 .. Len(fs) /\ n < Len(fs) /\ Len(reports[c]) = n /\ IsASequence(reports[c])
      /\ \A i \in 1 .. Len(reports[c]) : ReportIsTrue(reports[c][i], fs[i])
      /\ IsASequence(fs) /\ TypeOK
  BY DEF CompileNext, ToolInv, Reporting, Reported, Asked, JudgedInv, OInv, IInv
<1>2. Len(fs) \in Nat
  BY <1>1, LenProperties DEF IsASequence
<1>3. next'[c] = n + 1 /\ reports' = reports /\ InputFiles(c)' = fs
  BY DEF CompileNext, ToolInv, InputFiles
<1>4. call'[c].file = fs[n + 1] /\ pc'[c] = "paths"
  BY <1>1 DEF CompileNext, Begin, Goto, TypeOK
<1> HIDE DEF n, fs
<1>5. n + 1 \in 0 .. Len(fs) /\ n <= n + 1 /\ n + 1 <= n + 1 /\ n # n + 1
  BY <1>1, <1>2
<1>6. Reporting(c)' <=>
        /\ next'[c] \in 0 .. Len(fs)
        /\ IsASequence(reports[c]) /\ Len(reports[c]) <= next'[c] /\ next'[c] <= Len(reports[c]) + 1
        /\ ~ (Len(reports[c]) = next'[c]) => /\ call'[c].file = fs[next'[c]]
                                             /\ pc'[c] = "idle" => result'[c] # "none"
        /\ pc'[c] # "idle" => ~ (Len(reports[c]) = next'[c])
        /\ \A i \in 1 .. Len(reports[c]) : ReportIsTrue(reports[c][i], fs[i])
  BY <1>3 DEF Reporting, Reported
<1> QED
  BY <1>1, <1>3, <1>4, <1>5, <1>6

\* A step of compile() leaves the loop where it is, and ends with a result.
LEMMA StepReporting == ASSUME ToolInv, NEW c \in Compilers, Compiling(c) PROVE Reporting(c)'
<1>1. TypeOK /\ Consistent(c) /\ Reporting(c) /\ Step(c) /\ UNCHANGED <<argv, args, next, reports>>
  BY ConsistentCompilers DEF Compiling, ToolInv, JudgedInv, OInv, IInv
<1>2. call' = call /\ pc[c] # "idle"
  BY <1>1, StepTouches
<1>3. pc'[c] = "idle" => result'[c] # "none"
  BY <1>1 DEF TypeOK, Step, PreparePaths, InputMissing, PathsThrow, OpenInput, OpenFails, Parse,
       SyntaxError, Visit, VisitFails, WriteReflection, WriteReflectionFails, NoReflectionFile,
       WriteGLSL, WriteGLSLFails, CleanVert, Undo, Finish, Goto, Return
<1>4. ~ Reported(c) /\ ~ Reported(c)' /\ InputFiles(c)' = InputFiles(c)
  BY <1>1, <1>2 DEF Reporting, Reported, InputFiles
<1> QED
  BY <1>1, <1>2, <1>3, <1>4 DEF Reporting

\* The report of a call is true of its file.
LEMMA ReportLineTrue ==
  ASSUME ToolInv, NEW c \in Compilers, Report(c)
  PROVE  ReportIsTrue(ReportLine(c), InputFiles(c)[next[c]])
<1> DEFINE f == call[c].file
           r == ReportLine(c)
<1>1. /\ f = InputFiles(c)[next[c]] /\ result[c] \in {"true", "false"}
      /\ Consistent(c) /\ Judged(c) /\ last_error[c] \in Errors
  BY ConsistentCompilers
  DEF Report, At, Running, ToolInv, Reporting, JudgedInv, OInv, IInv, TypeOK, Results
<1>2. CASE result[c] = "true"
  <2>1. r = [ok |-> TRUE, about |-> reflect[c], error |-> "none"]
    BY <1>2 DEF ReportLine
  <2>2. reflect[c] = source[c].of
    BY <1>1, <1>2 DEF Consistent
  <2>3. Unwritten(f) => IsShaderIn(InitialFiles[f], Compiles) /\ source[c] = InitialFiles[f]
    BY <1>1, <1>2 DEF Judged
  <2>4. ErrorSource("none") \notin {"ES_PARSER", "ES_COMPILER"}
    BY DEF ErrorSource
  <2>5. r.ok = TRUE /\ r.about = reflect[c] /\ r.error = "none"
    BY <2>1
  <2> HIDE DEF f, r
  <2>6. ReportIsTrue(r, f)
    BY <2>2, <2>3, <2>4, <2>5 DEF ReportIsTrue
  <2> QED
    BY <1>1, <2>6 DEF r
<1>3. CASE result[c] = "false"
  <2>1. r = [ok |-> FALSE, about |-> NoShader, error |-> last_error[c]]
    BY <1>3 DEF ReportLine
  <2>2. last_error[c] # "none"
    BY <1>1, <1>3 DEF Consistent
  <2>3. Unwritten(f) /\ last_error[c] \in {"parser", "compiler"} =>
          ~ IsShaderIn(InitialFiles[f], Compiles)
    BY <1>1, <1>3 DEF Judged
  <2>4. /\ ErrorSource(last_error[c]) # "ES_NONE"
        /\ ErrorSource(last_error[c]) \in {"ES_PARSER", "ES_COMPILER"} =>
             last_error[c] \in {"parser", "compiler"}
    BY <1>1, <2>2 DEF ErrorSource, Errors
  <2>5. r.ok = FALSE /\ r.error = last_error[c]
    BY <2>1
  <2> HIDE DEF f, r
  <2>6. ReportIsTrue(r, f)
    BY <2>3, <2>4, <2>5 DEF ReportIsTrue
  <2> QED
    BY <1>1, <2>6 DEF r
<1> QED
  BY <1>1, <1>2, <1>3

LEMMA ReportReporting == ASSUME ToolInv, NEW c \in Compilers, Report(c) PROVE Reporting(c)'
<1> DEFINE s == reports[c]
           x == ReportLine(c)
           fs == InputFiles(c)
<1>1. /\ next[c] \in 0 .. Len(fs) /\ IsASequence(s) /\ Len(s) # next[c] /\ Len(s) <= next[c]
      /\ next[c] <= Len(s) + 1 /\ pc[c] = "idle"
      /\ \A i \in 1 .. Len(s) : ReportIsTrue(s[i], fs[i])
  BY DEF Report, At, Reported, ToolInv, Reporting
<1>2. ReportIsTrue(x, fs[next[c]])
  BY ReportLineTrue
<1>3. reports'[c] = Append(s, x) /\ next' = next /\ InputFiles(c)' = fs /\ pc' = pc
  BY DEF Report, ToolInv, InputFiles, vars, local
<1> HIDE DEF s, x, fs
<1>4. /\ IsASequence(Append(s, x)) /\ Len(s) \in Nat /\ Len(Append(s, x)) = Len(s) + 1
      /\ \A i \in 1 .. Len(s) : Append(s, x)[i] = s[i]
      /\ Append(s, x)[Len(s) + 1] = x
  BY <1>1, AppendToSequence
<1>5. next[c] = Len(s) + 1
  BY <1>1, <1>4
<1>6. \A i \in 1 .. Len(s) + 1 : ReportIsTrue(Append(s, x)[i], fs[i])
  <2> TAKE i \in 1 .. Len(s) + 1
  <2>1. CASE i = Len(s) + 1
    BY <1>2, <1>4, <1>5, <2>1
  <2>2. CASE i \in 1 .. Len(s)
    BY <1>1, <1>4, <2>2
  <2> QED
    BY <1>4, <2>1, <2>2
<1>7. Reported(c)'
  BY <1>3, <1>4, <1>5 DEF Reported
<1>8. /\ next'[c] \in 0 .. Len(fs) /\ IsASequence(reports'[c]) /\ Len(reports'[c]) <= next'[c]
      /\ next'[c] <= Len(reports'[c]) + 1 /\ pc'[c] = "idle"
      /\ \A i \in 1 .. Len(reports'[c]) : ReportIsTrue(reports'[c][i], fs[i])
  BY <1>1, <1>3, <1>4, <1>5, <1>6
<1> QED
  BY <1>3, <1>7, <1>8 DEF Reporting

LEMMA NextTool == ASSUME ToolInv, [ToolNext]_toolvars PROVE ToolInv'
<1>1. JudgedInv'
  BY ToolStep, NextJudged DEF ToolInv
<1>2. ASSUME UNCHANGED toolvars PROVE ToolInv'
  <2>1. UNCHANGED <<pc, call, result, argv, args, next, reports>>
    BY <1>2 DEF toolvars, vars, local
  <2>2. \A c \in Compilers : Asked(c)' /\ Reporting(c)'
    BY <2>1, Untouched DEF ToolInv
  <2> QED
    BY <1>1, <2>1, <2>2 DEF ToolInv
<1>3. ASSUME NEW c \in Compilers, Process(c) PROVE ToolInv'
  <2>1. UNCHANGED <<argv, args>> /\ DOMAIN next' = Compilers /\ DOMAIN reports' = Compilers
    BY <1>3 DEF Process, CompileNext, Compiling, Report, ToolInv
  <2>2. Asked(c)'
    BY <2>1 DEF ToolInv, Asked, InputFiles, ToolOptions
  <2>3. Reporting(c)'
    BY <1>3, NextFile, StepReporting, ReportReporting DEF Process
  <2>4. ASSUME NEW d \in Compilers, d # c PROVE Asked(d)' /\ Reporting(d)'
    <3>1. next'[d] = next[d] /\ reports'[d] = reports[d]
      BY <1>3, <2>4 DEF Process, CompileNext, Compiling, Report, ToolInv
    <3>2. call'[d] = call[d] /\ pc'[d] = pc[d] /\ result'[d] = result[d]
      <4>1. TypeOK
        BY DEF ToolInv, JudgedInv, OInv, IInv
      <4>2. CASE CompileNext(c)
        BY <2>4, <4>1, <4>2 DEF CompileNext, Begin, Goto, TypeOK
      <4>3. CASE Compiling(c)
        BY <2>4, <4>1, <4>3, OthersUnchanged, StepTouches DEF Compiling
      <4>4. CASE Report(c)
        BY <4>4 DEF Report, vars, local
      <4> QED
        BY <1>3, <4>2, <4>3, <4>4 DEF Process
    <3> QED
      BY <2>1, <3>1, <3>2, Untouched DEF ToolInv
  <2> QED
    BY <1>1, <2>1, <2>2, <2>3, <2>4 DEF ToolInv
<1> QED
  BY <1>2, <1>3 DEF ToolNext, AllEnded

THEOREM ToolInductive == ToolSpec => []ToolInv
<1>1. ToolInit => ToolInv
  BY InitTool
<1>2. ToolInv /\ [ToolNext]_toolvars => ToolInv'
  BY NextTool
<1> QED
  BY <1>1, <1>2, PTL DEF ToolSpec

\* Every process of the tool drives its one Compiler through calls that a
\* client may make, so the theorems about Compiler hold of the tool.
THEOREM ToolIsCompilers == ToolSpec => Spec
<1>1. ToolInit => Init
  BY DEF ToolInit
<1>2. ToolInv /\ [ToolNext]_toolvars => [Next]_vars
  BY ToolStep
<1> QED
  BY <1>1, <1>2, ToolInductive, PTL DEF ToolSpec, Spec

\* However many processes run side by side on whatever files: a report in
\* place i is about file i, names the shader in it or an error that is there,
\* as long as no process has that file for an output.
THEOREM ReportsTellTheTruth == ToolSpec => []ReportsAreTrue
<1>1. ToolInv => ReportsAreTrue
  <2> SUFFICES ASSUME ToolInv, NEW c \in Compilers, NEW i \in DOMAIN reports[c]
               PROVE  ReportIsTrue(reports[c][i], InputFiles(c)[i])
    BY DEF ReportsAreTrue
  <2>1. Reporting(c)
    BY DEF ToolInv
  <2>2. DOMAIN reports[c] = 1 .. Len(reports[c])
    BY <2>1, LenProperties DEF Reporting, IsASequence
  <2> QED
    BY <2>1, <2>2 DEF Reporting
<1> QED
  BY <1>1, ToolInductive, PTL

-----------------------------------------------------------------------------
(* The command line: what Args::Parse has made of the first n words.       *)

MakeArgs(h, f, s, r, u, k, l) ==
  [help |-> h, input_files |-> f, skip |-> s,
   options |-> [generate_reflection_file |-> r, use_binary_reflection |-> u,
                keep_intermediate |-> k, limits |-> l]]

IsArgs(a) ==
  /\ a = MakeArgs(a.help, a.input_files, a.skip, a.options.generate_reflection_file,
                  a.options.use_binary_reflection, a.options.keep_intermediate,
                  a.options.limits)
  /\ IsASequence(a.input_files)
  /\ DOMAIN a.options.limits = DOMAIN DefaultLimits

LEMMA MakeArgsFields ==
  ASSUME NEW h, NEW f, NEW s, NEW r, NEW u, NEW k, NEW l, NEW a,
         a = MakeArgs(h, f, s, r, u, k, l)
  PROVE  /\ a.help = h /\ a.input_files = f /\ a.skip = s
         /\ a.options.generate_reflection_file = r /\ a.options.use_binary_reflection = u
         /\ a.options.keep_intermediate = k /\ a.options.limits = l
BY DEF MakeArgs

LEMMA MakeArgsIs ==
  ASSUME NEW h, NEW f, NEW s, NEW r, NEW u, NEW k, NEW l, NEW a,
         a = MakeArgs(h, f, s, r, u, k, l), IsASequence(f), DOMAIN l = DOMAIN DefaultLimits
  PROVE  IsArgs(a)
BY MakeArgsFields DEF IsArgs

\* What each assignment of the loop changes.
LEMMA HelpSet ==
  ASSUME NEW a, IsArgs(a), NEW x, NEW b, b = [a EXCEPT !.help = x]
  PROVE  /\ IsArgs(b)
         /\ b.help = x
         /\ b.input_files = a.input_files /\ b.skip = a.skip
         /\ b.options = a.options
         /\ b.options.generate_reflection_file = a.options.generate_reflection_file
         /\ b.options.use_binary_reflection = a.options.use_binary_reflection
         /\ b.options.keep_intermediate = a.options.keep_intermediate
         /\ b.options.limits = a.options.limits
<1>1. PICK h, f, s, r, u, k, l : a = MakeArgs(h, f, s, r, u, k, l)
  BY DEF IsArgs
<1>2. b = MakeArgs(x, f, s, r, u, k, l)
  BY <1>1 DEF MakeArgs
<1>3. IsASequence(f) /\ DOMAIN l = DOMAIN DefaultLimits
  BY <1>1, MakeArgsFields DEF IsArgs
<1>4. b.options = a.options
  BY <1>1, <1>2 DEF MakeArgs
<1>5. /\ a.help = h /\ a.input_files = f /\ a.skip = s
      /\ a.options.generate_reflection_file = r /\ a.options.use_binary_reflection = u
      /\ a.options.keep_intermediate = k /\ a.options.limits = l
  BY <1>1, MakeArgsFields
<1>6. /\ b.help = x /\ b.input_files = f /\ b.skip = s
      /\ b.options.generate_reflection_file = r /\ b.options.use_binary_reflection = u
      /\ b.options.keep_intermediate = k /\ b.options.limits = l
  BY <1>2 DEF MakeArgs
<1>7. IsArgs(b)
  BY <1>2, <1>3, MakeArgsIs
<1> QED
  BY <1>4, <1>5, <1>6, <1>7

LEMMA FilesSet ==
  ASSUME NEW a, IsArgs(a), NEW x, IsASequence(x), NEW b, b = [a EXCEPT !.input_files = x]
  PROVE  /\ IsArgs(b)
         /\ b.input_files = x
         /\ b.help = a.help /\ b.skip = a.skip
         /\ b.options = a.options
         /\ b.options.generate_reflection_file = a.options.generate_reflection_file
         /\ b.options.use_binary_reflection = a.options.use_binary_reflection
         /\ b.options.keep_intermediate = a.options.keep_intermediate
         /\ b.options.limits = a.options.limits
<1>1. PICK h, f, s, r, u, k, l : a = MakeArgs(h, f, s, r, u, k, l)
  BY DEF IsArgs
<1>2. b = MakeArgs(h, x, s, r, u, k, l)
  BY <1>1 DEF MakeArgs
<1>3. IsASequence(f) /\ DOMAIN l = DOMAIN DefaultLimits
  BY <1>1, MakeArgsFields DEF IsArgs
<1>4. b.options = a.options
  BY <1>1, <1>2 DEF MakeArgs
<1>5. /\ a.help = h /\ a.input_files = f /\ a.skip = s
      /\ a.options.generate_reflection_file = r /\ a.options.use_binary_reflection = u
      /\ a.options.keep_intermediate = k /\ a.options.limits = l
  BY <1>1, MakeArgsFields
<1>6. /\ b.help = h /\ b.input_files = x /\ b.skip = s
      /\ b.options.generate_reflection_file = r /\ b.options.use_binary_reflection = u
      /\ b.options.keep_intermediate = k /\ b.options.limits = l
  BY <1>2 DEF MakeArgs
<1>7. IsArgs(b)
  BY <1>2, <1>3, MakeArgsIs
<1> QED
  BY <1>4, <1>5, <1>6, <1>7

LEMMA SkipSet ==
  ASSUME NEW a, IsArgs(a), NEW x, NEW b, b = [a EXCEPT !.skip = x]
  PROVE  /\ IsArgs(b)
         /\ b.skip = x
         /\ b.help = a.help /\ b.input_files = a.input_files
         /\ b.options = a.options
         /\ b.options.generate_reflection_file = a.options.generate_reflection_file
         /\ b.options.use_binary_reflection = a.options.use_binary_reflection
         /\ b.options.keep_intermediate = a.options.keep_intermediate
         /\ b.options.limits = a.options.limits
<1>1. PICK h, f, s, r, u, k, l : a = MakeArgs(h, f, s, r, u, k, l)
  BY DEF IsArgs
<1>2. b = MakeArgs(h, f, x, r, u, k, l)
  BY <1>1 DEF MakeArgs
<1>3. IsASequence(f) /\ DOMAIN l = DOMAIN DefaultLimits
  BY <1>1, MakeArgsFields DEF IsArgs
<1>4. b.options = a.options
  BY <1>1, <1>2 DEF MakeArgs
<1>5. /\ a.help = h /\ a.input_files = f /\ a.skip = s
      /\ a.options.generate_reflection_file = r /\ a.options.use_binary_reflection = u
      /\ a.options.keep_intermediate = k /\ a.options.limits = l
  BY <1>1, MakeArgsFields
<1>6. /\ b.help = h /\ b.input_files = f /\ b.skip = x
      /\ b.options.generate_reflection_file = r /\ b.options.use_binary_reflection = u
      /\ b.options.keep_intermediate = k /\ b.options.limits = l
  BY <1>2 DEF MakeArgs
<1>7. IsArgs(b)
  BY <1>2, <1>3, MakeArgsIs
<1> QED
  BY <1>4, <1>5, <1>6, <1>7

ReflectionIs(b, a) == b = [a EXCEPT !.options.generate_reflection_file = TRUE]

LEMMA ReflectionSet ==
  ASSUME NEW a, IsArgs(a), NEW b, ReflectionIs(b, a)
  PROVE  /\ IsArgs(b)
         /\ b.options.generate_reflection_file = TRUE
         /\ b.help = a.help /\ b.input_files = a.input_files /\ b.skip = a.skip
         /\ b.options.use_binary_reflection = a.options.use_binary_reflection
         /\ b.options.keep_intermediate = a.options.keep_intermediate
         /\ b.options.limits = a.options.limits
<1>1. PICK h, f, s, r, u, k, l : a = MakeArgs(h, f, s, r, u, k, l)
  BY DEF IsArgs
<1>2. b = MakeArgs(h, f, s, TRUE, u, k, l)
  BY <1>1 DEF MakeArgs, ReflectionIs
<1>3. IsASequence(f) /\ DOMAIN l = DOMAIN DefaultLimits
  BY <1>1, MakeArgsFields DEF IsArgs
<1>4. /\ a.help = h /\ a.input_files = f /\ a.skip = s
      /\ a.options.generate_reflection_file = r /\ a.options.use_binary_reflection = u
      /\ a.options.keep_intermediate = k /\ a.options.limits = l
  BY <1>1, MakeArgsFields
<1>5. /\ b.help = h /\ b.input_files = f /\ b.skip = s
      /\ b.options.generate_reflection_file = TRUE /\ b.options.use_binary_reflection = u
      /\ b.options.keep_intermediate = k /\ b.options.limits = l
  BY <1>2 DEF MakeArgs
<1>6. IsArgs(b)
  BY <1>2, <1>3, MakeArgsIs
<1> QED
  BY <1>4, <1>5, <1>6

BinaryIs(b, a) == b = [a EXCEPT !.options.use_binary_reflection = TRUE]

LEMMA BinarySet ==
  ASSUME NEW a, IsArgs(a), NEW b, BinaryIs(b, a)
  PROVE  /\ IsArgs(b)
         /\ b.options.use_binary_reflection = TRUE
         /\ b.help = a.help /\ b.input_files = a.input_files /\ b.skip = a.skip
         /\ b.options.generate_reflection_file = a.options.generate_reflection_file
         /\ b.options.keep_intermediate = a.options.keep_intermediate
         /\ b.options.limits = a.options.limits
<1>1. PICK h, f, s, r, u, k, l : a = MakeArgs(h, f, s, r, u, k, l)
  BY DEF IsArgs
<1>2. b = MakeArgs(h, f, s, r, TRUE, k, l)
  BY <1>1 DEF MakeArgs, BinaryIs
<1>3. IsASequence(f) /\ DOMAIN l = DOMAIN DefaultLimits
  BY <1>1, MakeArgsFields DEF IsArgs
<1>4. /\ a.help = h /\ a.input_files = f /\ a.skip = s
      /\ a.options.generate_reflection_file = r /\ a.options.use_binary_reflection = u
      /\ a.options.keep_intermediate = k /\ a.options.limits = l
  BY <1>1, MakeArgsFields
<1>5. /\ b.help = h /\ b.input_files = f /\ b.skip = s
      /\ b.options.generate_reflection_file = r /\ b.options.use_binary_reflection = TRUE
      /\ b.options.keep_intermediate = k /\ b.options.limits = l
  BY <1>2 DEF MakeArgs
<1>6. IsArgs(b)
  BY <1>2, <1>3, MakeArgsIs
<1> QED
  BY <1>4, <1>5, <1>6

GlslIs(b, a) == b = [a EXCEPT !.options.keep_intermediate = TRUE]

LEMMA GlslSet ==
  ASSUME NEW a, IsArgs(a), NEW b, GlslIs(b, a)
  PROVE  /\ IsArgs(b)
         /\ b.options.keep_intermediate = TRUE
         /\ b.help = a.help /\ b.input_files = a.input_files /\ b.skip = a.skip
         /\ b.options.generate_reflection_file = a.options.generate_reflection_file
         /\ b.options.use_binary_reflection = a.options.use_binary_reflection
         /\ b.options.limits = a.options.limits
<1>1. PICK h, f, s, r, u, k, l : a = MakeArgs(h, f, s, r, u, k, l)
  BY DEF IsArgs
<1>2. b = MakeArgs(h, f, s, r, u, TRUE, l)
  BY <1>1 DEF MakeArgs, GlslIs
<1>3. IsASequence(f) /\ DOMAIN l = DOMAIN DefaultLimits
  BY <1>1, MakeArgsFields DEF IsArgs
<1>4. /\ a.help = h /\ a.input_files = f /\ a.skip = s
      /\ a.options.generate_reflection_file = r /\ a.options.use_binary_reflection = u
      /\ a.options.keep_intermediate = k /\ a.options.limits = l
  BY <1>1, MakeArgsFields
<1>5. /\ b.help = h /\ b.input_files = f /\ b.skip = s
      /\ b.options.generate_reflection_file = r /\ b.options.use_binary_reflection = u
      /\ b.options.keep_intermediate = TRUE /\ b.options.limits = l
  BY <1>2 DEF MakeArgs
<1>6. IsArgs(b)
  BY <1>2, <1>3, MakeArgsIs
<1> QED
  BY <1>4, <1>5, <1>6

LimitsIs(b, a, x) == b = [a EXCEPT !.options.limits = x]

LEMMA LimitsSet ==
  ASSUME NEW a, IsArgs(a), NEW x, DOMAIN x = DOMAIN DefaultLimits, NEW b, LimitsIs(b, a, x)
  PROVE  /\ IsArgs(b)
         /\ b.options.limits = x
         /\ b.help = a.help /\ b.input_files = a.input_files /\ b.skip = a.skip
         /\ b.options.generate_reflection_file = a.options.generate_reflection_file
         /\ b.options.use_binary_reflection = a.options.use_binary_reflection
         /\ b.options.keep_intermediate = a.options.keep_intermediate
<1>1. PICK h, f, s, r, u, k, l : a = MakeArgs(h, f, s, r, u, k, l)
  BY DEF IsArgs
<1>2. b = MakeArgs(h, f, s, r, u, k, x)
  BY <1>1 DEF MakeArgs, LimitsIs
<1>3. IsASequence(f) /\ DOMAIN l = DOMAIN DefaultLimits
  BY <1>1, MakeArgsFields DEF IsArgs
<1>4. /\ a.help = h /\ a.input_files = f /\ a.skip = s
      /\ a.options.generate_reflection_file = r /\ a.options.use_binary_reflection = u
      /\ a.options.keep_intermediate = k /\ a.options.limits = l
  BY <1>1, MakeArgsFields
<1>5. /\ b.help = h /\ b.input_files = f /\ b.skip = s
      /\ b.options.generate_reflection_file = r /\ b.options.use_binary_reflection = u
      /\ b.options.keep_intermediate = k /\ b.options.limits = x
  BY <1>2 DEF MakeArgs
<1>6. IsArgs(b)
  BY <1>2, <1>3, MakeArgsIs
<1> QED
  BY <1>4, <1>5, <1>6

AmongFirst(words, n, kinds) == \E i \in 1 .. n : words[i].kind \in kinds

IsInput(words, j) == ~ IsFlag(words[j]) /\ ~ IsArgument(words, j)
FilesAmong(words, n) == {words[i].file : i \in {j \in 1 .. n : IsInput(words, j)}}

GivesLimit(words, i, type) == words[i] = LimitFlag(type) /\ HasValue(words, i)
Givers(words, n, type) == {i \in 1 .. n : GivesLimit(words, i, type)}
LimitAmong(words, n, type) ==
  IF Givers(words, n, type) = {} THEN DefaultLimits[type]
  ELSE words[(CHOOSE i \in Givers(words, n, type) :
                \A j \in Givers(words, n, type) : j <= i) + 1].value

\* The next word is skipped after a limit that takes it, and only then.
Skips(words, n) == n >= 1 /\ words[n].kind = "limit" /\ TakesNext(words, n)

\* a is what the first n words mean.
FlagsMeant(words, n, a) ==
  /\ a.options.generate_reflection_file = AmongFirst(words, n, {"reflect", "binary"})
  /\ a.options.use_binary_reflection = AmongFirst(words, n, {"binary"})
  /\ a.options.keep_intermediate = AmongFirst(words, n, {"glsl"})
LimitsMeant(words, n, a) ==
  \A type \in DOMAIN DefaultLimits : a.options.limits[type] = LimitAmong(words, n, type)
FilesMeant(words, n, a) == ToSet(a.input_files) = FilesAmong(words, n)
HelpMeant(words, n, a)  == a.help = AmongFirst(words, n, {"help"})

Meant(words, n, a) ==
  /\ IsArgs(a)
  /\ HelpMeant(words, n, a)
  /\ ~ a.help => /\ a.skip = Skips(words, n)
                 /\ FlagsMeant(words, n, a)
                 /\ FilesMeant(words, n, a)
                 /\ LimitsMeant(words, n, a)

LEMMA AmongOneMore ==
  ASSUME NEW words, NEW n \in Nat, n >= 1, NEW kinds
  PROVE  AmongFirst(words, n, kinds) <=> (AmongFirst(words, n - 1, kinds) \/ words[n].kind \in kinds)
<1>1. \A i \in 1 .. n : i \in 1 .. n - 1 \/ i = n
  OBVIOUS
<1>2. n \in 1 .. n /\ \A i \in 1 .. n - 1 : i \in 1 .. n
  OBVIOUS
<1> QED
  BY <1>1, <1>2 DEF AmongFirst

LEMMA FilesOneMore ==
  ASSUME NEW words, NEW n \in Nat, n >= 1
  PROVE  FilesAmong(words, n) = FilesAmong(words, n - 1)
                                  \cup (IF IsInput(words, n) THEN {words[n].file} ELSE {})
<1>1. \A i \in 1 .. n : i \in 1 .. n - 1 \/ i = n
  OBVIOUS
<1>2. n \in 1 .. n /\ \A i \in 1 .. n - 1 : i \in 1 .. n
  OBVIOUS
<1> QED
  BY <1>1, <1>2 DEF FilesAmong

LEMMA LimitOneMore ==
  ASSUME NEW words, NEW n \in Nat, n >= 1, NEW type
  PROVE  LimitAmong(words, n, type) =
           IF GivesLimit(words, n, type) THEN words[n + 1].value
           ELSE LimitAmong(words, n - 1, type)
<1>1. \A i \in 1 .. n : i \in 1 .. n - 1 \/ i = n
  OBVIOUS
<1>2. n \in 1 .. n /\ \A i \in 1 .. n - 1 : i \in 1 .. n
  OBVIOUS
<1>3. CASE ~ GivesLimit(words, n, type)
  <2>1. Givers(words, n, type) = Givers(words, n - 1, type)
    BY <1>1, <1>2, <1>3 DEF Givers
  <2> QED
    BY <1>3, <2>1 DEF LimitAmong
<1>4. CASE GivesLimit(words, n, type)
  <2> DEFINE G == Givers(words, n, type)
  <2>1. n \in G /\ \A j \in G : j \in Nat /\ j <= n
    BY <1>2, <1>4 DEF Givers
  <2> HIDE DEF G
  <2>2. \A i \in G : (\A j \in G : j <= i) => i = n
    BY <2>1
  <2>3. (CHOOSE i \in G : \A j \in G : j <= i) = n
    BY <2>1, <2>2
  <2>4. G # {}
    BY <2>1
  <2> DEFINE last == CHOOSE i \in G : \A j \in G : j <= i
  <2>5. LimitAmong(words, n, type) = words[last + 1].value
    BY <2>4 DEF LimitAmong, G
  <2>6. last = n
    BY <2>3
  <2> HIDE DEF last
  <2> QED
    BY <1>4, <2>5, <2>6
<1> QED
  BY <1>3, <1>4

\* One word more, for each thing that words say: a flag, a limit, a file.
LEMMA FlagsOneMore ==
  ASSUME NEW words, NEW n \in Nat, n >= 1, NEW a, NEW b, FlagsMeant(words, n - 1, a),
         b.options.generate_reflection_file =
           IF words[n].kind \in {"reflect", "binary"} THEN TRUE
           ELSE a.options.generate_reflection_file,
         b.options.use_binary_reflection =
           IF words[n].kind \in {"binary"} THEN TRUE ELSE a.options.use_binary_reflection,
         b.options.keep_intermediate =
           IF words[n].kind \in {"glsl"} THEN TRUE ELSE a.options.keep_intermediate
  PROVE  FlagsMeant(words, n, b)
<1>1. b.options.generate_reflection_file = AmongFirst(words, n, {"reflect", "binary"})
  <2>1. AmongFirst(words, n, {"reflect", "binary"}) <=>
          (AmongFirst(words, n - 1, {"reflect", "binary"}) \/ words[n].kind \in {"reflect", "binary"})
    BY AmongOneMore
  <2>2. AmongFirst(words, n, {"reflect", "binary"}) \in BOOLEAN /\ AmongFirst(words, n - 1, {"reflect", "binary"}) \in BOOLEAN
    BY DEF AmongFirst
  <2>3. a.options.generate_reflection_file = AmongFirst(words, n - 1, {"reflect", "binary"})
    BY DEF FlagsMeant
  <2> QED
    BY <2>1, <2>2, <2>3
<1>2. b.options.use_binary_reflection = AmongFirst(words, n, {"binary"})
  <2>1. AmongFirst(words, n, {"binary"}) <=>
          (AmongFirst(words, n - 1, {"binary"}) \/ words[n].kind \in {"binary"})
    BY AmongOneMore
  <2>2. AmongFirst(words, n, {"binary"}) \in BOOLEAN /\ AmongFirst(words, n - 1, {"binary"}) \in BOOLEAN
    BY DEF AmongFirst
  <2>3. a.options.use_binary_reflection = AmongFirst(words, n - 1, {"binary"})
    BY DEF FlagsMeant
  <2> QED
    BY <2>1, <2>2, <2>3
<1>3. b.options.keep_intermediate = AmongFirst(words, n, {"glsl"})
  <2>1. AmongFirst(words, n, {"glsl"}) <=>
          (AmongFirst(words, n - 1, {"glsl"}) \/ words[n].kind \in {"glsl"})
    BY AmongOneMore
  <2>2. AmongFirst(words, n, {"glsl"}) \in BOOLEAN /\ AmongFirst(words, n - 1, {"glsl"}) \in BOOLEAN
    BY DEF AmongFirst
  <2>3. a.options.keep_intermediate = AmongFirst(words, n - 1, {"glsl"})
    BY DEF FlagsMeant
  <2> QED
    BY <2>1, <2>2, <2>3
<1> QED
  BY <1>1, <1>2, <1>3 DEF FlagsMeant

LEMMA FlagsAside ==
  ASSUME NEW words, NEW n \in Nat, n >= 1, NEW a, NEW b,
         words[n].kind \notin {"reflect", "binary", "glsl"}, FlagsMeant(words, n - 1, a),
         b.options.generate_reflection_file = a.options.generate_reflection_file,
         b.options.use_binary_reflection = a.options.use_binary_reflection,
         b.options.keep_intermediate = a.options.keep_intermediate
  PROVE  FlagsMeant(words, n, b)
<1>1. /\ b.options.generate_reflection_file =
           IF words[n].kind \in {"reflect", "binary"} THEN TRUE
           ELSE a.options.generate_reflection_file
      /\ b.options.use_binary_reflection =
           IF words[n].kind \in {"binary"} THEN TRUE ELSE a.options.use_binary_reflection
      /\ b.options.keep_intermediate =
           IF words[n].kind \in {"glsl"} THEN TRUE ELSE a.options.keep_intermediate
  OBVIOUS
<1> QED
  BY <1>1, FlagsOneMore

LEMMA LimitsAside ==
  ASSUME NEW words, NEW n \in Nat, n >= 1, NEW a, NEW b,
         words[n].kind # "limit", LimitsMeant(words, n - 1, a),
         b.options.limits = a.options.limits
  PROVE  LimitsMeant(words, n, b)
<1>1. \A type : ~ GivesLimit(words, n, type)
  BY DEF GivesLimit, LimitFlag
<1>2. \A type : LimitAmong(words, n, type) = LimitAmong(words, n - 1, type)
  BY <1>1, LimitOneMore
<1> QED
  BY <1>2 DEF LimitsMeant

LEMMA FilesAside ==
  ASSUME NEW words, NEW n \in Nat, n >= 1, NEW a, NEW b,
         ~ IsInput(words, n), FilesMeant(words, n - 1, a), b.input_files = a.input_files
  PROVE  FilesMeant(words, n, b)
<1>1. FilesAmong(words, n) = FilesAmong(words, n - 1)
                               \cup (IF IsInput(words, n) THEN {words[n].file} ELSE {})
  BY FilesOneMore
<1> QED
  BY <1>1 DEF FilesMeant

\* After the words before it, a word is an argument just if it is skipped.
LEMMA SkippedWords ==
  ASSUME NEW words, IsCommandLine(words), NEW n \in 1 .. Len(words)
  PROVE  /\ Skips(words, n - 1) => words[n].kind \in {"number", "negative"} /\ ~ IsInput(words, n)
         /\ ~ Skips(words, n - 1) => ~ IsArgument(words, n)
<1>0. n \in Nat /\ n >= 1 /\ Len(words) \in Nat /\ n <= Len(words)
  BY DEF IsCommandLine
<1>1. n - 1 \in Nat /\ (n - 1) + 1 = n /\ n - 1 < Len(words)
  BY <1>0
<1>2. ASSUME Skips(words, n - 1)
      PROVE  words[n].kind \in {"number", "negative"} /\ ~ IsInput(words, n)
  <2>1. n > 1 /\ words[n - 1].kind = "limit" /\ words[n].kind \in {"number", "negative"}
    BY <1>0, <1>1, <1>2 DEF Skips, TakesNext, Follows
  <2> QED
    BY <2>1 DEF IsInput, IsFlag, IsArgument
<1>3. ASSUME IsArgument(words, n) PROVE Skips(words, n - 1)
  <2>1. n - 1 >= 1
    BY <1>0, <1>3 DEF IsArgument
  <2> QED
    BY <1>1, <1>3, <2>1 DEF IsArgument, Skips, TakesNext, Follows
<1> QED
  BY <1>2, <1>3

\* One word more, in each case of the loop.
TakingWord(words, n, a) ==
  /\ IsCommandLine(words) /\ n \in 1 .. Len(words)
  /\ Meant(words, n - 1, a)

LEMMA MeantAfterHelp ==
  ASSUME NEW words, NEW n, NEW a, TakingWord(words, n, a), a.help
  PROVE  Meant(words, n, WordTaken(a, words, n))
<1>0. n \in Nat /\ n >= 1
  BY DEF TakingWord, IsCommandLine
<1>1. WordTaken(a, words, n) = a /\ IsArgs(a)
  BY DEF WordTaken, TakingWord, Meant
<1>2. a.help = AmongFirst(words, n - 1, {"help"})
  BY DEF TakingWord, Meant, HelpMeant
<1>3. AmongFirst(words, n, {"help"})
  BY <1>0, <1>2, AmongOneMore
<1>4. a.help = AmongFirst(words, n, {"help"})
  <2>1. a.help = TRUE
    BY <1>2 DEF AmongFirst
  <2>2. AmongFirst(words, n, {"help"}) = TRUE
    BY <1>3 DEF AmongFirst
  <2> QED
    BY <2>1, <2>2
<1> QED
  BY <1>1, <1>4 DEF Meant, HelpMeant

LEMMA HelpStays ==
  ASSUME NEW words, NEW n, NEW a, TakingWord(words, n, a), NEW b, b.help = a.help,
         words[n].kind # "help"
  PROVE  HelpMeant(words, n, b)
<1>0. n \in Nat /\ n >= 1
  BY DEF TakingWord, IsCommandLine
<1>1. a.help = AmongFirst(words, n - 1, {"help"})
  BY DEF TakingWord, Meant, HelpMeant
<1>2. AmongFirst(words, n, {"help"}) <=> AmongFirst(words, n - 1, {"help"})
  BY <1>0, AmongOneMore
<1>3. AmongFirst(words, n, {"help"}) = AmongFirst(words, n - 1, {"help"})
  BY <1>2 DEF AmongFirst
<1> QED
  BY <1>1, <1>3 DEF HelpMeant

LEMMA MeantSkipped ==
  ASSUME NEW words, NEW n, NEW a, TakingWord(words, n, a), ~ a.help, a.skip
  PROVE  Meant(words, n, WordTaken(a, words, n))
<1> DEFINE b == [a EXCEPT !.skip = FALSE]
<1>0. n \in Nat /\ n >= 1 /\ n \in 1 .. Len(words) /\ IsCommandLine(words)
  BY DEF TakingWord, IsCommandLine
<1>1. WordTaken(a, words, n) = b
  BY DEF WordTaken
<1>2. IsArgs(a) /\ a.skip = Skips(words, n - 1) /\ FlagsMeant(words, n - 1, a)
      /\ FilesMeant(words, n - 1, a) /\ LimitsMeant(words, n - 1, a)
  BY DEF TakingWord, Meant
<1>3. words[n].kind \in {"number", "negative"} /\ ~ IsInput(words, n)
  BY <1>0, <1>2, SkippedWords
<1>4. b.options = a.options /\ b.input_files = a.input_files /\ b.help = a.help
      /\ b.skip = FALSE /\ IsArgs(b)
  <2>1. b = [a EXCEPT !.skip = FALSE] /\ IsArgs(a)
    BY <1>2
  <2> HIDE DEF b
  <2> QED
    BY <2>1, SkipSet
<1> HIDE DEF b
<1>5. HelpMeant(words, n, b)
  BY <1>3, <1>4, HelpStays
<1>6. FlagsMeant(words, n, b) /\ LimitsMeant(words, n, b) /\ FilesMeant(words, n, b)
  BY <1>0, <1>2, <1>3, <1>4, FlagsAside, LimitsAside, FilesAside
<1>7. b.skip = Skips(words, n)
  <2>1. ~ Skips(words, n)
    BY <1>3 DEF Skips
  <2>2. Skips(words, n) = FALSE
    BY <2>1 DEF Skips
  <2> QED
    BY <1>4, <2>2
<1> QED
  BY <1>1, <1>4, <1>5, <1>6, <1>7 DEF Meant

\* The cases in which the word itself is looked at.
Looking(words, n, a) == TakingWord(words, n, a) /\ ~ a.help /\ ~ a.skip

LEMMA LookingFacts ==
  ASSUME NEW words, NEW n, NEW a, Looking(words, n, a)
  PROVE  /\ n \in Nat /\ n >= 1 /\ IsWord(words[n])
         /\ IsArgs(a) /\ a.skip = FALSE /\ ~ IsArgument(words, n)
         /\ FlagsMeant(words, n - 1, a) /\ FilesMeant(words, n - 1, a)
         /\ LimitsMeant(words, n - 1, a)
<1>1. n \in Nat /\ n >= 1 /\ n \in 1 .. Len(words) /\ IsCommandLine(words)
  BY DEF Looking, TakingWord, IsCommandLine
<1>2. IsWord(words[n])
  BY <1>1 DEF IsCommandLine
<1>3. /\ IsArgs(a) /\ a.skip = Skips(words, n - 1)
      /\ FlagsMeant(words, n - 1, a) /\ FilesMeant(words, n - 1, a)
      /\ LimitsMeant(words, n - 1, a)
  BY DEF Looking, TakingWord, Meant
<1>4. a.skip = FALSE
  BY <1>3 DEF Looking, Skips
<1>5. ~ IsArgument(words, n)
  BY <1>1, <1>3, SkippedWords DEF Looking
<1> QED
  BY <1>1, <1>2, <1>3, <1>4, <1>5

LEMMA NothingToSkip ==
  ASSUME NEW words, NEW n, words[n].kind # "limit" PROVE Skips(words, n) = FALSE
BY DEF Skips

LEMMA MeantFile ==
  ASSUME NEW words, NEW n, NEW a, Looking(words, n, a), ~ IsFlag(words[n])
  PROVE  Meant(words, n, WordTaken(a, words, n))
<1> DEFINE x == Append(a.input_files, words[n].file)
           b == [a EXCEPT !.input_files = x]
<1>1. WordTaken(a, words, n) = b
  BY DEF WordTaken, Looking
<1>2. words[n].kind \in {"name", "number"}
  BY DEF IsFlag
<1>3. IsASequence(a.input_files)
  BY LookingFacts DEF IsArgs
<1>4. /\ IsASequence(x) /\ ToSet(x) = ToSet(a.input_files) \cup {words[n].file}
  <2> DEFINE s == a.input_files
             e == words[n].file
  <2>1. /\ IsASequence(Append(s, e)) /\ Len(s) \in Nat /\ DOMAIN s = 1 .. Len(s)
        /\ Len(Append(s, e)) = Len(s) + 1
        /\ \A i \in 1 .. Len(s) : Append(s, e)[i] = s[i]
        /\ Append(s, e)[Len(s) + 1] = e
    BY <1>3, AppendToSequence
  <2>2. DOMAIN Append(s, e) = 1 .. Len(s) + 1
    BY <2>1, AppendToSequence
  <2>3. \A i \in 1 .. Len(s) + 1 : i \in 1 .. Len(s) \/ i = Len(s) + 1
    BY <2>1
  <2>4. Len(s) + 1 \in 1 .. Len(s) + 1 /\ \A i \in 1 .. Len(s) : i \in 1 .. Len(s) + 1
    BY <2>1
  <2> HIDE DEF s, e
  <2>5. ToSet(Append(s, e)) = ToSet(s) \cup {e}
    BY <2>1, <2>2, <2>3, <2>4 DEF ToSet
  <2> QED
    BY <2>1, <2>5 DEF s, e
<1> HIDE DEF x
<1>5. /\ IsArgs(b) /\ b.input_files = x /\ b.help = a.help /\ b.skip = a.skip
      /\ b.options = a.options
  <2>1. IsArgs(a) /\ b = [a EXCEPT !.input_files = x]
    BY LookingFacts
  <2> HIDE DEF b
  <2> QED
    BY <1>4, <2>1, FilesSet
<1> HIDE DEF b
<1>6. FilesMeant(words, n, b)
  <2>1. IsInput(words, n)
    BY LookingFacts DEF IsInput
  <2>2. FilesAmong(words, n) = FilesAmong(words, n - 1)
                                 \cup (IF IsInput(words, n) THEN {words[n].file} ELSE {})
    BY LookingFacts, FilesOneMore
  <2>3. ToSet(a.input_files) = FilesAmong(words, n - 1)
    BY LookingFacts DEF FilesMeant
  <2> QED
    BY <1>4, <1>5, <2>1, <2>2, <2>3 DEF FilesMeant
<1>7. FlagsMeant(words, n, b) /\ LimitsMeant(words, n, b)
  BY <1>2, <1>5, LookingFacts, FlagsAside, LimitsAside
<1>8. HelpMeant(words, n, b)
  BY <1>2, <1>5, HelpStays DEF Looking
<1>9. b.skip = Skips(words, n)
  BY <1>2, <1>5, LookingFacts, NothingToSkip
<1> QED
  BY <1>1, <1>5, <1>6, <1>7, <1>8, <1>9 DEF Meant

LEMMA MeantHelp ==
  ASSUME NEW words, NEW n, NEW a, Looking(words, n, a), words[n].kind = "help"
  PROVE  Meant(words, n, WordTaken(a, words, n))
<1> DEFINE b == [a EXCEPT !.help = TRUE]
<1>1. WordTaken(a, words, n) = b
  BY DEF WordTaken, Looking, IsFlag
<1>2. IsArgs(b) /\ b.help = TRUE
  <2>1. IsArgs(a) /\ b = [a EXCEPT !.help = TRUE]
    BY LookingFacts
  <2> HIDE DEF b
  <2> QED
    BY <2>1, HelpSet
<1> HIDE DEF b
<1>3. AmongFirst(words, n, {"help"}) = TRUE
  <2>1. AmongFirst(words, n, {"help"})
    BY LookingFacts, AmongOneMore
  <2> QED
    BY <2>1 DEF AmongFirst
<1> QED
  BY <1>1, <1>2, <1>3 DEF Meant, HelpMeant

\* What the flags that only switch something on leave to be shown.
LEMMA MeantSwitch ==
  ASSUME NEW words, NEW n, NEW a, Looking(words, n, a), NEW b, IsArgs(b),
         words[n].kind \in {"reflect", "binary", "glsl"}, FlagsMeant(words, n, b),
         b.help = a.help, b.input_files = a.input_files, b.skip = a.skip,
         b.options.limits = a.options.limits
  PROVE  Meant(words, n, b)
<1>1. ~ IsInput(words, n)
  BY DEF IsInput, IsFlag
<1>2. LimitsMeant(words, n, b) /\ FilesMeant(words, n, b)
  BY <1>1, LookingFacts, LimitsAside, FilesAside
<1>3. HelpMeant(words, n, b)
  BY HelpStays DEF Looking
<1>4. b.skip = Skips(words, n)
  BY LookingFacts, NothingToSkip
<1> QED
  BY <1>2, <1>3, <1>4 DEF Meant

LEMMA MeantReflect ==
  ASSUME NEW words, NEW n, NEW a, Looking(words, n, a), words[n].kind = "reflect"
  PROVE  Meant(words, n, WordTaken(a, words, n))
<1> DEFINE b == [a EXCEPT !.options.generate_reflection_file = TRUE]
<1>1. WordTaken(a, words, n) = b
  BY DEF WordTaken, Looking, IsFlag
<1>2. /\ IsArgs(b) /\ b.help = a.help /\ b.input_files = a.input_files /\ b.skip = a.skip
      /\ b.options.generate_reflection_file = TRUE
      /\ b.options.use_binary_reflection = a.options.use_binary_reflection
      /\ b.options.keep_intermediate = a.options.keep_intermediate
      /\ b.options.limits = a.options.limits
  <2>1. IsArgs(a) /\ ReflectionIs(b, a)
    BY LookingFacts DEF ReflectionIs
  <2> HIDE DEF b
  <2> QED
    BY <2>1, ReflectionSet
<1> HIDE DEF b
<1>3. FlagsMeant(words, n, b)
  <2>1. /\ n \in Nat /\ n >= 1 /\ FlagsMeant(words, n - 1, a)
        /\ b.options.generate_reflection_file =
             IF words[n].kind \in {"reflect", "binary"} THEN TRUE
             ELSE a.options.generate_reflection_file
        /\ b.options.use_binary_reflection =
             IF words[n].kind \in {"binary"} THEN TRUE ELSE a.options.use_binary_reflection
        /\ b.options.keep_intermediate =
             IF words[n].kind \in {"glsl"} THEN TRUE ELSE a.options.keep_intermediate
    BY <1>2, LookingFacts
  <2> QED
    BY <2>1, FlagsOneMore
<1> QED
  BY <1>1, <1>2, <1>3, MeantSwitch

LEMMA MeantGlsl ==
  ASSUME NEW words, NEW n, NEW a, Looking(words, n, a), words[n].kind = "glsl"
  PROVE  Meant(words, n, WordTaken(a, words, n))
<1> DEFINE b == [a EXCEPT !.options.keep_intermediate = TRUE]
<1>1. WordTaken(a, words, n) = b
  BY DEF WordTaken, Looking, IsFlag
<1>2. /\ IsArgs(b) /\ b.help = a.help /\ b.input_files = a.input_files /\ b.skip = a.skip
      /\ b.options.generate_reflection_file = a.options.generate_reflection_file
      /\ b.options.use_binary_reflection = a.options.use_binary_reflection
      /\ b.options.keep_intermediate = TRUE
      /\ b.options.limits = a.options.limits
  <2>1. IsArgs(a) /\ GlslIs(b, a)
    BY LookingFacts DEF GlslIs
  <2> HIDE DEF b
  <2> QED
    BY <2>1, GlslSet
<1> HIDE DEF b
<1>3. FlagsMeant(words, n, b)
  <2>1. /\ n \in Nat /\ n >= 1 /\ FlagsMeant(words, n - 1, a)
        /\ b.options.generate_reflection_file =
             IF words[n].kind \in {"reflect", "binary"} THEN TRUE
             ELSE a.options.generate_reflection_file
        /\ b.options.use_binary_reflection =
             IF words[n].kind \in {"binary"} THEN TRUE ELSE a.options.use_binary_reflection
        /\ b.options.keep_intermediate =
             IF words[n].kind \in {"glsl"} THEN TRUE ELSE a.options.keep_intermediate
    BY <1>2, LookingFacts
  <2> QED
    BY <2>1, FlagsOneMore
<1> QED
  BY <1>1, <1>2, <1>3, MeantSwitch

LEMMA MeantBinary ==
  ASSUME NEW words, NEW n, NEW a, Looking(words, n, a), words[n].kind = "binary"
  PROVE  Meant(words, n, WordTaken(a, words, n))
<1> DEFINE c == [a EXCEPT !.options.generate_reflection_file = TRUE]
           b == [c EXCEPT !.options.use_binary_reflection = TRUE]
<1>1. WordTaken(a, words, n) = b
  BY DEF WordTaken, Looking, IsFlag
<1>2. /\ IsArgs(c) /\ c.help = a.help /\ c.input_files = a.input_files /\ c.skip = a.skip
      /\ c.options.generate_reflection_file = TRUE
      /\ c.options.keep_intermediate = a.options.keep_intermediate
      /\ c.options.limits = a.options.limits
  <2>1. IsArgs(a) /\ ReflectionIs(c, a)
    BY LookingFacts DEF ReflectionIs
  <2> HIDE DEF c
  <2> QED
    BY <2>1, ReflectionSet
<1> HIDE DEF c
<1>3. /\ IsArgs(b) /\ b.help = a.help /\ b.input_files = a.input_files /\ b.skip = a.skip
      /\ b.options.generate_reflection_file = TRUE
      /\ b.options.use_binary_reflection = TRUE
      /\ b.options.keep_intermediate = a.options.keep_intermediate
      /\ b.options.limits = a.options.limits
  <2>1. BinaryIs(b, c)
    BY DEF BinaryIs
  <2> HIDE DEF b
  <2>2. /\ IsArgs(b) /\ b.help = c.help /\ b.input_files = c.input_files /\ b.skip = c.skip
        /\ b.options.generate_reflection_file = c.options.generate_reflection_file
        /\ b.options.use_binary_reflection = TRUE
        /\ b.options.keep_intermediate = c.options.keep_intermediate
        /\ b.options.limits = c.options.limits
    BY <1>2, <2>1, BinarySet
  <2> QED
    BY <1>2, <2>2
<1> HIDE DEF b
<1>4. FlagsMeant(words, n, b)
  <2>1. /\ n \in Nat /\ n >= 1 /\ FlagsMeant(words, n - 1, a)
        /\ b.options.generate_reflection_file =
             IF words[n].kind \in {"reflect", "binary"} THEN TRUE
             ELSE a.options.generate_reflection_file
        /\ b.options.use_binary_reflection =
             IF words[n].kind \in {"binary"} THEN TRUE ELSE a.options.use_binary_reflection
        /\ b.options.keep_intermediate =
             IF words[n].kind \in {"glsl"} THEN TRUE ELSE a.options.keep_intermediate
    BY <1>3, LookingFacts
  <2> QED
    BY <2>1, FlagsOneMore
<1> QED
  BY <1>1, <1>3, <1>4, MeantSwitch

LEMMA MeantOther ==
  ASSUME NEW words, NEW n, NEW a, Looking(words, n, a),
         words[n].kind \in {"negative", "other"}
  PROVE  Meant(words, n, WordTaken(a, words, n))
<1>1. WordTaken(a, words, n) = a
  BY DEF WordTaken, Looking, IsFlag
<1>2. ~ IsInput(words, n)
  BY DEF IsInput, IsFlag
<1>3. FlagsMeant(words, n, a) /\ LimitsMeant(words, n, a) /\ FilesMeant(words, n, a)
  BY <1>2, LookingFacts, FlagsAside, LimitsAside, FilesAside
<1>4. HelpMeant(words, n, a)
  BY HelpStays DEF Looking
<1>5. a.skip = Skips(words, n)
  BY LookingFacts, NothingToSkip
<1> QED
  BY <1>1, <1>3, <1>4, <1>5, LookingFacts DEF Meant

\* What a limit flag makes of the limits.
LimitsAfter(words, n, l) ==
  IF HasValue(words, n) /\ words[n].type \in DOMAIN l
  THEN [l EXCEPT ![words[n].type] = words[n + 1].value]
  ELSE l

LEMMA LimitsAfterMeant ==
  ASSUME NEW words, NEW n \in Nat, n >= 1, IsWord(words[n]), words[n].kind = "limit",
         NEW a, LimitsMeant(words, n - 1, a), DOMAIN a.options.limits = DOMAIN DefaultLimits,
         NEW b, b.options.limits = LimitsAfter(words, n, a.options.limits)
  PROVE  LimitsMeant(words, n, b)
<1> DEFINE l == a.options.limits
           m == b.options.limits
<1>1. words[n] = LimitFlag(words[n].type)
  BY DEF IsWord
<1> SUFFICES ASSUME NEW type \in DOMAIN DefaultLimits
             PROVE  m[type] = LimitAmong(words, n, type)
  BY DEF LimitsMeant
<1>2. l[type] = LimitAmong(words, n - 1, type)
  BY DEF LimitsMeant
<1>3. LimitAmong(words, n, type) =
        IF GivesLimit(words, n, type) THEN words[n + 1].value
        ELSE LimitAmong(words, n - 1, type)
  BY LimitOneMore
<1>4. m = LimitsAfter(words, n, l) /\ type \in DOMAIN l
  OBVIOUS
<1> HIDE DEF l, m
<1>5. CASE GivesLimit(words, n, type)
  <2>1. words[n].type = type /\ HasValue(words, n)
    BY <1>5 DEF GivesLimit, LimitFlag
  <2>2. m = [l EXCEPT ![type] = words[n + 1].value]
    BY <1>4, <2>1 DEF LimitsAfter
  <2> QED
    BY <1>3, <1>4, <1>5, <2>2
<1>6. CASE ~ GivesLimit(words, n, type)
  <2>1. words[n].type # type \/ ~ HasValue(words, n)
    BY <1>1, <1>6 DEF GivesLimit
  <2>2. m[type] = l[type]
    BY <1>4, <2>1 DEF LimitsAfter
  <2> QED
    BY <1>2, <1>3, <1>6, <2>2
<1> QED
  BY <1>5, <1>6

LEMMA MeantLimit ==
  ASSUME NEW words, NEW n, NEW a, Looking(words, n, a), words[n].kind = "limit"
  PROVE  Meant(words, n, WordTaken(a, words, n))
<1> DEFINE t == TakesNext(words, n)
           l == LimitsAfter(words, n, a.options.limits)
           c == [a EXCEPT !.skip = t]
           b == [c EXCEPT !.options.limits = l]
<1>0. IsArgs(a) /\ DOMAIN a.options.limits = DOMAIN DefaultLimits
  BY LookingFacts DEF IsArgs
<1>1. WordTaken(a, words, n) = b
  <2>1. WordTaken(a, words, n) = LimitTaken(a, words, n)
    BY DEF WordTaken, Looking, IsFlag
  <2>2. [c EXCEPT !.options.limits = LimitsAfter(words, n, c.options.limits)]
          = LimitTaken(a, words, n)
    BY DEF LimitTaken, LimitsAfter
  <2>3. c.options.limits = a.options.limits
    <3>1. c = [a EXCEPT !.skip = t]
      OBVIOUS
    <3> HIDE DEF c, t
    <3> QED
      BY <1>0, <3>1, SkipSet
  <2> QED
    BY <2>1, <2>2, <2>3
<1>2. /\ IsArgs(c) /\ c.skip = t /\ c.help = a.help /\ c.input_files = a.input_files
      /\ c.options = a.options
  <2>1. c = [a EXCEPT !.skip = t]
    OBVIOUS
  <2> HIDE DEF c, t
  <2> QED
    BY <1>0, <2>1, SkipSet
<1> HIDE DEF c
<1>3. DOMAIN l = DOMAIN DefaultLimits
  BY <1>0 DEF LimitsAfter
<1>4. LimitsIs(b, c, l)
  BY DEF LimitsIs
<1> HIDE DEF l, b
<1>5. /\ IsArgs(b) /\ b.skip = t /\ b.help = a.help /\ b.input_files = a.input_files
      /\ b.options.generate_reflection_file = a.options.generate_reflection_file
      /\ b.options.use_binary_reflection = a.options.use_binary_reflection
      /\ b.options.keep_intermediate = a.options.keep_intermediate
      /\ b.options.limits = l
  <2>1. /\ IsArgs(b) /\ b.options.limits = l
        /\ b.help = c.help /\ b.input_files = c.input_files /\ b.skip = c.skip
        /\ b.options.generate_reflection_file = c.options.generate_reflection_file
        /\ b.options.use_binary_reflection = c.options.use_binary_reflection
        /\ b.options.keep_intermediate = c.options.keep_intermediate
    BY <1>2, <1>3, <1>4, LimitsSet
  <2> QED
    BY <1>2, <2>1
<1>6. ~ IsInput(words, n)
  BY DEF IsInput, IsFlag
<1>7. FlagsMeant(words, n, b)
  BY <1>5, LookingFacts, FlagsAside
<1>8. FilesMeant(words, n, b)
  BY <1>5, <1>6, LookingFacts, FilesAside
<1>9. LimitsMeant(words, n, b)
  BY <1>0, <1>5, LookingFacts, LimitsAfterMeant DEF l
<1>10. HelpMeant(words, n, b)
  BY <1>5, HelpStays DEF Looking
<1>11. b.skip = Skips(words, n)
  <2>1. t \in BOOLEAN /\ Skips(words, n) \in BOOLEAN
    BY DEF TakesNext, Skips
  <2>2. t <=> Skips(words, n)
    BY LookingFacts DEF Skips
  <2> QED
    BY <1>5, <2>1, <2>2
<1> QED
  BY <1>1, <1>5, <1>7, <1>8, <1>9, <1>10, <1>11 DEF Meant

LEMMA MeantOneMore ==
  ASSUME NEW words, NEW n, NEW a, TakingWord(words, n, a)
  PROVE  Meant(words, n, WordTaken(a, words, n))
<1>1. CASE a.help
  BY <1>1, MeantAfterHelp
<1>2. CASE ~ a.help /\ a.skip
  BY <1>2, MeantSkipped
<1>3. CASE ~ a.help /\ ~ a.skip
  <2>1. Looking(words, n, a)
    BY <1>3 DEF Looking
  <2>2. words[n].kind \in {"help", "reflect", "binary", "glsl", "limit", "negative", "other",
                           "name", "number"}
    BY <2>1, LookingFacts DEF IsWord
  <2>3. words[n].kind \in {"name", "number"} => ~ IsFlag(words[n])
    BY DEF IsFlag
  <2> QED
    BY <2>1, <2>2, <2>3, MeantFile, MeantHelp, MeantReflect, MeantBinary, MeantGlsl,
       MeantLimit, MeantOther
<1> QED
  BY <1>1, <1>2, <1>3

LEMMA NoWordsMeant == ASSUME NEW words PROVE Meant(words, 0, NoArgs)
<1>0. \A i \in 1 .. 0 : FALSE
  OBVIOUS
<1>1. /\ NoArgs.help = FALSE /\ NoArgs.input_files = <<>> /\ NoArgs.skip = FALSE
      /\ NoArgs.options.generate_reflection_file = FALSE
      /\ NoArgs.options.use_binary_reflection = FALSE
      /\ NoArgs.options.keep_intermediate = FALSE /\ NoArgs.options.limits = DefaultLimits
  BY DEF NoArgs
<1>2. IsArgs(NoArgs)
  <2>1. NoArgs = MakeArgs(FALSE, <<>>, FALSE, FALSE, FALSE, FALSE, DefaultLimits)
    BY DEF NoArgs, MakeArgs
  <2>2. IsASequence(<<>>)
    BY EmptySeq DEF IsASequence
  <2> QED
    BY <2>1, <2>2, MakeArgsIs
<1> HIDE DEF NoArgs
<1>3. \A kinds : AmongFirst(words, 0, kinds) = FALSE
  BY <1>0 DEF AmongFirst
<1>4. FlagsMeant(words, 0, NoArgs) /\ HelpMeant(words, 0, NoArgs)
  BY <1>1, <1>3 DEF FlagsMeant, HelpMeant
<1>5. FilesMeant(words, 0, NoArgs)
  <2>1. FilesAmong(words, 0) = {}
    BY <1>0 DEF FilesAmong
  <2>2. ToSet(NoArgs.input_files) = {}
    BY <1>1 DEF ToSet
  <2> QED
    BY <2>1, <2>2 DEF FilesMeant
<1>6. LimitsMeant(words, 0, NoArgs)
  <2>1. \A type : Givers(words, 0, type) = {}
    BY <1>0 DEF Givers
  <2> QED
    BY <1>1, <2>1 DEF LimitsMeant, LimitAmong
<1>7. NoArgs.skip = Skips(words, 0)
  <2>1. ~ 0 >= 1
    OBVIOUS
  <2>2. Skips(words, 0) = FALSE
    BY <2>1, Zenon DEF Skips
  <2> QED
    BY <1>1, <2>2
<1> QED
  BY <1>2, <1>4, <1>5, <1>6, <1>7 DEF Meant

-----------------------------------------------------------------------------
(* The whole line: what is made of the words, one after the other.         *)

IsParse(f, words, n) ==
  /\ f = [i \in 0 .. n |-> f[i]]
  /\ f[0] = NoArgs
  /\ \A i \in 1 .. n : f[i] = WordTaken(f[i - 1], words, i)

LEMMA ParsesExist == ASSUME NEW words, NEW N \in Nat PROVE \E f : IsParse(f, words, N)
<1> DEFINE bad == {n \in 0 .. N : ~ \E f : IsParse(f, words, n)}
<1> SUFFICES ASSUME bad # {} PROVE FALSE
  OBVIOUS
<1>1. bad \subseteq Nat
  OBVIOUS
<1>2. PICK m \in bad : \A y \in bad : m <= y
  BY <1>1, LeastElement
<1>3. m \in 0 .. N /\ ~ \E f : IsParse(f, words, m)
  OBVIOUS
<1>4. m # 0
  <2>1. IsParse([k \in 0 .. 0 |-> NoArgs], words, 0)
    BY DEF IsParse
  <2> QED
    BY <2>1, <1>3
<1>5. m - 1 \in 0 .. N /\ ~ m <= m - 1
  BY <1>3, <1>4
<1>6. PICK f : IsParse(f, words, m - 1)
  BY <1>2, <1>5
<1> HIDE DEF bad
<1> DEFINE g == [k \in 0 .. m |-> IF k = m THEN WordTaken(f[m - 1], words, m) ELSE f[k]]
<1>7. IsParse(g, words, m)
  <2>1. g[0] = NoArgs
    BY <1>3, <1>4, <1>6 DEF IsParse
  <2>2. g[m] = WordTaken(g[m - 1], words, m)
    BY <1>3, <1>4
  <2>3. ASSUME NEW i \in 1 .. m - 1 PROVE g[i] = WordTaken(g[i - 1], words, i)
    <3>1. i \in 0 .. m /\ i # m /\ i - 1 \in 0 .. m /\ i - 1 # m
      BY <1>3
    <3>2. f[i] = WordTaken(f[i - 1], words, i)
      BY <1>6 DEF IsParse
    <3> QED
      BY <3>1, <3>2
  <2>4. \A i \in 1 .. m : i = m \/ i \in 1 .. m - 1
    BY <1>3
  <2>5. g = [k \in 0 .. m |-> g[k]]
    OBVIOUS
  <2> HIDE DEF g
  <2> QED
    BY <2>1, <2>2, <2>3, <2>4, <2>5 DEF IsParse
<1> QED
  BY <1>3, <1>7

LEMMA ParseArgsIs ==
  ASSUME NEW words, Len(words) \in Nat
  PROVE  \E f : IsParse(f, words, Len(words)) /\ ParseArgs(words) = f[Len(words)]
<1> DEFINE n == Len(words)
           Recursive(f) == f = [i \in 0 .. n |-> IF i = 0 THEN NoArgs
                                                 ELSE WordTaken(f[i - 1], words, i)]
           parsed == CHOOSE f : Recursive(f)
<1>1. ParseArgs(words) = parsed[n]
  BY DEF ParseArgs
<1>2. PICK f : IsParse(f, words, n)
  BY ParsesExist
<1>3. Recursive(f)
  <2>1. f[0] = NoArgs /\ \A i \in 1 .. n : f[i] = WordTaken(f[i - 1], words, i)
    BY <1>2 DEF IsParse
  <2>2. \A i \in 0 .. n : i = 0 \/ i \in 1 .. n
    OBVIOUS
  <2>3. \A i \in 0 .. n : f[i] = IF i = 0 THEN NoArgs ELSE WordTaken(f[i - 1], words, i)
    BY <2>1, <2>2
  <2>4. f = [i \in 0 .. n |-> f[i]]
    BY <1>2 DEF IsParse
  <2> QED
    BY <2>3, <2>4
<1>4. Recursive(parsed)
  BY <1>3
<1> HIDE DEF parsed
<1>5. IsParse(parsed, words, n)
  <2>1. parsed = [i \in 0 .. n |-> parsed[i]]
    BY <1>4
  <2>2. \A i \in 0 .. n : parsed[i] = IF i = 0 THEN NoArgs ELSE WordTaken(parsed[i - 1], words, i)
    BY <1>4
  <2>3. 0 \in 0 .. n /\ \A i \in 1 .. n : i \in 0 .. n /\ i # 0
    OBVIOUS
  <2> QED
    BY <2>1, <2>2, <2>3 DEF IsParse
<1> QED
  BY <1>1, <1>5

LEMMA ParseIsMeant ==
  ASSUME NEW words, IsCommandLine(words) PROVE Meant(words, Len(words), ParseArgs(words))
<1>0. Len(words) \in Nat
  BY DEF IsCommandLine
<1>1. PICK f : IsParse(f, words, Len(words)) /\ ParseArgs(words) = f[Len(words)]
  BY <1>0, ParseArgsIs
<1> DEFINE bad == {n \in 0 .. Len(words) : ~ Meant(words, n, f[n])}
<1>2. bad = {}
  <2> SUFFICES ASSUME bad # {} PROVE FALSE
    OBVIOUS
  <2>1. bad \subseteq Nat
    OBVIOUS
  <2>2. PICK m \in bad : \A y \in bad : m <= y
    BY <2>1, LeastElement
  <2>3. m \in 0 .. Len(words) /\ ~ Meant(words, m, f[m])
    OBVIOUS
  <2>4. m # 0
    BY <1>1, <2>3, NoWordsMeant DEF IsParse
  <2>5. m \in 1 .. Len(words) /\ m - 1 \in 0 .. Len(words) /\ ~ m <= m - 1
    BY <1>0, <2>3, <2>4
  <2>6. Meant(words, m - 1, f[m - 1])
    BY <2>2, <2>5
  <2>7. f[m] = WordTaken(f[m - 1], words, m)
    BY <1>1, <2>5 DEF IsParse
  <2>8. TakingWord(words, m, f[m - 1])
    BY <2>5, <2>6 DEF TakingWord
  <2> QED
    BY <2>3, <2>7, <2>8, MeantOneMore
<1>3. Len(words) \in 0 .. Len(words)
  BY <1>0
<1> QED
  BY <1>1, <1>2, <1>3

LEMMA MeantOfTheLine ==
  ASSUME NEW words, IsCommandLine(words), NEW a, Meant(words, Len(words), a)
  PROVE  ParsesAsMeant(words, a)
<1>1. DOMAIN words = 1 .. Len(words)
  BY DEF IsCommandLine
<1>2. \A kinds : AmongFirst(words, Len(words), kinds) = Among(words, kinds)
  BY <1>1 DEF AmongFirst, Among
<1>3. FilesAmong(words, Len(words)) = InputFilesMeant(words)
  BY <1>1 DEF FilesAmong, InputFilesMeant, IsInput
<1>4. ASSUME NEW type PROVE LimitAmong(words, Len(words), type) = LimitMeant(words, type)
  <2>1. Givers(words, Len(words), type) =
          {i \in DOMAIN words : words[i] = LimitFlag(type) /\ HasValue(words, i)}
    BY <1>1 DEF Givers, GivesLimit
  <2> QED
    BY <2>1 DEF LimitAmong, LimitMeant
<1>5. HelpMeant(words, Len(words), a)
  BY DEF Meant
<1>6. a.help = Among(words, {"help"})
  BY <1>2, <1>5 DEF HelpMeant
<1>7. ASSUME ~ a.help
      PROVE  /\ ToSet(a.input_files) = InputFilesMeant(words)
             /\ a.options.generate_reflection_file = Among(words, {"reflect", "binary"})
             /\ a.options.use_binary_reflection = Among(words, {"binary"})
             /\ a.options.keep_intermediate = Among(words, {"glsl"})
             /\ \A type \in DOMAIN DefaultLimits :
                  a.options.limits[type] = LimitMeant(words, type)
  <2>1. FlagsMeant(words, Len(words), a) /\ FilesMeant(words, Len(words), a)
        /\ LimitsMeant(words, Len(words), a)
    BY <1>7 DEF Meant
  <2>2. ToSet(a.input_files) = InputFilesMeant(words)
    BY <1>3, <2>1 DEF FilesMeant
  <2>3. /\ a.options.generate_reflection_file = Among(words, {"reflect", "binary"})
        /\ a.options.use_binary_reflection = Among(words, {"binary"})
        /\ a.options.keep_intermediate = Among(words, {"glsl"})
    BY <1>2, <2>1 DEF FlagsMeant
  <2>4. \A type \in DOMAIN DefaultLimits : a.options.limits[type] = LimitMeant(words, type)
    BY <1>4, <2>1 DEF LimitsMeant
  <2> QED
    BY <2>2, <2>3, <2>4
<1> QED
  BY <1>6, <1>7 DEF ParsesAsMeant

\* The processes keep what they made of their command lines.
Parsed == \A c \in Compilers : argv[c] \in CommandLines[c] /\ args[c] = ParseArgs(argv[c])

\* On every command line, of any length: each word has the meaning it has on
\* its own.  A flag counts wherever it stands, the last good value of a limit
\* counts, and neither a limit without one nor its value becomes a file.
THEOREM WordsMeanWhatTheySay == ToolSpec => []ArgumentsTakenAsMeant
<1>1. ToolInit => Parsed
  BY DEF ToolInit, Parsed
<1>2. Parsed /\ [ToolNext]_toolvars => Parsed'
  <2>1. [ToolNext]_toolvars => UNCHANGED <<argv, args>>
    BY DEF ToolNext, Process, CompileNext, Compiling, Report, AllEnded, toolvars
  <2> QED
    BY <2>1 DEF Parsed
<1>3. Parsed => ArgumentsTakenAsMeant
  <2> SUFFICES ASSUME Parsed, NEW c \in Compilers PROVE ParsesAsMeant(argv[c], args[c])
    BY DEF ArgumentsTakenAsMeant
  <2>1. argv[c] \in CommandLines[c] /\ args[c] = ParseArgs(argv[c])
    BY DEF Parsed
  <2>2. IsCommandLine(argv[c])
    BY <2>1, ToolAssumption
  <2>3. Meant(argv[c], Len(argv[c]), args[c])
    BY <2>1, <2>2, ParseIsMeant
  <2> QED
    BY <2>2, <2>3, MeantOfTheLine
<1> QED
  BY <1>1, <1>2, <1>3, PTL DEF ToolSpec
=============================================================================
