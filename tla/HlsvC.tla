-------------------------------- MODULE HlsvC --------------------------------
(***************************************************************************)
(* The command line tool: main() takes its command line, compiles the      *)
(* input files in order, all with one Compiler, and prints one report for  *)
(* each.  Every process of the tool is one of the compilers of Compiler.   *)
(***************************************************************************)
EXTENDS Compiler, Args, Integers

CONSTANT CommandLines   \* CommandLines[c]: what the process may be started with

OptionsOf(a) == [generate_reflection_file |-> a.options.generate_reflection_file,
                 keep_intermediate        |-> a.options.keep_intermediate]

\* A command line is made of words, and the compiler of a process is asked for
\* what its command lines ask for.
ASSUME ToolAssumption ==
  \A c \in Compilers : \A words \in CommandLines[c] :
    /\ IsCommandLine(words)
    /\ ParseArgs(words).input_files \in Seq(Inputs[c])
    /\ OptionsOf(ParseArgs(words)) \in Options

VARIABLES
  argv,      \* the words of each command line
  args,      \* what Args::Parse makes of them
  next,      \* how many input files the loop has taken
  reports    \* what was printed for each of them

toolvars == <<vars, argv, args, next, reports>>

\* Parsing touches nothing another process could see: it is part of the start.
ToolInit ==
  /\ Init
  /\ argv \in {line \in [Compilers -> UNION {CommandLines[c] : c \in Compilers}] :
                 \A c \in Compilers : line[c] \in CommandLines[c]}
  /\ args = [c \in Compilers |-> ParseArgs(argv[c])]
  /\ next = [c \in Compilers |-> 0]
  /\ reports = [c \in Compilers |-> <<>>]

\* What main() goes through: with a help flag it only prints the help text.
InputFiles(c)  == IF args[c].help THEN <<>> ELSE args[c].input_files
ToolOptions(c) == OptionsOf(args[c])

Running(c)  == result[c] # "threw"
Reported(c) == Len(reports[c]) = next[c]

CompileNext(c) ==
  /\ Reported(c) /\ next[c] < Len(InputFiles(c))
  /\ Begin(c, InputFiles(c)[next[c] + 1], ToolOptions(c))
  /\ next' = [next EXCEPT ![c] = @ + 1]
  /\ UNCHANGED <<argv, args, reports>>

Compiling(c) == Step(c) /\ UNCHANGED <<argv, args, next, reports>>

\* A report names the shader of the reflection info it prints, or the error.
ReportLine(c) ==
  IF result[c] = "true" THEN [ok |-> TRUE, about |-> reflect[c], error |-> "none"]
  ELSE [ok |-> FALSE, about |-> NoShader, error |-> last_error[c]]

\* Faulty variant for the mutation runs: a file that fails is tried again.
ReportOrRetry(c) ==
  /\ At(c, "idle") /\ Running(c) /\ ~ Reported(c)
  /\ IF result[c] = "true"
     THEN reports' = [reports EXCEPT ![c] = Append(@, ReportLine(c))] /\ UNCHANGED next
     ELSE next' = [next EXCEPT ![c] = @ - 1] /\ UNCHANGED reports
  /\ UNCHANGED <<vars, argv, args>>

Report(c) ==
  /\ At(c, "idle") /\ Running(c) /\ ~ Reported(c)
  /\ reports' = [reports EXCEPT ![c] = Append(@, ReportLine(c))]
  /\ UNCHANGED <<vars, argv, args, next>>

\* The end of main(), or of the process when an exception leaves main().
Ended(c) == At(c, "idle") /\ (~ Running(c) \/ (Reported(c) /\ next[c] = Len(InputFiles(c))))

Process(c) == CompileNext(c) \/ Compiling(c) \/ Report(c)
AllEnded   == (\A c \in Compilers : Ended(c)) /\ UNCHANGED toolvars

ToolNext == (\E c \in Compilers : Process(c)) \/ AllEnded

\* A running process is scheduled again and again.
ToolSpec ==
  ToolInit /\ [][ToolNext]_toolvars /\ \A c \in Compilers : WF_toolvars(Process(c))
-----------------------------------------------------------------------------
ErrorSource(err) ==
  CASE err = "none"     -> "ES_NONE"
    [] err = "parser"   -> "ES_PARSER"
    [] err = "compiler" -> "ES_COMPILER"
    [] OTHER            -> "ES_FILEIO"

\* The input files that no output is ever written to.
Unwritten(f) == \A c \in Compilers : \A g \in Inputs[c] : f \notin OutputsOf(g)

ReportIsTrue(r, f) ==
  /\ ~ r.ok => ErrorSource(r.error) # "ES_NONE"
  /\ Unwritten(f) =>
       /\ r.ok => IsShaderIn(InitialFiles[f], Compiles) /\ r.about = InitialFiles[f].of
       /\ ErrorSource(r.error) \in {"ES_PARSER", "ES_COMPILER"} =>
            ~ IsShaderIn(InitialFiles[f], Compiles)

\* Reports are about the files in whose place they appear, although one
\* Compiler serves all of them: success names that file's shader, which is
\* accepted, an error in the text is of a text that has it, and every
\* failure has an error to print.
ReportsAreTrue ==
  \A c \in Compilers : \A i \in DOMAIN reports[c] : ReportIsTrue(reports[c][i], InputFiles(c)[i])

\* Every word has the meaning it has on its own: a flag counts wherever it
\* stands, even after the value of a limit that is out of range or of no
\* known type, and no such value is taken for a file.
ArgumentsTakenAsMeant == \A c \in Compilers : ParsesAsMeant(argv[c], args[c])

\* Each process comes to report on every one of its files, or an exception
\* ends it: a file that fails never keeps the others from being compiled.
EveryFileReported ==
  \A c \in Compilers : <>(result[c] = "threw" \/ Len(reports[c]) = Len(InputFiles(c)))
=============================================================================
