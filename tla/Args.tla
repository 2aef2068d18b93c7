-------------------------------- MODULE Args --------------------------------
(***************************************************************************)
(* Args::Parse and the integer argument of the --rl- flags: one pass over  *)
(* the words of a command line.                                            *)
(*                                                                         *)
(* A word is known by what the parser can tell of it.  Those that begin    *)
(* with a dash are flags: "help", "reflect", "binary", "glsl", "limit"     *)
(* (with the type it names), "negative" (a dash and digits) and "other".   *)
(* The rest, a "number" or any other "name", may be the name of a file.    *)
(***************************************************************************)
EXTENDS Naturals, Sequences, SequencesExt

CONSTANT UINT32_MAX   \* smaller in an instance for TLC

ASSUME WidthAssumption == UINT32_MAX \in Nat

Flag(kind)          == [kind |-> kind]
LimitFlag(type)     == [kind |-> "limit", type |-> type]
Name(file)          == [kind |-> "name", file |-> file]
Number(value, file) == [kind |-> "number", value |-> value, file |-> file]

IsFlag(w) == w.kind \notin {"name", "number"}

IsWord(w) ==
  \/ w.kind \in {"help", "reflect", "binary", "glsl", "negative", "other"} /\ w = Flag(w.kind)
  \/ w.kind = "limit" /\ w = LimitFlag(w.type)
  \/ w.kind = "name" /\ w = Name(w.file)
  \/ w.kind = "number" /\ w.value \in Nat /\ w = Number(w.value, w.file)

IsCommandLine(words) ==
  /\ Len(words) \in Nat /\ DOMAIN words = 1 .. Len(words)
  /\ \A i \in DOMAIN words : IsWord(words[i])

DefaultLimits == [attr |-> 16, frag |-> 4, local |-> 8, uset |-> 4, ubind |-> 8,
                  ubsize |-> 1024, pcsize |-> 128]

\* Args(), before any word.  skip is set where the next word has been taken
\* for the argument of a flag, which the code does by moving on its index.
NoArgs == [help |-> FALSE, input_files |-> <<>>, skip |-> FALSE,
           options |-> [generate_reflection_file |-> FALSE, use_binary_reflection |-> FALSE,
                        keep_intermediate |-> FALSE, limits |-> DefaultLimits]]

(* parse_integer_arg: whether word i + 1 is the argument of word i, and good. *)
Follows(words, i, kind) == i < Len(words) /\ words[i + 1].kind = kind
TakesNext(words, i) == Follows(words, i, "number") \/ Follows(words, i, "negative")
HasValue(words, i)  == Follows(words, i, "number") /\ words[i + 1].value < UINT32_MAX

\* Faulty variant for the mutation runs: a value that is no good is left to be
\* taken for a file.
TakenIfGood(args, words, i) ==
  LET type == words[i].type IN
  [args EXCEPT !.skip = HasValue(words, i),
               !.options.limits =
                 IF HasValue(words, i) /\ type \in DOMAIN @ THEN [@ EXCEPT ![type] = words[i + 1].value]
                 ELSE @]

LimitTaken(args, words, i) ==
  LET type == words[i].type IN
  [args EXCEPT !.skip = TakesNext(words, i),
               !.options.limits =
                 IF HasValue(words, i) /\ type \in DOMAIN @ THEN [@ EXCEPT ![type] = words[i + 1].value]
                 ELSE @]

\* One turn of the loop; nothing is looked at after a help flag.
WordTaken(args, words, i) ==
  IF args.help THEN args
  ELSE IF args.skip THEN [args EXCEPT !.skip = FALSE]
  ELSE IF ~ IsFlag(words[i]) THEN [args EXCEPT !.input_files = Append(@, words[i].file)]
  ELSE CASE words[i].kind = "help"    -> [args EXCEPT !.help = TRUE]
         [] words[i].kind = "reflect" -> [args EXCEPT !.options.generate_reflection_file = TRUE]
         [] words[i].kind = "binary"  -> [args EXCEPT !.options.generate_reflection_file = TRUE,
                                                      !.options.use_binary_reflection = TRUE]
         [] words[i].kind = "glsl"    -> [args EXCEPT !.options.keep_intermediate = TRUE]
         [] words[i].kind = "limit"   -> LimitTaken(args, words, i)
         [] OTHER                     -> args

ParseArgs(words) ==
  LET parsed[i \in 0 .. Len(words)] ==
        IF i = 0 THEN NoArgs ELSE WordTaken(parsed[i - 1], words, i)
  IN parsed[Len(words)]
-----------------------------------------------------------------------------
(***************************************************************************)
(* What a command line means, word by word: a flag has its effect wherever *)
(* it stands, the last good value of a limit counts, and every word that   *)
(* is neither a flag nor the number after a limit is an input file.        *)
(***************************************************************************)
Among(words, kinds) == \E i \in DOMAIN words : words[i].kind \in kinds

IsArgument(words, i) == i > 1 /\ words[i].kind = "number" /\ words[i - 1].kind = "limit"

InputFilesMeant(words) ==
  {words[i].file : i \in {j \in DOMAIN words : ~ IsFlag(words[j]) /\ ~ IsArgument(words, j)}}

LimitMeant(words, type) ==
  LET given == {i \in DOMAIN words : words[i] = LimitFlag(type) /\ HasValue(words, i)} IN
  IF given = {} THEN DefaultLimits[type]
  ELSE words[(CHOOSE i \in given : \A j \in given : j <= i) + 1].value

ParsesAsMeant(words, args) ==
  /\ args.help = Among(words, {"help"})
  /\ ~ args.help =>
       /\ ToSet(args.input_files) = InputFilesMeant(words)
       /\ args.options.generate_reflection_file = Among(words, {"reflect", "binary"})
       /\ args.options.use_binary_reflection = Among(words, {"binary"})
       /\ args.options.keep_intermediate = Among(words, {"glsl"})
       /\ \A type \in DOMAIN DefaultLimits :
            args.options.limits[type] = LimitMeant(words, type)
=============================================================================
