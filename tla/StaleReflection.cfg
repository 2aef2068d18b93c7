SPECIFICATION Spec
CONSTANTS
  c1 = c1
  good = good
  other = other
  rejected = rejected
  garbled = garbled
  none = none
  Compilers <- OneCompiler
  Files <- CallFiles
  Shaders <- AllShaders
  Parses <- ParsingOnes
  Compiles <- CompilingOnes
  Inputs <- CallInputs
  Options <- AllOptions
  InitialFiles <- CallInitialFiles
  Output <- CallOutput
  Removable <- CallRemovable
  OutputsMustExist = TRUE
  NoShader = none
INVARIANT
  ReflectionOnlyOnSuccess
