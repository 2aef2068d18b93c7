SPECIFICATION ToolSpec
CONSTANTS
  c1 = c1
  c2 = c2
  good = good
  other = other
  rejected = rejected
  garbled = garbled
  none = none
  Compilers <- ToolProcesses
  Files <- ToolFiles
  Shaders <- ToolShaders
  Parses <- ParsingOnes
  Compiles <- CompilingOnes
  Inputs <- ToolInputs
  Options <- BothOptions
  InitialFiles <- ToolFilesAtStart
  Output <- ToolOutput
  Removable <- ToolFiles
  OutputsMustExist = TRUE
  NoShader = none
  CommandLines <- ToolLines
  UINT32_MAX = 40
INVARIANTS
  TypeOK
  ErrorMatchesResult
  ReflectionFollowsVisit
  OutputsAsRequested
  ReportsAreTrue
  ArgumentsTakenAsMeant
PROPERTIES
  EveryFileReported
