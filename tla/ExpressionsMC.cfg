SPECIFICATION Spec
CONSTANTS
  UINT32_MAX = 2047
  Contexts <- ManyContexts
  Variables <- ManyVariables
  Literals <- ManyLiterals
  Nodes <- ManyNodes
  MaxNodes = 4
INVARIANTS
  TypeOK
  InferTypeMatchesPosition
  ConstantsReadConstants
  LiteralsDenote
  IndexWithinBounds
  NoNeedlessConversion
