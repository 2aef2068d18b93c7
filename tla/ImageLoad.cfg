SPECIFICATION Spec
CONSTANTS
  UINT32_MAX = 2047
  Contexts <- ManyContexts
  Variables <- ImageVariables
  Literals <- FewLiterals
  Nodes <- ImageNodes
  MaxNodes = 5
INVARIANT LoadsGiveTexels
