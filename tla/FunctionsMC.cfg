SPECIFICATION Spec
CONSTANTS
  a = a
  b = b
  g = g
  refused = refused
  nobody = nobody
  Names <- Everything
  BadNames <- JustBad
  Decls <- FunctionDecls
  GlobalPool <- FunctionGlobals
  Exprs <- FunctionExprs
  Lvalues <- FunctionLvalues
  AssignOps <- SimpleOps
  Conditions <- LoopConditions
  UpdateLists <- LoopUpdates
  MaxLines = 8
  NoName = nobody
INVARIANTS
  TypeOK
  ScopesAgree
  NoShadowing
  PermittedByStage
  JumpsInLoops
  TextWellNested
