SPECIFICATION Spec
CONSTANTS
  n1 = n1
  n2 = n2
  n3 = n3
  n4 = n4
  refused = refused
  nobody = nobody
  Names <- OneName
  BadNames <- NoBadNames
  Decls <- BigLocals
  Literals <- UniformLiterals
  Inits <- NoInits
  Versions <- JustV100
  Kinds <- LocalKinds
  Limits <- DefaultLimits
  NoName = nobody
INVARIANT
  LocalsWithinBudget
