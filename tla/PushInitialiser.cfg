SPECIFICATION Spec
CONSTANTS
  n1 = n1
  n2 = n2
  n3 = n3
  n4 = n4
  refused = refused
  nobody = nobody
  Names <- TwoNames
  BadNames <- NoBadNames
  Decls <- IntDecls
  Literals <- UniformLiterals
  Inits <- NameInits
  Versions <- JustV100
  Kinds <- PushKinds
  Limits <- DefaultLimits
  NoName = nobody
INVARIANT
  InitialisersAreCompileTime
