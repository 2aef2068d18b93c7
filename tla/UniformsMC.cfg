SPECIFICATION Spec
CONSTANTS
  n1 = n1
  n2 = n2
  n3 = n3
  n4 = n4
  refused = refused
  nobody = nobody
  Names <- AllNames
  BadNames <- NoBadNames
  Decls <- UniformDecls
  Literals <- UniformLiterals
  Inits <- NoInits
  Versions <- JustV100
  Kinds <- UniformKinds
  Limits <- SmallLimits
  NoName = nobody
SYMMETRY Symmetry
INVARIANTS
  UniformLocationExclusive
  SubpassIndexesUnique
  BlockLayoutSound
  BlockIndexesConsistent
  ReflectionSorted
  BinaryReadsBack
PROPERTIES
  UniformSpaceSpec
