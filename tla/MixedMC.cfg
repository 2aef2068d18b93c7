SPECIFICATION Spec
CONSTANTS
  n1 = n1
  n2 = n2
  n3 = n3
  n4 = n4
  refused = refused
  nobody = nobody
  Names <- WithBadName
  BadNames <- JustBad
  Decls <- MixedDecls
  Literals <- MixedLiterals
  Inits <- MixedInits
  Versions <- MixedVersions
  Kinds <- MixedKinds
  Limits <- SmallLimits
  NoName = nobody
SYMMETRY Symmetry
INVARIANTS
  PushLayoutSound
  DeclaredBeforeUse
  SymbolsReflected
  EmissionMatchesReflection
  ReflectionSorted
  BinaryReadsBack
