SPECIFICATION Spec
CONSTANTS
  n1 = n1
  n2 = n2
  n3 = n3
  n4 = n4
  refused = refused
  nobody = nobody
  Names <- ThreeNames
  BadNames <- NoBadNames
  Decls <- InterfaceDecls
  Literals <- InterfaceLiterals
  Inits <- NoInits
  Versions <- JustV100
  Kinds <- InterfaceKinds
  Limits <- SmallLimits
  NoName = nobody
SYMMETRY Symmetry
INVARIANTS
  TypeOK
  AttributesDisjoint
  OutputsDistinct
  LocalsPlaced
  ReflectionSorted
PROPERTIES
  AttributeSpaceSpec
  OutputSpaceSpec
