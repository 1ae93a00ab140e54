SPECIFICATION LkSpec
CONSTANTS
  Symbol <- MCSymbol
  Grammars <- OnlyNullableTwice
  Node <- MCNode
  Infinity = 1000
  NoSymbol <- MCNoSymbol
  MidruleName <- MCMidruleName
INVARIANTS
  IncludesAsDefined
