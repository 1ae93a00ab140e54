SPECIFICATION LkSpec
CONSTANTS
  Symbol <- MCSymbol
  Grammars <- OnlyLoopOfIncludes
  Node <- MCNode
  Infinity = 1000
  NoSymbol <- MCNoSymbol
  MidruleName <- MCMidruleName
INVARIANTS
  LookaheadsAreLALR
