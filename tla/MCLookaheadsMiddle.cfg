SPECIFICATION LkSpec
CONSTANTS
  Symbol <- MCSymbol
  Grammars <- OnlyMiddleOfRule
  Node <- MCNode
  Infinity = 1000
  NoSymbol <- MCNoSymbol
  MidruleName <- MCMidruleName
INVARIANTS
  LookaheadsAreLALR
