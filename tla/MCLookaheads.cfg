SPECIFICATION LkSpec
CONSTANTS
  Symbol <- MCSymbol
  Grammars <- MCGrammarSet
  Node <- MCNode
  Infinity = 1000
  NoSymbol <- MCNoSymbol
  MidruleName <- MCMidruleName
INVARIANTS
  IncludesSound
  IncludesComplete
  LookbackExact
  ReadExact
  LookaheadsExact
