SPECIFICATION FairSpec
CONSTANTS
  Symbol <- MCSymbol
  Grammars <- MCGrammarSet
  NoSymbol <- MCNoSymbol
  MidruleName <- MCMidruleName
INVARIANTS
  KernelsDistinct
  StatesAreClosures
  EdgesAreGoto
  DoneIsComplete
PROPERTIES
  BuildsCanonicalCollection
  Termination
