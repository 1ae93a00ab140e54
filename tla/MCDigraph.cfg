SPECIFICATION FairSpec
CONSTANTS
  x1 = x1
  x2 = x2
  x3 = x3
  x4 = x4
  Node <- MCNode
  Value <- MCNode
  Relations <- MCRelations
  Bases <- MCBases
  Infinity <- MCInfinity
INVARIANTS
  Sound
  LooplessExact
  PairsExact
PROPERTIES
  Termination
