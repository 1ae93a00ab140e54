SPECIFICATION FairSpec
CONSTANTS
  Symbol <- MCSymbol
  Tokenizers <- MCTokenizers
  Texts <- MCTexts
  WordCharacters <- MCWordCharacters
  DefaultState <- DefaultName
  Nul <- MCNul
  NoMatch = "<no match>"
  Thrown = "<thrown>"
  NoValue <- MCNoValue
  Matches <- HasMatch
  MatchLength <- MatchSize
  MaxStreams = 2
  EndMark = "end of stream"
  Wall = "wall"
INVARIANTS
  TypeOK
  LongestThenFirst
PROPERTIES
  EndMeansDone
  NextTokenReturns
  ScansText
CHECK_DEADLOCK FALSE
