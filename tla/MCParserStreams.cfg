SPECIFICATION FairBoth
CONSTANTS
  Symbol <- MCSymbol
  NoSymbol <- MCNoSymbol
  MidruleName <- MCMidruleName
  Tables <- MCTables
  Perform <- MCPerform
  Tokenizers <- MCTokenizers
  Texts <- MCTexts
  DefaultState <- DefaultName
  WordCharacters <- MCWordCharacters
  Nul <- MCNul
  Matches <- HasMatch
  MatchLength <- MatchSize
  NoMatch = "<no match>"
  Thrown = "<thrown>"
  NoValue <- MCNoValue
  MaxStreams = 0
  MaxTokens = 9
  Throwing <- MCThrowing
INVARIANTS
  ReturnsAtEnd
PROPERTIES
  ParsesText
  ParseEnds
CHECK_DEADLOCK FALSE
