SPECIFICATION Spec
CONSTANTS
  Symbol <- MCSymbol
  Tokenizers <- TieTokenizers
  Texts <- MCTexts
  WordCharacters <- MCWordCharacters
  DefaultState <- DefaultName
  Nul <- MCNul
  NoMatch = "<no match>"
  Thrown = "<thrown>"
  NoValue <- MCNoValue
  Matches <- HasMatch
  MatchLength <- MatchSize
  MaxStreams = 2
  EndMark = "end of stream"
  Wall = "wall"
INVARIANT LongestThenFirst
CHECK_DEADLOCK FALSE
