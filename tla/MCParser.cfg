SPECIFICATION FairSpec
CONSTANTS
  Symbol <- MCSymbol
  NoSymbol <- MCNoSymbol
  MidruleName <- MCMidruleName
  Tables <- MCTables
  Inputs <- MCInputs
  NoMatch <- MCNoMatch
  NoValue <- MCNoValue
  Perform <- MCPerform
  MaxLength <- MCMaxLength
INVARIANTS
  AssertionsHold
  StackIsPath
  ValuesInOrder
  AcceptsSentences
  RefusesNothingElse
  ViableIsExpected
PROPERTIES
  ReverseDerivation
  Termination
