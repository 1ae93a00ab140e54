SPECIFICATION Spec
CONSTANTS
  Symbol <- MCSymbol
  Grammars <- MCGrammarSet
  NoSymbol <- MCNoSymbol
  MidruleName <- MCMidruleName
INVARIANTS
  Sound
  ExactWhenApart
PROPERTIES
  AnswersStand
