SPECIFICATION Spec
CONSTANTS
  Symbol <- MCSymbol
  Automata <- MCAutomata
  NoSymbol <- MCNoSymbol
  MidruleName <- MCMidruleName
INVARIANTS
  NothingInTheWay
  EntriesJustified
  ShiftsKept
  NothingLostInSilence
  ReportedConflictsExist
  TableAsResolved
