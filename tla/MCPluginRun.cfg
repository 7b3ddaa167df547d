CONSTANTS
  Plugins <- MCPlugins
  MaxRounds = 2
SPECIFICATION FairSpec
INVARIANTS
  TypeOK
  NoVerdictOnPartialData
  SummaryIsPrinted
  ServerCleanedUp
  OneViewAtATime
PROPERTIES
  Terminates
  LateIsAnError
\* The process exits.
CHECK_DEADLOCK FALSE
