CONSTANTS
  a1 = a1
  a2 = a2
  NoPool = NoPool
  Alarms = {a1, a2}
  Texts <- MCTexts
  Fold <- MCFold
  Contains <- MCContains
  Reasons <- MCReasons
  AlarmStates <- MCAlarmStates
  FilterSettings <- MCAllFlags
SPECIFICATION Spec
INVARIANTS
  TypeOK
  MarksExplained
  ReportAccountsForAlarms
  OKMeansNothingLeft
PROPERTIES
  ExplicitExclusionIsPermanent
  InclusionLostOnlyToExclusion
  ImplementsVerdict
\* The plugin stops after its verdict.
CHECK_DEADLOCK FALSE
