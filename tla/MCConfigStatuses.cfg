CONSTANTS
  Plugins <- MCAlarmsOnly
  CommandLines <- MCCommandLines
  LogLevels <- MCLogLevels
  Lower <- MCLower
SPECIFICATION Spec
INVARIANTS
  StatusesAreVSphereStatuses
\* config.New returns once.
CHECK_DEADLOCK FALSE
