CONSTANTS
  Plugins <- MCPlugins
  CommandLines <- MCCommandLines
  LogLevels <- MCLogLevels
  Lower <- MCLower
SPECIFICATION Spec
INVARIANTS
  TypeOK
  OneHardwareMode
  AcceptedIsConsistent
  StatusKeywordsKept
\* config.New returns once.
CHECK_DEADLOCK FALSE
