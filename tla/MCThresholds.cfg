CONSTANTS
  p1 = p1
  p2 = p2
  p3 = p3
  VMs = {v1, v2}
  Containers = {p1, p2, p3}
  Within <- MCWithin
  Target = p3
  Gone = Gone
  MaxLoad = 3
  Capacities = {0, 4}
  MaxAllowed = 4
  Warning = 50
  Critical = 75
  DaysWarning = 1
  DaysCritical = 2
  MaxChanges = 2
SYMMETRY Symmetry
SPECIFICATION Spec
INVARIANTS
  TypeOK
  QuietVerdictIsExact
  SteadyMachinesCount
\* The plugin stops after its report.
CHECK_DEADLOCK FALSE
