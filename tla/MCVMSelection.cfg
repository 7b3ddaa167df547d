CONSTANTS
  v1 = v1
  v2 = v2
  p1 = p1
  p2 = p2
  r = r
  VMs = {v1, v2}
  Pools = {r, p1, p2}
  Root = r
  Gone = Gone
  MaxChanges = 1
  Names <- MCNames
  Rank <- MCRank
  VMName <- MCVMName
  Inventories <- MCInventories
  Settings <- MCSettings
SPECIFICATION Spec
INVARIANTS
  TypeOK
  EvaluatedOnce
  QuietRunIsExact
  SteadyVMsEvaluated
  VerdictFollowsTools
\* The plugin stops after its verdict.
CHECK_DEADLOCK FALSE
