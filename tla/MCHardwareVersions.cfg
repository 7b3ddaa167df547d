CONSTANTS
  v1 = v1
  v2 = v2
  c1 = c1
  c2 = c2
  h1 = h1
  None = None
  VMs = {v1, v2}
  Resources = {c1, c2}
  Hosts = {h1}
  Versions = {9, 10, 13, 14}
  Settings <- MCSettings
  MaxChanges = 2
SPECIFICATION Spec
INVARIANTS
  TypeOK
  VerdictReflectsVersions
  SummaryExplainsVerdict
\* The plugin stops after its report.
CHECK_DEADLOCK FALSE
