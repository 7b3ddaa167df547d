CONSTANTS
  v1 = v1
  v2 = v2
  VMs = {v1, v2}
  Snaps = {s1, s2, s3}
  Disks = {d1, d2}
  Attached = {d1}
  NoSnap = NoSnap
  MaxOps <- MCMaxOps
  MaxNow = 2
  Rank <- MCRank
  SizeOf <- MCSizeOf
  GB = 2
  AgeWarning = 0
  AgeCritical = 1
  CountWarning = 1
  CountCritical = 2
  SizeWarning = 1
  SizeCritical = 2
SYMMETRY Symmetry
SPECIFICATION Spec
INVARIANTS
  TypeOK
  GrowthCountedOnce
  VerdictMatchesSnapshots
  ReportAccountsForSnapshots
\* The plugin stops after its report.
CHECK_DEADLOCK FALSE
