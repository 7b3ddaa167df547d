CONSTANTS
  v1 = v1
  v2 = v2
  h1 = h1
  h2 = h2
  d1 = d1
  d2 = d2
  d3 = d3
  NoneSet = NoneSet
  OthersSet = OthersSet
  VMs = {v1, v2}
  Hosts = {h1, h2}
  Datastores = {d1, d2, d3}
  DatastoreName <- MCDatastoreName
  Values <- MCValues
  Fold <- MCFold
  HostPrefix <- MCHostPrefix
  DatastorePrefix <- MCDatastorePrefix
  Retags <- MCRetags
  Inventories <- MCInventories
  Settings <- MCSettings
  MaxChanges = 1
SPECIFICATION Spec
INVARIANTS
  TypeOK
  IssuesAreMismatches
  AlertsHaveCauses
  OKMeansPaired
\* The plugin stops after its verdict.
CHECK_DEADLOCK FALSE
