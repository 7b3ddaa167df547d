----------------------------- MODULE VMSelection -----------------------------
(***************************************************************************)
(* How the plugins that evaluate virtual machines choose them, with        *)
(* check_vmware_tools as the plugin: ValidateRPs, GetEligibleRPs           *)
(* (internal/vsphere/resource-pools.go), GetVMsFromContainer,              *)
(* ExcludeVMsByName, FilterVMsByPowerState (vms.go), then                  *)
(* FilterVMsWithToolsIssues and GetVMToolsStatusSummary (tools.go).  Each  *)
(* request to vSphere is a step of its own: the inventory may change       *)
(* between two of them.                                                    *)
(***************************************************************************)
EXTENDS Naturals, Sequences, FiniteSets

CONSTANTS VMs, Pools,      \* the managed object references
          Root,            \* the hidden pool above all pools of a host
          Gone,            \* where a destroyed pool or virtual machine is
          Names, Rank,     \* Rank orders names by their lower-case form
          VMName,          \* the names of the virtual machines
          Inventories,     \* the inventories a run may start with
          Settings,        \* the flags of the plugin
          MaxChanges       \* bound on the changes of the inventory during a run

ParentResourcePool == "Resources"

PowerStates == {"poweredOn", "poweredOff", "suspended"}

\* The property is optional: it may be unset.
ToolsStates == {"toolsOk", "toolsOld", "toolsNotRunning", "toolsNotInstalled", "unset"}

Inventory == [pool     : [VMs -> Pools \cup {Gone}],
              parent   : [Pools -> Pools \cup {Gone}],
              poolName : [Pools -> Names],
              power    : [VMs -> PowerStates],
              tools    : [VMs -> ToolsStates]]

Flags == [include : SUBSET Names, exclude : SUBSET Names, ignored : SUBSET Names,
          poweredOff : BOOLEAN]

\* The root pool is its own parent here and keeps its name; what exists is in a pool
\* that exists.  Config.validate rejects an include list together with an exclude list.
ASSUME SelectionAssumption ==
  /\ IsFiniteSet(VMs) /\ IsFiniteSet(Pools)
  /\ Root \in Pools /\ Gone \notin Pools
  /\ Rank \in [Names -> Nat] /\ ParentResourcePool \in Names
  /\ VMName \in [VMs -> Names]
  /\ MaxChanges \in Nat
  /\ Settings \subseteq {f \in Flags : f.include = {} \/ f.exclude = {}}
  /\ Inventories \subseteq Inventory
  /\ \A w \in Inventories :
       /\ w.parent[Root] = Root /\ w.poolName[Root] = ParentResourcePool
       /\ \A p \in Pools : w.parent[p] # Gone => w.parent[w.parent[p]] # Gone
       /\ \A v \in VMs : w.pool[v] # Gone => w.parent[w.pool[v]] # Gone

VARIABLES inv,             \* the inventory of vSphere
          changes,         \* the changes made to it so far
          touched,         \* the virtual machines changed since the pools were listed
          flags,
          stage,           \* the call that comes next
          rps,             \* the eligible pools: a sequence of [pool, name]
          viewed,          \* how many of them have been searched
          vms,             \* what was retrieved: a sequence of [vm, name, power, tools]
          filteredVMs,     \* ... and what the filters leave
          exitState        \* "none" before the verdict, "error" when a call fails

vars == <<inv, changes, touched, flags, stage, rps, viewed, vms, filteredVMs, exitState>>
plugin == <<flags, stage, rps, viewed, vms, filteredVMs, exitState>>

Live == {p \in Pools : inv.parent[p] # Gone}

\* textutils.InList(name, list, true).
InList(name, list) == \E n \in list : Rank[n] = Rank[name]

\* The orders sort.Slice may leave the elements of S in: by lower-case name,
\* equal names in any order.
SortedByName(S) ==
  {s \in [1..Cardinality(S) -> S] :
     \A i, j \in 1..Cardinality(S) :
        /\ s[i] = s[j] => i = j
        /\ i < j => Rank[s[i].name] <= Rank[s[j].name]}

\* A pool, its parent, the parent of that, ...: what every set has that has the pool
\* and the parents of its pools.
Above(p) == {q \in Live : \A S \in SUBSET Live :
               p \in S /\ (\A o \in S : inv.parent[o] \in S) => q \in S}

\* What a recursive ContainerView of pool p finds.
Inside(p) == {v \in VMs : inv.pool[v] # Gone /\ p \in Above(inv.pool[v])}

Init == /\ inv \in Inventories
        /\ changes = 0
        /\ touched = {}
        /\ flags \in Settings
        /\ stage = "validate"
        /\ rps = << >>
        /\ viewed = 0
        /\ vms = << >>
        /\ filteredVMs = << >>
        /\ exitState = "none"
-----------------------------------------------------------------------------
(* The inventory changes.                                                   *)

Change(w, S) == /\ stage # "done"
                /\ changes < MaxChanges
                /\ inv' = w
                /\ changes' = changes + 1
                /\ touched' = IF stage \in {"validate", "pools"} THEN {} ELSE touched \cup S
                /\ UNCHANGED plugin

MoveVM(v) == \E p \in Live \cup {Gone} :
  inv.pool[v] \notin {Gone, p} /\ Change([inv EXCEPT !.pool[v] = p], {v})

PowerVM(v) == \E s \in PowerStates \ {inv.power[v]} :
  Change([inv EXCEPT !.power[v] = s], {v})

UpdateTools(v) == \E s \in ToolsStates \ {inv.tools[v]} :
  Change([inv EXCEPT !.tools[v] = s], {v})

\* The administrator moves pool p, with all it holds, below another pool.
MovePool(p) == \E q \in Live :
  /\ p \in Live \ {Root} /\ p \notin Above(q) /\ q # inv.parent[p]
  /\ Change([inv EXCEPT !.parent[p] = q], {})

RenamePool(p) == \E n \in Names \ {inv.poolName[p], ParentResourcePool} :
  p \in Live \ {Root} /\ Change([inv EXCEPT !.poolName[p] = n], {})

\* What a destroyed pool holds goes to its parent.
DestroyPool(p) ==
  LET up(q) == IF q = p THEN inv.parent[p] ELSE q
  IN /\ p \in Live \ {Root}
     /\ Change([inv EXCEPT
                 !.pool   = [v \in VMs |-> IF @[v] = Gone THEN Gone ELSE up(@[v])],
                 !.parent = [q \in Pools |-> IF q = p \/ @[q] = Gone THEN Gone ELSE up(@[q])]],
               {v \in VMs : inv.pool[v] = p})

Environment == \/ \E v \in VMs : MoveVM(v) \/ PowerVM(v) \/ UpdateTools(v)
               \/ \E p \in Pools : MovePool(p) \/ RenamePool(p) \/ DestroyPool(p)
-----------------------------------------------------------------------------
(* The plugin.                                                              *)

Reading == UNCHANGED <<inv, changes, touched, flags>>

Abort == /\ stage' = "done"
         /\ exitState' = "error"
         /\ Reading
         /\ UNCHANGED <<rps, viewed, vms, filteredVMs>>

\* Any request may fail: the plugin stops with CRITICAL.
RequestFails == stage \in {"validate", "pools", "vms"} /\ Abort

\* The list that counts: the include list when there is one.
NamesToValidate == IF flags.include # {} THEN flags.include ELSE flags.exclude

ValidateRPs ==
  /\ stage = "validate"
  /\ IF \A n \in NamesToValidate : InList(n, {inv.poolName[p] : p \in Live})
     THEN /\ stage' = "pools"
          /\ Reading
          /\ UNCHANGED <<rps, viewed, vms, filteredVMs, exitState>>
     ELSE Abort

\* The hidden pool is left out when there is an include list, even if it is named
\* in it, and is kept otherwise.
Eligible(name) ==
  /\ ~ (Rank[name] = Rank[ParentResourcePool] /\ flags.include # {})
  /\ IF flags.include # {} THEN InList(name, flags.include)
     ELSE ~ InList(name, flags.exclude)

GetEligibleRPs ==
  /\ stage = "pools"
  /\ rps' \in SortedByName({[pool |-> p, name |-> inv.poolName[p]] :
                              p \in {q \in Live : Eligible(inv.poolName[q])}})
  /\ stage' = "vms"
  /\ Reading
  /\ UNCHANGED <<viewed, vms, filteredVMs, exitState>>

Record(v) == [vm |-> v, name |-> VMName[v], power |-> inv.power[v], tools |-> inv.tools[v]]

\* The virtual machines of one view, in an order of vSphere's that the sorting
\* at the end of the loop hides.
Found(p) == CHOOSE s \in [1..Cardinality(Inside(p)) -> {Record(v) : v \in Inside(p)}] :
              \A i, j \in 1..Cardinality(Inside(p)) : s[i] = s[j] => i = j

\* Mutants of SearchNextPool: one iteration too many; the last pool's machines only.
SearchPastLastPool ==
  /\ stage = "vms"
  /\ viewed <= Len(rps)
  /\ vms' = IF viewed < Len(rps) THEN vms \o Found(rps[viewed + 1].pool) ELSE vms
  /\ viewed' = viewed + 1
  /\ Reading
  /\ UNCHANGED <<stage, rps, filteredVMs, exitState>>

SearchOverwrites ==
  /\ stage = "vms"
  /\ viewed < Len(rps)
  /\ vms' = Found(rps[viewed + 1].pool)
  /\ viewed' = viewed + 1
  /\ Reading
  /\ UNCHANGED <<stage, rps, filteredVMs, exitState>>

\* One iteration of GetVMsFromContainer.  A pool that is gone is an error.
SearchNextPool ==
  /\ stage = "vms"
  /\ viewed < Len(rps)
  /\ LET p == rps[viewed + 1].pool IN
     IF p \notin Live THEN Abort
     ELSE /\ vms' = vms \o Found(p)
          /\ viewed' = viewed + 1
          /\ Reading
          /\ UNCHANGED <<stage, rps, filteredVMs, exitState>>

\* Mutant of dedupeVMs: compares whole records.
dedupeRecords(s) == {s[i] : i \in DOMAIN s}

\* The first record of each virtual machine.
dedupeVMs(s) == {s[i] : i \in {k \in DOMAIN s : \A j \in 1..(k - 1) : s[j].vm # s[k].vm}}

\* The end of GetVMsFromContainer.
DedupeAndSort ==
  /\ stage = "vms"
  /\ viewed = Len(rps)
  /\ vms' \in SortedByName(dedupeVMs(vms))
  /\ stage' = "ignored"
  /\ Reading
  /\ UNCHANGED <<rps, viewed, filteredVMs, exitState>>

\* Nothing to ignore leaves the order alone; otherwise what is kept is sorted
\* again.
ExcludeVMsByName ==
  /\ stage = "ignored"
  /\ filteredVMs' \in
       IF flags.ignored = {} THEN {vms}
       ELSE SortedByName({vms[i] : i \in {k \in DOMAIN vms : ~ InList(vms[k].name, flags.ignored)}})
  /\ stage' = "power"
  /\ Reading
  /\ UNCHANGED <<rps, viewed, vms, exitState>>

\* What a loop leaves of s that appends the elements with the indices in K to a new list.
Appended(s, K) ==
  LET index == CHOOSE f \in [1..Cardinality(K) -> K] : \A i, j \in DOMAIN f : i < j => f[i] < f[j]
  IN [n \in 1..Cardinality(K) |-> s[index[n]]]

PowerOK(state) == state = "poweredOn" \/ (flags.poweredOff /\ state = "poweredOff")

\* Mutant of FilterVMsByPowerState: filters what was retrieved, ignored or not.
FilterAllByPowerState ==
  /\ stage = "power"
  /\ filteredVMs' = Appended(vms, {i \in DOMAIN vms : PowerOK(vms[i].power)})
  /\ stage' = "evaluate"
  /\ Reading
  /\ UNCHANGED <<rps, viewed, vms, exitState>>

FilterVMsByPowerState ==
  /\ stage = "power"
  /\ filteredVMs' = Appended(filteredVMs, {i \in DOMAIN filteredVMs : PowerOK(filteredVMs[i].power)})
  /\ stage' = "evaluate"
  /\ Reading
  /\ UNCHANGED <<rps, viewed, vms, exitState>>

FilterVMsWithToolsIssues ==
  Appended(filteredVMs, {i \in DOMAIN filteredVMs : filteredVMs[i].tools # "toolsOk"})

\* The first virtual machine at which the loop stops.
Breaks(r) == r.tools \notin {"toolsOk", "toolsOld"}
FirstBreak(s, i) == Breaks(s[i]) /\ \A j \in 1..(i - 1) : ~ Breaks(s[j])

\* Mutant of GetVMToolsStatusSummary: outdated tools are tools.
GetVMToolsRunningSummary(s) ==
  IF \E i \in DOMAIN s : Breaks(s[i]) THEN "CRITICAL" ELSE "OK"

GetVMToolsStatusSummary(s) ==
  CASE \E i \in DOMAIN s : FirstBreak(s, i) /\ s[i].tools # "unset" -> "CRITICAL"
    [] \E i \in DOMAIN s : FirstBreak(s, i) /\ s[i].tools = "unset" -> "UNKNOWN"
    [] (\A i \in DOMAIN s : ~ Breaks(s[i])) /\ (\E i \in DOMAIN s : s[i].tools = "toolsOld") -> "WARNING"
    [] OTHER -> "OK"

Evaluate ==
  /\ stage = "evaluate"
  /\ exitState' = IF Len(FilterVMsWithToolsIssues) > 0
                  THEN GetVMToolsStatusSummary(FilterVMsWithToolsIssues) ELSE "OK"
  /\ stage' = "done"
  /\ Reading
  /\ UNCHANGED <<rps, viewed, vms, filteredVMs>>

Select == \/ RequestFails \/ ValidateRPs \/ GetEligibleRPs \/ SearchNextPool
          \/ DedupeAndSort \/ ExcludeVMsByName \/ FilterVMsByPowerState \/ Evaluate

Next == Environment \/ Select

Spec == Init /\ [][Next]_vars
-----------------------------------------------------------------------------
(* Properties.                                                              *)

Records == [vm : VMs, name : Names, power : PowerStates, tools : ToolsStates]

TypeOK ==
  /\ inv \in Inventory
  /\ changes \in 0..MaxChanges
  /\ touched \subseteq VMs
  /\ flags \in Flags
  /\ stage \in {"validate", "pools", "vms", "ignored", "power", "evaluate", "done"}
  /\ rps \in Seq([pool : Pools, name : Names])
  /\ viewed \in 0..Len(rps)
  /\ vms \in Seq(Records)
  /\ filteredVMs \in Seq(Records)
  /\ exitState \in {"none", "error", "OK", "WARNING", "CRITICAL", "UNKNOWN"}

\* No virtual machine is counted twice, although the views of nested pools
\* overlap and a virtual machine may move from one pool to the next while they
\* are searched (its record then differs, so only its reference tells).
EvaluatedOnce ==
  \A i, j \in DOMAIN filteredVMs : filteredVMs[i].vm = filteredVMs[j].vm => i = j

\* The virtual machines the flags select, should nothing change.
Selected ==
  {v \in VMs : /\ inv.pool[v] # Gone
               /\ \E p \in Above(inv.pool[v]) : Eligible(inv.poolName[p])
               /\ ~ InList(VMName[v], flags.ignored)
               /\ PowerOK(inv.power[v])}

Verdict == stage = "done" /\ exitState # "error"

\* In a run during which nothing changes, exactly the selected virtual machines
\* are evaluated, in the order of their names.
QuietRunIsExact ==
  Verdict /\ changes = 0 =>
    /\ {filteredVMs[i].vm : i \in DOMAIN filteredVMs} = Selected
    /\ \A i, j \in DOMAIN filteredVMs :
         i < j => Rank[filteredVMs[i].name] <= Rank[filteredVMs[j].name]

\* Whatever moves while the pools are searched, a virtual machine that itself
\* stays as it is in one of the pools listed is not missed, and its record is
\* up to date: renamed or moved pools do not hide it.
SteadyVMsEvaluated ==
  Verdict =>
    \A v \in VMs \ touched, i \in DOMAIN rps :
      /\ inv.pool[v] = rps[i].pool
      /\ ~ InList(VMName[v], flags.ignored)
      /\ PowerOK(inv.power[v])
      => \E j \in DOMAIN filteredVMs : filteredVMs[j] = Record(v)

\* OK is not reported while tools that were bad throughout the run are bad, and no
\* alert is raised when all tools seen were good.
VerdictFollowsTools ==
  Verdict =>
    /\ exitState = "OK" =>
         \A v \in VMs \ touched, i \in DOMAIN rps :
           /\ inv.pool[v] = rps[i].pool /\ PowerOK(inv.power[v])
           /\ ~ InList(VMName[v], flags.ignored)
           => inv.tools[v] = "toolsOk"
    /\ exitState # "OK" => \E i \in DOMAIN filteredVMs : filteredVMs[i].tools # "toolsOk"

-----------------------------------------------------------------------------
(* What the documentation says and the code does not do.                    *)

\* "Resource Pools that should be ignored when evaluating VMs" (README.md,
\* exclude-rp): a virtual machine of an excluded pool is not evaluated.
ExcludedPoolsIgnored ==
  Verdict /\ changes = 0 /\ flags.include = {} =>
    \A i \in DOMAIN filteredVMs :
      ~ InList(inv.poolName[inv.pool[filteredVMs[i].vm]], flags.exclude)
=============================================================================
