----------------------------- MODULE Thresholds -----------------------------
(***************************************************************************)
(* The plugins that compare an amount with two thresholds: the usage of a  *)
(* datastore, of a host (memory or CPU), of Resource Pools (memory), the   *)
(* vCPUs of the selected machines, their days of uptime, and those that    *)
(* look for a question or for disks to consolidate.  What is measured and  *)
(* the machines of the report come from several requests, between which    *)
(* the machines move, change and go.                                       *)
(***************************************************************************)
EXTENDS Naturals, FiniteSets, FiniteSetsExt

CONSTANTS VMs,
          Containers, Within,     \* pools and those they hold, themselves included
          Target,                 \* the datastore or host asked for
          Gone,
          MaxLoad,                \* bound on what one machine has of what is measured
          Capacities,             \* 0: not mounted, or the hardware of the host is unset
          MaxAllowed,             \* of memory or vCPUs
          Warning, Critical,      \* percentages
          DaysWarning, DaysCritical,
          MaxChanges              \* bound on the changes made during a run

\* What validate requires of the thresholds.
ASSUME ThresholdsAssumption ==
  /\ IsFiniteSet(VMs) /\ IsFiniteSet(Containers)
  /\ Target \in Containers /\ Gone \notin Containers
  /\ Within \in [Containers -> SUBSET Containers] /\ \A c \in Containers : c \in Within[c]
  /\ Capacities \subseteq Nat /\ MaxLoad \in Nat /\ MaxChanges \in Nat
  /\ MaxAllowed \in Nat \ {0}
  /\ Warning \in Nat /\ Critical \in Nat /\ Warning < Critical
  /\ DaysWarning \in Nat /\ DaysCritical \in Nat /\ DaysWarning < DaysCritical

OneObject == {"datastore", "host"}
PerMachine == {"uptime", "question", "disk_consolidation"}
Plugins == OneObject \cup {"rps_memory", "vcpus"} \cup PerMachine

VARIABLES place,       \* where each machine is
          load,        \* its share of what is measured; more than 0: it has a question
          capacity,    \* of the target
          changes,
          touched,     \* the machines changed since the run began
          plugin,
          eligible,    \* the pools GetEligibleRPs returns
          stage,
          sample,      \* what was measured: the amount, of how much, and the machines listed
          searched,    \* the containers searched for machines
          record,      \* the load of each machine found
          critical, warning, ok,     \* the lists of the uptime summary
          exitState, cause

server == <<place, load, capacity, changes, touched>>
lists == <<critical, warning, ok>>
vars == <<server, plugin, eligible, stage, sample, searched, record, lists, exitState, cause>>

On(c) == {v \in VMs : place[v] \in Within[c]}
Sum(f, S) == MapThenSumSet(LAMBDA v : f[v], S)
Usage(c) == Sum(load, On(c))
\* No more than there is.
Used == IF Usage(Target) < capacity THEN Usage(Target) ELSE capacity

Init == /\ place \in [VMs -> Containers \cup {Gone}]
        /\ load \in [VMs -> 0..MaxLoad]
        /\ capacity \in Capacities
        /\ changes = 0 /\ touched = {}
        /\ plugin \in Plugins
        /\ eligible \in SUBSET Containers
        /\ stage = "measure"
        /\ sample = [used |-> 0, of |-> 0, machines |-> {}]
        /\ searched = {}
        /\ record = << >>
        /\ critical = {} /\ warning = {} /\ ok = {}
        /\ exitState = "none" /\ cause = "none"
-----------------------------------------------------------------------------
(* The inventory changes.                                                   *)

Change(v) == /\ stage # "done" /\ changes < MaxChanges
             /\ changes' = changes + 1
             /\ touched' = touched \cup {v}
             /\ UNCHANGED <<plugin, eligible, stage, sample, searched, record, lists, exitState, cause>>

\* Created, moved or destroyed.
MoveVM(v) == \E c \in (Containers \cup {Gone}) \ {place[v]} :
               /\ place' = [place EXCEPT ![v] = c]
               /\ Change(v)
               /\ UNCHANGED <<load, capacity>>

SetLoad(v) == \E n \in 0..MaxLoad \ {load[v]} : /\ load' = [load EXCEPT ![v] = n]
                                                /\ Change(v)
                                                /\ UNCHANGED <<place, capacity>>
-----------------------------------------------------------------------------
RequestFails == /\ stage \in {"measure", "hosts", "machines"}
                /\ exitState' = "CRITICAL" /\ cause' = "error"
                /\ stage' = "done"
                /\ UNCHANGED <<server, plugin, eligible, sample, searched, record, lists>>

\* GetDatastoreByName, NewDatastoreUsageSummary: the machines are listed with the rest.
MeasureDatastore ==
  /\ stage = "measure" /\ plugin = "datastore"
  /\ sample' = [used |-> Used, of |-> capacity, machines |-> On(Target)]
  /\ stage' = "machines"
  /\ UNCHANGED <<server, plugin, eligible, searched, record, lists, exitState, cause>>

\* GetHostSystemByName, NewHostSystemMemoryUsageSummary, NewHostSystemCPUUsageSummary.
MeasureHost ==
  /\ stage = "measure" /\ plugin = "host" /\ capacity # 0
  /\ sample' = [used |-> Used, of |-> capacity, machines |-> {}]
  /\ stage' = "machines"
  /\ UNCHANGED <<server, plugin, eligible, searched, record, lists, exitState, cause>>

\* The pointer to the hardware is not tested, neither here nor in GetHostSystemsTotalMemory.
NilHardware ==
  /\ \/ stage = "measure" /\ plugin = "host"
     \/ stage = "hosts"
  /\ capacity = 0
  /\ exitState' = "CRITICAL" /\ cause' = "panic"
  /\ stage' = "done"
  /\ UNCHANGED <<server, plugin, eligible, sample, searched, record, lists>>

\* GetEligibleRPs; a pool reports the memory of the pools in it as well, so that what is
\* in two eligible pools is added twice.
MeasurePools ==
  /\ stage = "measure" /\ plugin \notin OneObject
  /\ sample' = IF plugin = "rps_memory"
               THEN [used |-> MapThenSumSet(Usage, eligible), of |-> MaxAllowed, machines |-> {}]
               ELSE sample
  /\ stage' = IF plugin = "rps_memory" THEN "hosts" ELSE "machines"
  /\ UNCHANGED <<server, plugin, eligible, searched, record, lists, exitState, cause>>

\* The capacity of all hosts is only printed.
GetHostSystemsTotalMemory ==
  /\ stage = "hosts" /\ capacity # 0
  /\ stage' = "machines"
  /\ UNCHANGED <<server, plugin, eligible, sample, searched, record, lists, exitState, cause>>
-----------------------------------------------------------------------------
\* All machines are retrieved and those listed earlier looked up among them.
GetVMsFromDatastore ==
  /\ stage = "machines" /\ plugin = "datastore"
  /\ \A v \in sample.machines : place[v] # Gone
  /\ record' = [v \in sample.machines |-> load[v]]
  /\ stage' = "evaluate"
  /\ UNCHANGED <<server, plugin, eligible, sample, searched, lists, exitState, cause>>

\* FilterVMByID finds nothing.
ListedVMIsGone ==
  /\ stage = "machines" /\ plugin = "datastore"
  /\ \E v \in sample.machines : place[v] = Gone
  /\ exitState' = "CRITICAL" /\ cause' = "error"
  /\ stage' = "done"
  /\ UNCHANGED <<server, plugin, eligible, sample, searched, record, lists>>

ToSearch == IF plugin = "host" THEN {Target} ELSE eligible

\* Mutant of GetVMsFromContainer: keeps the machines of the last container only.
GetVMsFromLastContainer(c) ==
  /\ stage = "machines" /\ plugin # "datastore"
  /\ c \in ToSearch \ searched
  /\ searched' = searched \cup {c}
  /\ record' = [v \in On(c) |-> load[v]]
  /\ UNCHANGED <<server, plugin, eligible, stage, sample, lists, exitState, cause>>

\* One view per container; dedupeVMs keeps what was found first.
GetVMsFromContainer(c) ==
  /\ stage = "machines" /\ plugin # "datastore"
  /\ c \in ToSearch \ searched
  /\ searched' = searched \cup {c}
  /\ record' = [v \in DOMAIN record \cup On(c) |-> IF v \in DOMAIN record THEN record[v] ELSE load[v]]
  /\ UNCHANGED <<server, plugin, eligible, stage, sample, lists, exitState, cause>>

AllSearched == /\ stage = "machines" /\ plugin # "datastore" /\ searched = ToSearch
               /\ stage' = "evaluate"
               /\ UNCHANGED <<server, plugin, eligible, sample, searched, record, lists, exitState, cause>>
-----------------------------------------------------------------------------
\* Mutant of AtLeast: the comparison of the other plugins.
StrictlyAbove(used, total, percent) == total # 0 /\ 100 * used > percent * total

\* Comparisons of the percentage used / total; with a total of 0 it is NaN and all fail.
\* The help of every threshold says "is reached"; only datastores and hosts use AtLeast.
AtLeast(used, total, percent) == total # 0 /\ 100 * used >= percent * total
Above(used, total, percent) == total # 0 /\ 100 * used > percent * total

\* IsCriticalState and IsWarningState of datastores and hosts.
SummaryState == IF AtLeast(sample.used, sample.of, Critical) THEN "CRITICAL"
                ELSE IF AtLeast(sample.used, sample.of, Warning) THEN "WARNING" ELSE "OK"

MemoryState == IF Above(sample.used, sample.of, Critical) THEN "CRITICAL"
               ELSE IF Above(sample.used, sample.of, Warning) THEN "WARNING" ELSE "OK"

VCPUsAllocated == Sum(record, DOMAIN record)
VCPUsState == IF Above(VCPUsAllocated, MaxAllowed, Critical) THEN "CRITICAL"
              ELSE IF Above(VCPUsAllocated, MaxAllowed, Warning) THEN "WARNING" ELSE "OK"

Verdict(state) ==
  /\ stage = "evaluate"
  /\ exitState' = state /\ cause' = "verdict"
  /\ stage' = "done"
  /\ UNCHANGED <<server, plugin, eligible, sample, searched, record>>

EvaluateUsage == /\ plugin \in OneObject /\ Verdict(SummaryState) /\ UNCHANGED lists
EvaluateMemory == /\ plugin = "rps_memory" /\ Verdict(MemoryState) /\ UNCHANGED lists
EvaluateVCPUs == /\ plugin = "vcpus" /\ Verdict(VCPUsState) /\ UNCHANGED lists

\* Mutant of EvaluateUptime: what exceeds the WARNING threshold is in that list, whatever
\* else it exceeds.
EvaluateUptimeTwice ==
  /\ plugin = "uptime"
  /\ critical' = {v \in DOMAIN record : record[v] > DaysCritical}
  /\ warning' = {v \in DOMAIN record : record[v] > DaysWarning}
  /\ ok' = DOMAIN record \ (critical' \cup warning')
  /\ Verdict(IF critical' # {} THEN "CRITICAL" ELSE IF warning' # {} THEN "WARNING" ELSE "OK")

\* GetVMPowerCycleUptimeStatusSummary.
EvaluateUptime ==
  /\ plugin = "uptime"
  /\ critical' = {v \in DOMAIN record : record[v] > DaysCritical}
  /\ warning' = {v \in DOMAIN record \ critical' : record[v] > DaysWarning}
  /\ ok' = DOMAIN record \ (critical' \cup warning')
  /\ Verdict(IF critical' # {} THEN "CRITICAL" ELSE IF warning' # {} THEN "WARNING" ELSE "OK")

\* The loops in both plugins; any machine found is CRITICAL.
EvaluateFlag ==
  /\ plugin \in {"question", "disk_consolidation"}
  /\ critical' = {v \in DOMAIN record : record[v] > 0}
  /\ ok' = DOMAIN record \ critical' /\ UNCHANGED warning
  /\ Verdict(IF critical' # {} THEN "CRITICAL" ELSE "OK")

Next == \/ \E v \in VMs : MoveVM(v) \/ SetLoad(v)
        \/ RequestFails
        \/ MeasureDatastore \/ MeasureHost \/ NilHardware \/ MeasurePools
        \/ GetHostSystemsTotalMemory
        \/ GetVMsFromDatastore \/ ListedVMIsGone
        \/ \E c \in Containers : GetVMsFromContainer(c)
        \/ AllSearched
        \/ EvaluateUsage \/ EvaluateMemory \/ EvaluateVCPUs \/ EvaluateUptime \/ EvaluateFlag

Spec == Init /\ [][Next]_vars
-----------------------------------------------------------------------------
\* The state is what its types say; no machine is in two lists of the uptime report.
TypeOK ==
  /\ place \in [VMs -> Containers \cup {Gone}] /\ load \in [VMs -> 0..MaxLoad]
  /\ capacity \in Capacities
  /\ changes \in 0..MaxChanges /\ touched \subseteq VMs
  /\ plugin \in Plugins /\ eligible \subseteq Containers
  /\ stage \in {"measure", "hosts", "machines", "evaluate", "done"}
  /\ sample \in [used : Nat, of : Nat, machines : SUBSET VMs]
  /\ searched \subseteq Containers
  /\ DOMAIN record \subseteq VMs /\ \A v \in DOMAIN record : record[v] \in 0..MaxLoad
  /\ critical \cup warning \cup ok \subseteq DOMAIN record
  /\ critical \cap warning = {} /\ (critical \cup warning) \cap ok = {}
  /\ exitState \in {"none", "OK", "WARNING", "CRITICAL"}
  /\ cause \in {"none", "verdict", "error", "panic"}
  /\ stage = "done" <=> exitState # "none" /\ cause # "none"

InPools == {v \in VMs : \E c \in eligible : place[v] \in Within[c]}
Disjoint == \A c, d \in eligible : c # d => Within[c] \cap Within[d] = {}

\* What the inventory says of a threshold, at the boundary as the code has it: a datastore
\* or a host crosses it when it reaches it, as the help of every threshold flag says
\* ("when a CRITICAL threshold is reached", constants.go:29); memory, vCPUs and uptime cross
\* it only beyond, contrary to that help (constants.go:29-30, 52-53, 59-60). A machine
\* counts once.
Crossed(percent, days) ==
  CASE plugin \in OneObject -> capacity # 0 /\ 100 * Used >= percent * capacity
    [] plugin \in {"rps_memory", "vcpus"} -> 100 * Sum(load, InPools) > percent * MaxAllowed
    [] plugin = "uptime" -> \E v \in InPools : load[v] > days
    [] OTHER -> \E v \in InPools : load[v] > 0

\* If nothing changes during the run the verdict says which thresholds are crossed: no
\* value falls between the comparisons, nested pools do not count a machine twice, a
\* datastore that is not mounted is OK. Only the memory of nested pools is added twice: it
\* may alert too early, never too late. This is about the boundary of the code: that
\* memory, vCPUs and uptime equal to a threshold do not alert differs from the help of their
\* flags and is a divergence the README lists, not something this property endorses.
QuietVerdictIsExact ==
  cause = "verdict" /\ changes = 0 =>
    /\ Crossed(Critical, DaysCritical) => exitState = "CRITICAL"
    /\ Crossed(Warning, DaysWarning) => exitState # "OK"
    /\ plugin # "rps_memory" \/ Disjoint =>
         /\ exitState = "CRITICAL" => Crossed(Critical, DaysCritical)
         /\ exitState # "OK" => Crossed(Warning, DaysWarning)

\* Whatever else changes, a machine that stays as it was is seen: in the lists and the
\* verdict of the plugins that look at each machine, in the number of vCPUs, and in the
\* report of a datastore, which has every machine the datastore listed or fails.
SteadyMachinesCount ==
  LET steady == InPools \ touched
  IN cause = "verdict" =>
       /\ plugin = "datastore" => DOMAIN record = sample.machines /\ On(Target) \ touched \subseteq DOMAIN record
       /\ plugin \in PerMachine => /\ steady \subseteq DOMAIN record
                                   /\ DOMAIN record = critical \cup warning \cup ok
                                   /\ (\E v \in steady : load[v] > DaysWarning) => exitState # "OK"
                                   /\ (\E v \in steady : load[v] > DaysCritical) => exitState = "CRITICAL"
       /\ plugin = "vcpus" =>
            /\ 100 * Sum(load, steady) > Critical * MaxAllowed => exitState = "CRITICAL"
            /\ 100 * Sum(load, steady) > Warning * MaxAllowed => exitState # "OK"
=============================================================================
