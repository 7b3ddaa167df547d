-------------------------- MODULE HardwareVersions --------------------------
(***************************************************************************)
(* check_vmware_vhw: the hardware versions of the selected virtual         *)
(* machines, read pool by pool, the default version of a host or cluster   *)
(* (DefaultHardwareVersion), the index of versions and the four            *)
(* evaluations (internal/vsphere/hardware.go, cmd/check_vmware_vhw).  A    *)
(* version is the number n of "vmx-n", -1 a text that ends in no number;   *)
(* the code orders versions as text in some places and as numbers in       *)
(* others.  Versions are upgraded, never downgraded.                       *)
(***************************************************************************)
EXTENDS Integers, FiniteSets

CONSTANTS VMs, Resources, Hosts,   \* compute resources are clusters or standalone hosts
          None,                    \* a name that is not given; no compute resource
          Versions,
          Settings,                \* the flags
          MaxChanges               \* bound on the changes made during a run

Modes == {"homogeneous", "minimum", "default", "outdated"}

Flags == [mode : Modes, min : Int, warn : Int, crit : Int,
          host : Hosts \cup {None}, cluster : Resources \cup {None}]

\* The thresholds and the names are as validate leaves them.
ASSUME HardwareAssumption ==
  /\ IsFiniteSet(VMs)
  /\ None \notin Resources \cup Hosts
  /\ Versions \subseteq -1..99
  /\ MaxChanges \in Nat
  /\ Settings \subseteq {f \in Flags : /\ f.host = None \/ f.cluster = None
                                       /\ f.mode = "outdated" => 1 <= f.warn /\ f.warn < f.crit
                                       /\ f.mode = "minimum" => f.min >= 3}

VARIABLES version,      \* of each machine at the server
          readable,     \* the machines whose Config is set
          defaults,     \* the default version of each compute resource there is
          home,         \* the compute resource of each host
          changes,
          flags,
          first,        \* the versions when the run began
          stage,
          selected,     \* the machines to evaluate
          record,       \* what was read of them
          resource,     \* computeResourceRef
          defaultVersion,
          exitState, cause,
          outdated,     \* the machines the one-line summary counts
          upgrade       \* the machines the report says are in need of upgrade

server == <<version, readable, defaults, home, changes>>
result == <<exitState, cause, outdated, upgrade>>
vars == <<server, flags, first, stage, selected, record, resource, defaultVersion, result>>

Init == /\ version \in [VMs -> Versions]
        /\ readable = VMs
        /\ \E R \in SUBSET Resources : defaults \in [R -> Versions] /\ home \in [Hosts -> R]
        /\ changes = 0
        /\ flags \in Settings
        /\ first = version
        /\ stage = "vms"
        /\ selected \in SUBSET VMs
        /\ record = [v \in {} |-> None]
        /\ resource = None
        /\ defaultVersion = -1
        /\ exitState = "none" /\ cause = "none"
        /\ outdated = {} /\ upgrade = {}
-----------------------------------------------------------------------------
(* The inventory changes.                                                   *)

Change == /\ stage # "done" /\ changes < MaxChanges
          /\ changes' = changes + 1
          /\ UNCHANGED <<flags, first, stage, selected, record, resource, defaultVersion, result>>

UpgradeVM(v) == \E n \in Versions : /\ n > version[v]
                                    /\ version' = [version EXCEPT ![v] = n]
                                    /\ Change
                                    /\ UNCHANGED <<readable, defaults, home>>

ToggleReadable(v) == /\ readable' = IF v \in readable THEN readable \ {v} ELSE readable \cup {v}
                     /\ Change
                     /\ UNCHANGED <<version, defaults, home>>

SetDefault(r) == \E n \in Versions : /\ r \in DOMAIN defaults
                                     /\ defaults' = [defaults EXCEPT ![r] = n]
                                     /\ Change
                                     /\ UNCHANGED <<version, readable, home>>

MoveHost(h) == \E r \in DOMAIN defaults : /\ home' = [home EXCEPT ![h] = r]
                                          /\ Change
                                          /\ UNCHANGED <<version, readable, defaults>>

DestroyResource(r) == /\ r \in DOMAIN defaults /\ \A h \in Hosts : home[h] # r
                      /\ defaults' = [q \in DOMAIN defaults \ {r} |-> defaults[q]]
                      /\ Change
                      /\ UNCHANGED <<version, readable, home>>
-----------------------------------------------------------------------------
Requests == {"vms", "compute", "host", "query"}

\* A request that fails, now or because what it asks for is not there, ends the run.
RequestFails == /\ stage \in Requests
                /\ exitState' = "CRITICAL" /\ cause' = "error"
                /\ stage' = "done"
                /\ UNCHANGED <<server, flags, first, selected, record, resource, defaultVersion,
                               outdated, upgrade>>

\* Mutant of RetrieveVM: what the filters have dropped, too.
RetrieveAnyVM(v) ==
  /\ stage = "vms" /\ v \notin DOMAIN record
  /\ record' = [w \in DOMAIN record \cup {v} |->
                  IF w = v THEN IF v \in readable THEN version[v] ELSE None ELSE record[w]]
  /\ UNCHANGED <<server, flags, first, stage, selected, resource, defaultVersion, result>>

\* GetVMsFromContainer: each machine comes with the search of its pool.
RetrieveVM(v) ==
  /\ stage = "vms" /\ v \in selected \ DOMAIN record
  /\ record' = [w \in DOMAIN record \cup {v} |->
                  IF w = v THEN IF v \in readable THEN version[v] ELSE None ELSE record[w]]
  /\ UNCHANGED <<server, flags, first, stage, selected, resource, defaultVersion, result>>

AllRetrieved == /\ stage = "vms" /\ DOMAIN record = selected
                /\ stage' = "compute"
                /\ UNCHANGED <<server, flags, first, selected, record, resource, defaultVersion, result>>

\* A compute resource is looked up even when a host is given; without a name it must be
\* the only one.
FindComputeResource ==
  /\ stage = "compute"
  /\ \E r \in DOMAIN defaults : /\ r = flags.cluster \/ (flags.cluster = None /\ DOMAIN defaults = {r})
                              /\ resource' = r
  /\ stage' = IF flags.host = None THEN "query" ELSE "host"
  /\ UNCHANGED <<server, flags, first, selected, record, defaultVersion, result>>

GetHostSystemByName ==
  /\ stage = "host"
  /\ resource' = home[flags.host]
  /\ stage' = "query"
  /\ UNCHANGED <<server, flags, first, selected, record, defaultVersion, result>>

\* The environment browser and QueryConfigOptionEx.
QueryConfigOption ==
  /\ stage = "query" /\ resource \in DOMAIN defaults
  /\ defaultVersion' = defaults[resource]
  /\ stage' = "index"
  /\ UNCHANGED <<server, flags, first, selected, record, resource, result>>
-----------------------------------------------------------------------------
\* The order of the texts "vmx-n": "vmx-9" comes after "vmx-10".
TextKey(n) == IF n < 10 THEN 20 * n ELSE 2 * n + 1

\* The keys of HardwareVersionsIndex.
Index == {record[v] : v \in selected}

\* Newest, of an index that is not empty: sorted as text.
Newest == CHOOSE n \in Index : \A m \in Index : TextKey(m) <= TextKey(n)

\* Mutant of MeetsMinVersion: the minimum itself is too old.
ExceedsMinVersion(minVer) == \A n \in Index : n > minVer

MeetsMinVersion(minVer) == \A n \in Index : n >= minVer

\* The machines older than minVer, as the one-line summary and the report find them.
OlderThan(minVer) == {v \in selected : record[v] < minVer}

\* The loop over the machines reads Config.Version without testing Config, Newest the
\* first element of an empty list.
Panic == /\ stage = "index"
         /\ None \in Index \/ selected = {}
         /\ exitState' = "CRITICAL" /\ cause' = "panic"
         /\ stage' = "done"
         /\ UNCHANGED <<server, flags, first, selected, record, resource, defaultVersion,
                        outdated, upgrade>>

Evaluated == stage = "index" /\ selected # {} /\ None \notin Index

Result(state, minVer) ==
  /\ exitState' = state /\ cause' = "verdict"
  /\ outdated' = OlderThan(minVer)
  /\ upgrade' = IF MeetsMinVersion(minVer) THEN {} ELSE OlderThan(minVer)
  /\ stage' = "done"
  /\ UNCHANGED <<server, flags, first, selected, record, resource, defaultVersion>>

CheckHomogeneous == /\ Evaluated /\ flags.mode = "homogeneous"
                    /\ Result(IF Cardinality(Index) > 1 THEN "WARNING" ELSE "OK", Newest)

CheckMinimum == /\ Evaluated /\ flags.mode = "minimum"
                /\ Result(IF MeetsMinVersion(flags.min) THEN "OK" ELSE "CRITICAL", flags.min)

CheckDefaultIsMin ==
  /\ Evaluated /\ flags.mode = "default"
  /\ Result(IF MeetsMinVersion(defaultVersion) THEN "OK" ELSE "WARNING", defaultVersion)

\* Mutant of CheckOutdatedBy: the summary of a WARNING is for the other threshold.
CheckOutdatedByCritical ==
  /\ Evaluated /\ flags.mode = "outdated"
  /\ LET critical == Newest - flags.crit
         warning  == Newest - flags.warn
     IN \/ ~MeetsMinVersion(critical) /\ Result("CRITICAL", critical)
        \/ MeetsMinVersion(critical) /\ ~MeetsMinVersion(warning) /\ Result("WARNING", critical)
        \/ MeetsMinVersion(critical) /\ MeetsMinVersion(warning) /\ Result("OK", warning)

CheckOutdatedBy ==
  /\ Evaluated /\ flags.mode = "outdated"
  /\ LET critical == Newest - flags.crit
         warning  == Newest - flags.warn
     IN \/ ~MeetsMinVersion(critical) /\ Result("CRITICAL", critical)
        \/ MeetsMinVersion(critical) /\ ~MeetsMinVersion(warning) /\ Result("WARNING", warning)
        \/ MeetsMinVersion(critical) /\ MeetsMinVersion(warning) /\ Result("OK", warning)

Next == \/ \E v \in VMs : UpgradeVM(v) \/ ToggleReadable(v)
        \/ \E r \in Resources : SetDefault(r) \/ DestroyResource(r)
        \/ \E h \in Hosts : MoveHost(h)
        \/ RequestFails
        \/ \E v \in VMs : RetrieveVM(v)
        \/ AllRetrieved
        \/ FindComputeResource
        \/ GetHostSystemByName
        \/ QueryConfigOption
        \/ Panic
        \/ CheckHomogeneous
        \/ CheckMinimum
        \/ CheckDefaultIsMin
        \/ CheckOutdatedBy

Spec == Init /\ [][Next]_vars
-----------------------------------------------------------------------------
\* The state is what its types say; a run that is done has a verdict, an error or a panic
\* behind it, and the default version that is queried is that of some compute resource.
TypeOK ==
  /\ version \in [VMs -> Versions] /\ first \in [VMs -> Versions]
  /\ readable \subseteq VMs /\ selected \subseteq VMs
  /\ DOMAIN defaults \subseteq Resources /\ defaults \in [DOMAIN defaults -> Versions]
  /\ home \in [Hosts -> DOMAIN defaults]
  /\ changes \in 0..MaxChanges
  /\ flags \in Settings
  /\ stage \in Requests \cup {"index", "done"}
  /\ DOMAIN record \subseteq selected
  /\ stage \notin {"vms", "done"} => DOMAIN record = selected
  /\ record \in [DOMAIN record -> Versions \cup {None}]
  /\ resource \in Resources \cup {None}
  /\ stage \in {"query", "index"} => resource # None
  /\ stage = "host" => flags.host # None
  /\ defaultVersion \in Versions \cup {-1}
  /\ exitState \in {"none", "OK", "WARNING", "CRITICAL"}
  /\ cause \in {"none", "verdict", "error", "panic"}
  /\ IF stage = "done" THEN exitState # "none" /\ cause # "none" ELSE exitState = "none" /\ cause = "none"
  /\ outdated \subseteq selected /\ upgrade \subseteq outdated

\* Some machine is more than d versions behind another, with the former as in old and the
\* latter as in new; some machine is older than n.
Behind(old, new, d) == \E v, w \in selected : v # w /\ new[w] - old[v] > d
Below(old, n) == \E v \in selected : old[v] < n

\* What the documentation calls WARNING or worse, or CRITICAL, by version number.
Exceeded(level, old, new) ==
  CASE flags.mode = "homogeneous" -> level = "WARNING" /\ Behind(old, new, 0)
    [] flags.mode = "minimum"     -> Below(old, flags.min)
    [] flags.mode = "default"     -> level = "WARNING" /\ Below(old, defaultVersion)
    [] flags.mode = "outdated"    -> Behind(old, new, IF level = "CRITICAL" THEN flags.crit ELSE flags.warn)

\* All versions have two digits, or all have one.
SameLength == \/ \A v \in selected : first[v] >= 10
              \/ \A v \in selected : version[v] < 10

\* The machines are read one after the other while they are upgraded. A verdict never
\* claims more than the oldest versions of the run can explain together with the newest,
\* and never overlooks what was so all the time; without upgrades it is exact. Newest
\* compares texts, so that this needs versions with the same number of digits, where the
\* newest machine is the baseline.
VerdictReflectsVersions ==
  cause = "verdict" /\ (flags.mode \in {"minimum", "default"} \/ SameLength) =>
    /\ Exceeded("CRITICAL", version, first) => exitState = "CRITICAL"
    /\ Exceeded("WARNING", version, first)  => exitState # "OK"
    /\ exitState = "CRITICAL" => Exceeded("CRITICAL", first, version)
    /\ exitState # "OK"       => Exceeded("WARNING", first, version)

\* An alert comes with the machines to upgrade, in the summary and in the list of the
\* report, and OK without any.
SummaryExplainsVerdict ==
  cause = "verdict" /\ (flags.mode # "homogeneous" \/ SameLength) =>
    /\ exitState # "OK" <=> outdated # {}
    /\ upgrade = outdated

\* "The highest version used as a baseline for comparison is provided using the same logic
\* as provided by the "homogeneous" version check: latest visible hardware version."
\* (README.md:230)
LatestVersionIsBaseline ==
  cause = "verdict" /\ flags.mode = "outdated" /\ first = version /\ exitState = "OK" =>
    ~Behind(version, version, flags.warn)
=============================================================================
