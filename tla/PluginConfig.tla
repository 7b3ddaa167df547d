---------------------------- MODULE PluginConfig ----------------------------
(***************************************************************************)
(* config.New (internal/config): from the command line of a plugin to its  *)
(* configuration or to an error.  A flag value is a number for a threshold *)
(* or version, a boolean for a toggle or a list that is empty or not, a    *)
(* text otherwise.                                                         *)
(***************************************************************************)
EXTENDS Integers, Sequences, FiniteSets

CONSTANTS Plugins,          \* the plugin types that are started
          CommandLines,     \* the command lines tried, a set for each plugin type
          LogLevels,        \* the keywords of the loggingLevels map
          Lower             \* strings.ToLower on the log levels and status keywords

NumberFlags == {"warning", "critical", "max-allowed", "minimum-version",
                "outdated-by-warning", "outdated-by-critical", "timeout"}

\* What the flag package makes of a value: a number, a list of keywords.
ASSUME ConfigAssumption ==
  /\ \A p \in Plugins : \A g \in CommandLines[p] :
       /\ \A f \in DOMAIN g \cap NumberFlags : g[f] \in Int
       /\ \A f \in DOMAIN g \cap {"include-status", "exclude-status"} : g[f] \in Seq(DOMAIN Lower)
  /\ LogLevels \subseteq DOMAIN Lower
  /\ \A k \in DOMAIN Lower : Lower[k] \in DOMAIN Lower /\ Lower[Lower[k]] = Lower[k]

Unset == -1       \* defaultVirtualHardwareMinimumVersion and its companions
NoText == ""
OverlongName == "a cluster name of more than MaxClusterNameChars"

RPFlags == {"include-rp", "exclude-rp"}
ThresholdFlags == {"warning", "critical"}
HardwareFlags == {"host-name", "cluster-name", "minimum-version", "outdated-by-warning",
                  "outdated-by-critical", "default-is-min-version"}
AttributeFlags == {"ca-name", "host-ca-name", "ds-ca-name",
                   "ca-prefix-sep", "host-ca-prefix-sep", "ds-ca-prefix-sep"}
AlarmLists == {"entity-type", "entity-name", "entity-rp", "name", "desc"}
AlarmFlags == {"alarm-include", "alarm-exclude", "include-status", "exclude-status"}
SharedFlags == {"credentials", "timeout", "log-level", "version"}

\* The flags of a plugin type that its validation or its behaviour depends on
\* ("warning" stands for age-warning, vcpus-warning and so on; "alarm-include" and
\* "alarm-exclude" for the five pairs of list flags of the alarms plugin).
Exposed(plugin) ==
  SharedFlags \cup
  CASE plugin \in {"Tools", "DiskConsolidation", "InteractiveQuestion"} -> RPFlags
    [] plugin \in {"SnapshotsAge", "SnapshotsCount", "SnapshotsSize",
                   "VirtualMachinePowerCycleUptime"} -> RPFlags \cup ThresholdFlags
    [] plugin \in {"VirtualCPUsAllocation", "ResourcePoolsMemory"} ->
         RPFlags \cup ThresholdFlags \cup {"max-allowed"}
    [] plugin = "DatastoresSize" -> ThresholdFlags \cup {"ds-name"}
    [] plugin \in {"HostSystemMemory", "HostSystemCPU"} -> ThresholdFlags \cup {"host-name"}
    [] plugin = "VirtualHardwareVersion" -> RPFlags \cup HardwareFlags
    [] plugin = "Host2Datastores2VMs" -> RPFlags \cup AttributeFlags
    [] plugin = "Alarms" -> AlarmFlags

\* The threshold defaults of constants.go.
DefaultThresholds(plugin) ==
  CASE plugin = "SnapshotsAge"                   -> <<1, 2>>
    [] plugin = "SnapshotsCount"                 -> <<4, 25>>
    [] plugin = "SnapshotsSize"                  -> <<20, 40>>
    [] plugin = "VirtualMachinePowerCycleUptime" -> <<60, 90>>
    [] plugin = "DatastoresSize"                 -> <<90, 95>>
    [] plugin = "VirtualCPUsAllocation"          -> <<95, 100>>
    [] OTHER                                     -> <<80, 95>>

Default(plugin, flag) ==
  CASE flag \in RPFlags -> FALSE
    [] flag = "warning"  -> DefaultThresholds(plugin)[1]
    [] flag = "critical" -> DefaultThresholds(plugin)[2]
    [] flag = "max-allowed" -> 0
    [] flag \in {"minimum-version", "outdated-by-warning", "outdated-by-critical"} -> Unset
    [] flag \in {"ds-name", "host-name", "cluster-name"} \cup AttributeFlags -> NoText
    [] flag \in {"default-is-min-version", "version", "credentials"} -> FALSE
    [] flag \in {"alarm-include", "alarm-exclude"} -> {}
    [] flag \in {"include-status", "exclude-status"} -> << >>
    [] flag = "timeout" -> 10
    [] flag = "log-level" -> "info"

VARIABLES plugin,                   \* the plugin type
          given,                    \* the command line, a function on the flags given
          c,                        \* the Config fields the flags are bound to
          IncludedAlarmStatuses,    \* the exported status lists, bound to no flag
          ExcludedAlarmStatuses,
          step,                     \* the call of config.New that comes next
          outcome                   \* what config.New returns

vars == <<plugin, given, c, IncludedAlarmStatuses, ExcludedAlarmStatuses, step, outcome>>

Init == /\ plugin \in Plugins
        /\ given \in CommandLines[plugin]
        /\ c = << >>
        /\ IncludedAlarmStatuses = << >>
        /\ ExcludedAlarmStatuses = << >>
        /\ step = "flags"
        /\ outcome = "none"

Return(result) == /\ step' = "return"
                  /\ outcome' = result
                  /\ UNCHANGED <<plugin, given, c, IncludedAlarmStatuses, ExcludedAlarmStatuses>>

Continue(next) == /\ step' = next
                  /\ UNCHANGED <<plugin, given, c, IncludedAlarmStatuses,
                                 ExcludedAlarmStatuses, outcome>>

\* A flag the plugin does not define makes flag.Parse exit with status 2.
UndefinedFlag ==
  /\ step = "flags"
  /\ ~ (DOMAIN given \subseteq Exposed(plugin))
  /\ Return("usage")

handleFlagsConfig ==
  /\ step = "flags"
  /\ DOMAIN given \subseteq Exposed(plugin)
  /\ c' = [f \in Exposed(plugin) |->
             IF f \in DOMAIN given THEN given[f] ELSE Default(plugin, f)]
  /\ step' = "version"
  /\ UNCHANGED <<plugin, given, IncludedAlarmStatuses, ExcludedAlarmStatuses, outcome>>

\* Mutant of ShowVersion: notes the request and goes on.
ShowVersionAndGoOn ==
  /\ step = "version"
  /\ step' = "validate"
  /\ outcome' = IF c["version"] THEN "version" ELSE outcome
  /\ UNCHANGED <<plugin, given, c, IncludedAlarmStatuses, ExcludedAlarmStatuses>>

ShowVersion ==
  /\ step = "version"
  /\ IF c["version"] THEN Return("version") ELSE Continue("validate")
-----------------------------------------------------------------------------
(* validate.                                                                *)

\* "only one of these options may be used": the plugin types the check is made for.
ChecksRPLists ==
  {"Tools", "SnapshotsAge", "SnapshotsCount", "SnapshotsSize",
   "VirtualMachinePowerCycleUptime", "ResourcePoolsMemory", "VirtualCPUsAllocation",
   "Host2Datastores2VMs", "VirtualHardwareVersion"}

RPListsValid == plugin \in ChecksRPLists => ~ (c["include-rp"] /\ c["exclude-rp"])

\* The lowest threshold accepted.
LowestThreshold ==
  IF plugin \in {"SnapshotsAge", "SnapshotsCount", "SnapshotsSize",
                 "VirtualMachinePowerCycleUptime"} THEN 0 ELSE 1

ThresholdsValid ==
  ThresholdFlags \subseteq Exposed(plugin) =>
    /\ c["warning"] >= LowestThreshold
    /\ c["critical"] >= LowestThreshold
    /\ c["critical"] > c["warning"]
    /\ plugin = "DatastoresSize" => c["ds-name"] # NoText
    /\ plugin \in {"HostSystemMemory", "HostSystemCPU"} => c["host-name"] # NoText
    /\ plugin \in {"VirtualCPUsAllocation", "ResourcePoolsMemory"} => c["max-allowed"] >= 1

\* Which of the settings that choose the mode of check_vmware_vhw are given.
MinGiven == c["minimum-version"] # Unset
WarnGiven == c["outdated-by-warning"] # Unset
CritGiven == c["outdated-by-critical"] # Unset
DefaultIsMin == c["default-is-min-version"]

OutdatedByValid ==
  /\ c["outdated-by-critical"] >= 1 /\ c["outdated-by-warning"] >= 1
  /\ c["outdated-by-critical"] > c["outdated-by-warning"]

\* Mutant of HardwareValid: the outdated-by mode goes with default-is-min-version.
HardwareValidLoosely ==
  plugin = "VirtualHardwareVersion" =>
    \/ ~ MinGiven /\ ~ WarnGiven /\ ~ CritGiven
    \/ MinGiven /\ ~ WarnGiven /\ ~ CritGiven /\ ~ DefaultIsMin /\ c["minimum-version"] >= 3
    \/ ~ MinGiven /\ (WarnGiven \/ CritGiven) /\ OutdatedByValid

HardwareValid ==
  plugin = "VirtualHardwareVersion" =>
    /\ c["cluster-name"] # OverlongName
    /\ c["cluster-name"] = NoText \/ c["host-name"] = NoText
    /\ \/ ~ MinGiven /\ ~ WarnGiven /\ ~ CritGiven
       \/ MinGiven /\ ~ WarnGiven /\ ~ CritGiven /\ ~ DefaultIsMin /\ c["minimum-version"] >= 3
       \/ ~ MinGiven /\ (WarnGiven \/ CritGiven) /\ ~ DefaultIsMin /\ OutdatedByValid

\* Mutant of SharedOrBoth: one of the resource-specific flags is enough.
SharedOrSome(shared, host, ds) ==
  \/ c[shared] # NoText /\ c[host] = NoText /\ c[ds] = NoText
  \/ c[shared] = NoText /\ (c[host] # NoText \/ c[ds] # NoText)

\* Either the shared flag alone, or both of the resource-specific ones.
SharedOrBoth(shared, host, ds) ==
  \/ c[shared] # NoText /\ c[host] = NoText /\ c[ds] = NoText
  \/ c[shared] = NoText /\ c[host] # NoText /\ c[ds] # NoText

AttributesValid ==
  plugin = "Host2Datastores2VMs" =>
    /\ SharedOrBoth("ca-name", "host-ca-name", "ds-ca-name")
    /\ \/ SharedOrBoth("ca-prefix-sep", "host-ca-prefix-sep", "ds-ca-prefix-sep")
       \/ \A f \in {"ca-prefix-sep", "host-ca-prefix-sep", "ds-ca-prefix-sep"} : c[f] = NoText

\* The values of getTriggeredAlarmStatuses.
getTriggeredAlarmStatuses ==
  [red |-> "red", critical |-> "red", yellow |-> "yellow", warning |-> "yellow",
   green |-> "green", ok |-> "green", gray |-> "gray", unknown |-> "gray"]

KnownStatus(keyword) == Lower[keyword] \in DOMAIN getTriggeredAlarmStatuses
TriggeredStatus(keyword) == KnownStatus(keyword) /\ Lower[keyword] \notin {"ok", "green"}

\* The checks on the status lists are guarded by the exported lists, which nothing
\* has filled yet.
AlarmsValid ==
  plugin = "Alarms" =>
    /\ c["alarm-include"] \cap c["alarm-exclude"] = {}
    /\ IncludedAlarmStatuses # << >> \/ ExcludedAlarmStatuses # << >> =>
         /\ IncludedAlarmStatuses = << >> \/ ExcludedAlarmStatuses = << >>
         /\ \A i \in DOMAIN c["include-status"] : TriggeredStatus(c["include-status"][i])
         /\ \A i \in DOMAIN c["exclude-status"] : TriggeredStatus(c["exclude-status"][i])

\* "credentials" stands for the server, the user name, the password and the port.
SharedValid == /\ c["credentials"]
               /\ c["timeout"] >= 1
               /\ Lower[c["log-level"]] \in LogLevels

validate ==
  /\ step = "validate"
  /\ IF RPListsValid /\ ThresholdsValid /\ HardwareValid /\ AttributesValid
        /\ AlarmsValid /\ SharedValid
     THEN Continue("logging") ELSE Return("error")
-----------------------------------------------------------------------------
(* setupLogging and setAlarmStatuses.                                       *)

\* setLoggingLevel switches on the level as given.
setupLogging ==
  /\ step = "logging"
  /\ IF c["log-level"] \in LogLevels THEN Continue("statuses") ELSE Return("error")

Keywords(list) == IF plugin = "Alarms" THEN c[list] ELSE << >>

\* The keys of a Go map, in any order.
KeysInAnyOrder(S) == {s \in [1..Cardinality(S) -> S] : {s[i] : i \in DOMAIN s} = S}

\* Mutant of Folded: the keywords as given.
AsGiven(list) == {Keywords(list)[i] : i \in DOMAIN Keywords(list)}

Folded(list) == {Lower[Keywords(list)[i]] : i \in DOMAIN Keywords(list)}

setAlarmStatuses ==
  /\ step = "statuses"
  /\ \A k \in Folded("include-status") \cup Folded("exclude-status") : KnownStatus(k)
  /\ IncludedAlarmStatuses' \in KeysInAnyOrder(Folded("include-status"))
  /\ ExcludedAlarmStatuses' \in KeysInAnyOrder(Folded("exclude-status"))
  /\ step' = "return"
  /\ outcome' = "config"
  /\ UNCHANGED <<plugin, given, c>>

\* An unknown exclude keyword is found after the include list is filled; the
\* configuration is dropped with the error, so the lists do not matter.
InvalidStatus ==
  /\ step = "statuses"
  /\ \E k \in Folded("include-status") \cup Folded("exclude-status") : ~ KnownStatus(k)
  /\ Return("error")

Next == \/ UndefinedFlag \/ handleFlagsConfig \/ ShowVersion \/ validate
        \/ setupLogging \/ setAlarmStatuses \/ InvalidStatus

Spec == Init /\ [][Next]_vars
-----------------------------------------------------------------------------
(* What the plugins read of the configuration (getters.go).                 *)

UsingSharedCA == c["ca-name"] # NoText

UsingCAPrefixes == \/ c["ca-prefix-sep"] # NoText
                   \/ c["ds-ca-prefix-sep"] # NoText /\ c["host-ca-prefix-sep"] # NoText

DatastoreCAName == IF c["ds-ca-name"] # NoText THEN c["ds-ca-name"] ELSE c["ca-name"]
HostCAName == IF c["host-ca-name"] # NoText THEN c["host-ca-name"] ELSE c["ca-name"]

DatastoreCASep == IF c["ds-ca-prefix-sep"] # NoText THEN c["ds-ca-prefix-sep"]
                  ELSE c["ca-prefix-sep"]
HostCASep == IF c["host-ca-prefix-sep"] # NoText THEN c["host-ca-prefix-sep"]
             ELSE c["ca-prefix-sep"]

ApplyMinVersionCheck == MinGiven /\ ~ CritGiven /\ ~ WarnGiven /\ ~ DefaultIsMin
ApplyDefaultIsMinVersionCheck == ~ MinGiven /\ ~ CritGiven /\ ~ WarnGiven /\ DefaultIsMin
ApplyOutdatedByVersionCheck == ~ MinGiven /\ (CritGiven \/ WarnGiven) /\ ~ DefaultIsMin
ApplyHomogeneousVersionCheck == ~ MinGiven /\ ~ CritGiven /\ ~ WarnGiven /\ ~ DefaultIsMin
-----------------------------------------------------------------------------
(* Properties.                                                              *)

Accepted(p) == outcome = "config" /\ plugin = p

TypeOK ==
  /\ plugin \in Plugins
  /\ given \in CommandLines[plugin]
  /\ c = << >> \/ DOMAIN c = Exposed(plugin)
  /\ step \in {"flags", "version", "validate", "logging", "statuses", "return"}
  /\ outcome \in {"none", "usage", "version", "error", "config"}
  /\ outcome # "none" <=> step = "return"

\* check_vmware_vhw runs one of four blocks, each guarded by a getter that spells
\* the conditions out again, and falls off the end of main with exit state OK and
\* no output when none applies: an accepted configuration selects exactly one
\* block, with usable thresholds if it is the outdated-by one.
OneHardwareMode ==
  Accepted("VirtualHardwareVersion") =>
    /\ Cardinality({i \in 1..4 : << ApplyMinVersionCheck, ApplyDefaultIsMinVersionCheck,
                                    ApplyOutdatedByVersionCheck,
                                    ApplyHomogeneousVersionCheck >>[i]}) = 1
    /\ ApplyOutdatedByVersionCheck =>
         0 < c["outdated-by-warning"] /\ c["outdated-by-warning"] < c["outdated-by-critical"]

\* The WARNING band of a plugin is never empty and never negative, also when one
\* threshold is given and the other is the default.
WarningBandExists ==
  outcome = "config" /\ ThresholdFlags \subseteq Exposed(plugin) =>
    0 <= c["warning"] /\ c["warning"] < c["critical"]

\* check_vmware_hs2ds2vms matches a host with a datastore by the values of two
\* Custom Attributes, split at two separators: an accepted configuration names
\* both, splits both or neither, and a shared name is the name of both.
AttributesPairUp ==
  Accepted("Host2Datastores2VMs") =>
    /\ HostCAName # NoText /\ DatastoreCAName # NoText
    /\ UsingSharedCA => HostCAName = DatastoreCAName
    /\ UsingCAPrefixes <=> HostCASep # NoText
    /\ UsingCAPrefixes <=> DatastoreCASep # NoText

\* What an accepted configuration gives the plugins fits together, however much of it
\* is given and how much is default.
AcceptedIsConsistent == WarningBandExists /\ AttributesPairUp

\* The exported status lists, which the filter uses, hold the keywords given, each
\* once, and no keyword that is not a status, although the check of validate does
\* not run.
StatusKeywordsKept ==
  Accepted("Alarms") =>
    \A pair \in { <<IncludedAlarmStatuses, c["include-status"]>>,
                  <<ExcludedAlarmStatuses, c["exclude-status"]>> } :
      /\ {pair[1][i] : i \in DOMAIN pair[1]} = {Lower[pair[2][i]] : i \in DOMAIN pair[2]}
      /\ \A i, j \in DOMAIN pair[1] : pair[1][i] = pair[1][j] => i = j
      /\ \A i \in DOMAIN pair[1] : pair[1][i] \in DOMAIN getTriggeredAlarmStatuses

-----------------------------------------------------------------------------
(* What comments say and the code does not do.                              *)

\* "assigns a list of valid/equivalent (and de-duplicated) ManagedEntityStatus
\* keywords to exported fields" (alarms.go, setAlarmStatuses).
StatusesAreVSphereStatuses ==
  Accepted("Alarms") =>
    \A i \in DOMAIN IncludedAlarmStatuses :
      \E k \in DOMAIN getTriggeredAlarmStatuses :
        IncludedAlarmStatuses[i] = getTriggeredAlarmStatuses[k]
=============================================================================
