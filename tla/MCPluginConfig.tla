--------------------------- MODULE MCPluginConfig ---------------------------
(***************************************************************************)
(* Command lines for PluginConfig.                                         *)
(***************************************************************************)
EXTENDS PluginConfig, TLC

MCPlugins == {"Tools", "InteractiveQuestion", "DiskConsolidation", "SnapshotsAge",
              "SnapshotsCount", "SnapshotsSize", "VirtualMachinePowerCycleUptime",
              "DatastoresSize", "HostSystemCPU", "HostSystemMemory",
              "VirtualCPUsAllocation", "ResourcePoolsMemory",
              "VirtualHardwareVersion", "Host2Datastores2VMs", "Alarms"}

MCLogLevels == {"info", "debug"}

MCKeywords == {"red", "critical", "Critical", "yellow", "ok", "bogus"}

MCLower == [k \in MCLogLevels \cup MCKeywords \cup
                  {"INFO", "verbose", "warning", "green", "gray", "unknown"} |->
              CASE k = "INFO" -> "info" [] k = "Critical" -> "critical" [] OTHER -> k]

\* The flag is absent, or has one of the values.
Maybe(flag, values) == {<< >>} \cup {flag :> v : v \in values}

Both(A, B) == {a @@ b : a \in A, b \in B}

\* Every plugin: with and without credentials, version request and log level.
SharedLines == {"credentials" :> TRUE, << >>, "version" :> TRUE,
                "credentials" :> TRUE @@ "log-level" :> "INFO",
                "credentials" :> TRUE @@ "log-level" :> "verbose",
                "credentials" :> TRUE @@ "timeout" :> 0}

Good == {"credentials" :> TRUE}

RPLines == Both(Maybe("include-rp", {TRUE}), Maybe("exclude-rp", {TRUE}))

\* On, just beyond and far beyond the defaults and the lowest values.
ThresholdLines(w, k) ==
  Both(Maybe("warning", {-1, 0, 1, w - 1, w, w + 1, k}),
       Maybe("critical", {-1, 0, 1, w, w + 1, k, k + 1}))

HardwareLines ==
  Both(Both(Maybe("host-name", {"esx1"}), Maybe("cluster-name", {"cl1", OverlongName})),
       Both(Both(Maybe("minimum-version", {-1, 2, 3, 15}), Maybe("default-is-min-version", {TRUE, FALSE})),
            Both(Maybe("outdated-by-warning", {-1, 0, 1, 2}),
                 Maybe("outdated-by-critical", {-1, 0, 1, 2}))))

AttributeLines ==
  Both(Both(Both(Maybe("ca-name", {"Location"}), Maybe("host-ca-name", {"Host", "Location"})),
            Maybe("ds-ca-name", {"Datastore"})),
       Both(Both(Maybe("ca-prefix-sep", {"-"}), Maybe("host-ca-prefix-sep", {":"})),
            Maybe("ds-ca-prefix-sep", {"_"})))

StatusLists == {<<k>> : k \in MCKeywords} \cup {<<"red", "Critical">>, <<"Critical", "critical">>,
                <<"red", "yellow">>, <<"yellow", "bogus">>}

AlarmLines ==
  Both(Both(Maybe("alarm-include", {{"name"}, {"name", "desc"}}), Maybe("alarm-exclude", {{"name"}})),
       Both(Maybe("include-status", StatusLists), Maybe("exclude-status", StatusLists)))

LinesOf(p) ==
  CASE p \in {"Tools", "InteractiveQuestion", "DiskConsolidation"} ->
         Both(SharedLines, RPLines) \cup {"minimum-version" :> 3}
    [] p = "SnapshotsAge" -> Both(Good, Both(RPLines, ThresholdLines(1, 2)))
    [] p = "SnapshotsCount" -> Both(Good, Both(RPLines, ThresholdLines(4, 25)))
    [] p = "SnapshotsSize" -> Both(Good, Both(RPLines, ThresholdLines(20, 40)))
    [] p = "VirtualMachinePowerCycleUptime" -> Both(Good, Both(RPLines, ThresholdLines(60, 90)))
    [] p = "DatastoresSize" -> Both(Good, Both(Maybe("ds-name", {"ds1"}), ThresholdLines(90, 95)))
    [] p \in {"HostSystemCPU", "HostSystemMemory"} -> Both(Good, Both(Maybe("host-name", {"esx1"}), ThresholdLines(80, 95)))
    [] p = "VirtualCPUsAllocation" ->
         Both(Good, Both(Maybe("max-allowed", {0, 1}), ThresholdLines(95, 100)))
    [] p = "ResourcePoolsMemory" ->
         Both(Good, Both(Maybe("max-allowed", {0, 1}), Both(RPLines, ThresholdLines(80, 95))))
    [] p = "VirtualHardwareVersion" -> Both(Good, HardwareLines)
    [] p = "Host2Datastores2VMs" -> Both(Good, Both(RPLines, AttributeLines))
    [] p = "Alarms" -> Both(Good, AlarmLines)

MCCommandLines == [p \in MCPlugins |-> LinesOf(p)]

\* The plugins a comment or a test is about, for the runs that check one statement.
MCRPPlugins == {"InteractiveQuestion"}
MCAlarmsOnly == {"Alarms"}
=============================================================================
