# A formal model of check-vmware

check-vmware is a set of fifteen Nagios plugins that monitor a vSphere
environment. Each plugin is a process that parses its flags, logs in, sends a
few requests, computes one of four states (OK, WARNING, CRITICAL, UNKNOWN),
prints a summary and a report and exits with the state. Nothing is kept from
one run to the next and no goroutine is started. What is hard lies elsewhere:

* an answer is put together from several requests to a server whose inventory
  changes in the meantime;
* every request may fail, be late or be lost, and one deadline covers them all;
* deferred calls close views and the session on every path out of `main`;
* long pipelines of filters overwrite each other's marks;
* conditions on the flags are spelled out twice, in the validation and again
  where they are used;
* a monitoring plugin that says OK when it should not is worse than one that
  fails: the interesting properties say when OK may be reported.

## Components

| Component | Source | State | Operations | What makes it correct | Module |
|---|---|---|---|---|---|
| Triggered alarms | `internal/vsphere/alarms.go`, `get.go`, `cmd/check_vmware_alarms` | the alarms and four marks on each | retrieve, seven filter stages, evaluate, report | marks explained by the lists given, explicit exclusions stand, every alarm reported once, OK only when nothing is left | `AlarmMatching`, `FilterMarks`, `FilterLoop`, `AlarmFilter`, `AlarmVerdict` |
| Configuration | `internal/config` | the fields of `Config` | parse, validate, set up logging, translate status keywords, getters | an accepted configuration selects one behaviour with usable thresholds | `PluginConfig` |
| Selection of virtual machines | `resource-pools.go`, `vms.go`, `tools.go`, `cmd/check_vmware_tools` | pools, machines found, machines left | validate pools, list pools, search each, dedupe, filter, evaluate | each selected machine once, none missed that stays put | `VMSelection` |
| A plugin's run | `get.go`, `login.go`, every `cmd/*/main.go` | session and views at the server, exit state, what is printed | requests, deferred calls, exit | no verdict on partial data, one summary, nothing left at the server, it ends | `PluginRun` |
| Host/datastore pairing | `attributes.go`, `host-to-datastores.go`, `cmd/check_vmware_hs2ds2vms` | attributes, the index, the issues by name | three requests, read attributes, index, validate each machine | OK means paired, issues are mismatches | `HostDatastorePairing` |
| Virtual hardware | `hardware.go`, `cmd/check_vmware_vhw` | the versions read, an index of versions, the default version | retrieve pool by pool, look up the default version, newest, four evaluations | the verdict reflects versions that existed during the run; an alert names its machines | `HardwareVersions` (modes: `PluginConfig`) |
| Snapshots | `snapshots.go`, `cmd/check_vmware_snapshots_*` | a summary per snapshot with two flags | walk the tree, sum file sizes, three evaluations, two lists | no file counted twice or lost, the verdict is about the snapshots there are, every one listed | `SnapshotTree`, `SnapshotSets` |
| Thresholds | `datastores.go`, `hosts.go`, `cpu.go`, `vcpus.go`, `vms.go`, their mains | an amount, a capacity, the machines | measure, retrieve machines, compare | no value falls between two comparisons, also at a capacity of zero; machines that stay are seen | `Thresholds` |
| Questions, disk consolidation | `vms.go`, their mains | none | one evaluation each | any machine concerned is CRITICAL | `Thresholds` |
| Datacenters | `datacenters.go` | none | validate, list | | requests only, `PluginRun` |
| Reports, text helpers, logging, networks | rest of `internal` | none | formatting | | not modelled, but for the counts and lists |

The plugins interact with the server only: `config.New` hands a `Config` to
`main`, which calls `internal/vsphere` functions in order, which call govmomi.
`PluginRun` has these calls of every plugin as data; `VMSelection`,
`AlarmFilter`, `HostDatastorePairing`, `HardwareVersions`, `SnapshotSets` and
`Thresholds` each open some of them up.

## Modules

**`FilterMarks`** holds the four marks of a `TriggeredAlarm` (`Exclude`,
`ExplicitlyIncluded`, `ExplicitlyExcluded`, `ExcludeReason`), what one iteration
of a stage's loop does to them (`IncludeHit`, `IncludeMiss`, `ExcludeHit`) and a
closed form of the whole loop (`IncludeAll`, `ExcludeAll`). **`FilterLoop`** runs
the loop one comparison per step and is the justification of the closed form.
**`AlarmMatching`** says which comparisons a stage makes; text is opaque, with
its lower-case form and a containment relation as constants. **`AlarmFilter`**
is the plugin: `GetTriggeredAlarms` or `FetchAlarmsError`, the seven stages in
the order of `TriggeredAlarms.Filter`, `Evaluate`. **`AlarmVerdict`** is the
abstract specification: from the alarms and the flags to the alarms reported
and the exit state in one step, with no marks and no stages, or a failure.
`AlarmFilter` implements it by the refinement at the end of the module.

**`PluginConfig`** has one action per call of `config.New`. `Exposed` are the
flags a plugin type defines (`flags.go`), `Default` the constants, the operators
ending in `Valid` the blocks of `validate`, `setAlarmStatuses` the translation
of keywords with Go's random map order as a choice. The getters the plugins
branch on follow the specification. Two details are essential: `validate` reads
the exported status lists before `setAlarmStatuses` fills them, and
`setLoggingLevel` looks at the level as given where `validate` looks at its
lower-case form.

**`VMSelection`** has one action per request (`ValidateRPs`, `GetEligibleRPs`,
one `SearchNextPool` per pool) and one per local filter. Between them
administrators and DRS act: machines move, change their power state or their
tools state and are destroyed, pools are moved, renamed and destroyed. The
record of a machine is what the server knew when its pool was searched.

**`PluginRun`** has the calls of each `main` as data (`Program`): their order,
whether they use views or single fetches, the least and the most requests of
each, the states the evaluation may end in, and whether a logout is deferred. A
request is sent (`Send`) and then completes, with success, with an error, or
because the deadline has passed; a request that fails may have had its effect
at the server. `Expire` may happen between any two steps.

**`HostDatastorePairing`** starts once the machines are selected: it retrieves
machines, datastores and hosts by three requests between which the inventory
changes, reads the attributes, builds the index and validates the machines one
by one. `issues` is a function on names, as in the code, not on machines.

**`HardwareVersions`** is `check_vmware_vhw`. The machines come one by one, as
the searches of the pools bring them (`RetrieveVM`), while they are upgraded,
become unreadable, hosts move between clusters and clusters are destroyed. Then
`DefaultHardwareVersion` finds a compute resource, even when a host is given or
the mode has no use for it, and asks for its default. `Index` is the set of
versions read. `Newest` orders them as text (`TextKey`), `MeetsMinVersion` as
numbers. Each evaluation sets the exit state and the machines that the one-line
summary (`outdated`) and the report (`upgrade`) name. A machine without a
`Config`, or no machine at all, is a panic (`Panic`).

**`SnapshotTree`** is the environment of the snapshot plugins, modelled from what
they read: the tree with its current snapshot and, per disk, the chain of files
that a snapshot or the running machine uses. Taking a snapshot and reverting
start a new delta; removing one merges the deltas if a single branch goes on
from it. **`SnapshotSets`** is the three plugins: `crawlFunc` visits a snapshot
after its parent and removes from its file keys those its parent has
(`FileKeys`); `Evaluate` has the state and what the summary counts;
`ListExceeding` and `ListNotYet` are the two halves of the report. The clock is
a variable: `ExceedsAge` reads it each time, as `time.Since` does in the code.

**`Thresholds`** is the eight plugins that compare an amount with two
thresholds or look at a flag of each machine. What is measured, and the machines
listed with it, come from different requests: `MeasureDatastore` lists machines
that `GetVMsFromDatastore` looks up later among all machines; the pools
are searched one by one. A percentage is a comparison of products, not strict for datastores and
hosts and strict for the others; a capacity
of zero stands for a datastore that is not mounted (NaN, and no comparison with
it holds) and for a host whose hardware is unset (a nil pointer).

Each module ends with its properties; where the documentation or a comment says
something the code does not do and a run shows it, it is stated last, with the
quotation. Definitions introduced as *mutant of* some operator are variants with
a plausible mistake; they show that the property they are made for can fail.

## Runs

| Run | cfg | Question | Bounds |
|---|---|---|---|
| `filter_loop` | `MCFilterLoop` | does the loop compute the closed form, in any order of keywords | every marking a stage can find, up to 4 comparisons |
| `alarm_filter` | `MCAlarmFilter` | are marks explained, exclusions permanent, all alarms accounted for, when is it OK, and is the verdict the declarative one | two alarms, each one of eight; one or two lists of keywords in every two stages, include or exclude |
| `plugin_config` | `MCPluginConfig` | what can an accepted configuration be | all fifteen plugin types, sets of values around each limit checked |
| `vm_selection` | `MCVMSelection` | which machines are evaluated, and the verdict | a root pool with two nested pools, two machines, one change at any moment of a run |
| `plugin_run` | `MCPluginRun` | does a run end, with what, leaving what | six plugins, one of each form of `main` (the others differ in names only), at most two requests of a call that loops |
| `hardware_versions` | `MCHardwareVersions` | what does a verdict say of versions that change during the run; does an alert name its machines | two machines, versions 9, 10, 13 and 14, two clusters, one host, two changes |
| `snapshots` | `MCSnapshotSets` | which files count, what is the verdict about, is every snapshot listed | five operations on one machine and one on another, three snapshots, two disks, three days |
| `thresholds` | `MCThresholds` | is the verdict that of the thresholds, are machines that stay seen | two machines, two nested pools and one beside them, amounts 0 to 3 of 4 with thresholds at 2 and 3, two changes |
| `pairing` | `MCHostDatastorePairing` | what is reported and why, what does OK mean when things change | two hosts, three datastores, two machines with one name or two, one change between the requests |

The bounds are the smallest in which the cases the properties are about occur.
Two comparisons are enough for a hit before a miss and a miss before a hit; a
third and fourth show that longer lists add nothing. No stage reads another
alarm's marks: the second alarm is there for the counts, the lists of the report
and the worst state. Two stages with lists are enough for a mark set by one and
cleared by another, and the proofs cover all of them. Nested pools are needed for overlapping views, a
change for stale records. Two rounds distinguish a view that is left open from
one that is closed. Five operations are enough to take three snapshots and
remove two, to revert to a root and remove it, and to branch and remove the
branching point; a third disk repeats the second. Versions on both sides of the
step from one digit to two are where text and number disagree, and
`HardwareVersionsProofs` covers all others. `CHECK_DEADLOCK FALSE` stands in
every cfg: each of these systems is a process that ends.

Three more runs check one property each that documentation or a comment of the
program states and the code does not keep; they are expected to end in a
counterexample and are listed as findings in `PROJECT.json`:

| Run | Property | What the counterexample shows |
|---|---|---|
| `config_statuses` | `StatusesAreVSphereStatuses` | `critical` is kept and matches no alarm |
| `vm_excluded_pools` | `ExcludedPoolsIgnored` | machines of an excluded pool are found through its parents |
| `hardware_baseline` | `LatestVersionIsBaseline` | machines at 9 and 13 are OK in the outdated mode: the baseline is 9 |

## Observed divergences without a run

The models do what the code does in these places too; each was met in the source or in
a counterexample while the modules were written.

* "when a CRITICAL threshold is reached" (`constants.go:29`; all threshold flags of the
  percentages, snapshots and uptime say "is reached": `constants.go:29-30, 40-41, 45-50,
  52-55, 57-60`, and `README.md:833-834, 934-935, 955-956, 976-977, 997-998, 1058-1059`
  of the repository). Only datastores and hosts compare with `>=` and do so
  (`datastores.go:72-81`, `hosts.go:137-159`). vCPUs (`cmd/check_vmware_vcpus/main.go:246`,
  `281`), Resource Pool memory (`cmd/check_vmware_rps_memory/main.go:284`, `316`), uptime
  (`vms.go:451`, `533`, `536`) and the age, count and size of snapshots
  (`snapshots.go:33`, `51`, `962-963`) compare strictly: with the default of 4, four snapshots
  are OK. The comments and errors of these plugins say "exceeds" (`vcpus.go:24`,
  `snapshots.go:29`) and the tables of states "crossed" (`README.md:650`).
  `QuietVerdictIsExact` and `VerdictMatchesSnapshots` state the boundary of the code,
  equality excluded; that they hold says nothing in favour of it. Read as the help reads
  it, with a threshold that is reached, both would be violated, by an amount, count, size or
  age equal to its threshold; the bounds of both runs have such values.
* `alarms.go:88` says that `ExcludeReason` explains an exclusion. It is written by
  every miss (`alarms.go:1366`) and not cleared by a later inclusion, so that an
  alarm may be listed under the reason of a stage that accepts it.
* An alarm that the include list of one stage has matched is evaluated whatever
  the include lists of the other stages say (`alarms.go:1355`), where the help of
  each flag reads as if all had to match.
* `resource-pools.go:186` relies on validation to reject both Resource Pool lists
  at once; for the disk consolidation and question plugins it does not.
* The checks on the status lists (`validate.go:553`: both lists given, `green` or
  `ok`) look at exported lists that are filled later, and never run. No property says
  that they do; `StatusKeywordsKept` is about what `setAlarmStatuses` makes of the lists.
* `host-to-datastores.go:449` builds the list of hosts without the attribute from
  the index, where a host without a pairing has no entry.
* `host-to-datastores.go:160` compares literal values with prefixes as well.
* "case-insensitively matches one of the specified substring values"
  (`README.md:1122`, and the comment at `alarms.go:1349`): only the literal match
  ignores the case, `strings.Contains` at line 1352 does not, so that
  `datastore usage` does not match `Datastore usage on disk`.
* "the matching ResourcePool and the parent ResourcePool" (`get.go:422`): the
  second request, line 461, is for the pool itself, whose name is returned twice.
* "the one-line summary needed by Nagios" (`README.md:178`): when `DestroyView`
  fails, `get.go:242` prints a line to stdout before `main` has printed anything.
  `SummaryIsPrinted` does not exclude that line.
* "datastores, and both hosts and datastores that are missing the specified
  Custom Attribute" may be ignored (`README.md:273`): an object with other
  attributes yields the error of `attributes.go:70`, which `ignore-missing-ca`
  does not forgive.
* "listing any snapshots which have exceeded thresholds along with any snapshots
  which have not yet exceeded them" (`snapshots.go:1166`): the guard of the second
  list reads the clock again, so that it is left out when all snapshots that were
  young have crossed the threshold since; `ReportAccountsForSnapshots` has this
  exception.
* The files below a snapshot with several branches are counted for each branch or
  for none once it is removed; `GrowthCountedOnce` excludes these trees.
* "If a host name is supplied, it will be used to obtain the default hardware
  version" (`hardware.go:71`): the compute resource is looked up first all the
  same, and a vCenter with several clusters fails, also in modes that have no use
  for a default version.
* `README.md:866` gives `default-is-min-version` the type and the CRITICAL state of
  `minimum-version`; it is a switch and its state is WARNING.
* `README.md:955` and `:956` have the defaults of the snapshot counts swapped, and
  `:998` gives 100 for a default of 80.
* In the homogeneous mode the minimum of the summary is the newest version as
  text: with versions 9 and 13 a WARNING names no machine to upgrade.

## Fairness

Only `PluginRun` has liveness properties. `WF(Local)`: the process is not
suspended. `WF(Expire)`: the timer of `context.WithTimeout` goes off.
`WF(expired /\ Completion)`: a request bound to an expired context returns,
which is what govmomi's HTTP client does. That a reply comes in time is never
assumed. Each is needed: without the timer a run may wait for a reply for good.
`Terminates` and `LateIsAnError` follow from these three.

## Proofs

Proved by TLAPS for every value of the constants that satisfies their
assumptions (any alarms, texts, keyword lists, flags):

`AlarmFilterProofs`
* of the loop of a stage: `LoopTypeCorrect`; `LoopComputesClosedForm`, by induction
  along the loop, with one lemma per kind of list saying how the closed form for
  n+1 comparisons follows from the one for n; `VerdictIgnoresKeywordOrder` from it;
* of the pipeline: `TypeCorrect`, `MarksAlwaysExplained`, `ExclusionIsPermanent`,
  `InclusionIsKept`, `OKIsSound`, `ReportIsComplete`,
  `PipelineImplementsVerdict`.

The inductive invariant `IInv` is `TypeOK`, that the alarms are retrieved once
the stage says so (`Retrieval`), and `MarksExplained`; `Outcome` adds what holds
once the run is done. `MarksExplained` says of each alarm which of the stages
that have run exclude or include it and which marks follow. It is what makes
the argument go through: the effect of a stage depends on the marks it finds,
so that permanence or soundness of OK alone are not inductive, while from
`MarksExplained` before a stage and the closed form of its loop it follows after
the stage, one lemma for stages with an include list, one for exclude lists.
At the end no stage is left to run and it is the declarative verdict of
`AlarmVerdict`, which gives the refinement.

`HardwareVersionsProofs`
* `TypeCorrect`, `VerdictByVersions`, `SummaryCorrect`.

The invariant adds to the types that every version read lies between the version
of that machine when the run began and its version now (`Between`), and both
properties. `Between` is what upgrades and searches preserve; the verdict then
follows for each mode from where its baseline lies. That the newest version
exists is an induction on natural numbers by well-foundedness; that text and
number agree on it needs versions of one length (`NewestIsHighest`).

`PluginRunProofs`
* `TypeCorrect`, `OneViewOnly`, `NothingLeft`, `VerdictOnAllData`,
  `SummaryAlwaysPrinted`.

One invariant for each question, each proved from the ones before. `Types` adds to
`TypeOK` that a view in use was created. `Server` counts: there is one view exactly
from its creation to its destruction and a session until the logout, unless a
request that opens or closes one has failed. `Verdict` says that no exit state
is set before the deferred calls and that data can be missing only while the
failing call destroys its view, which is why an error cannot be overtaken by the
evaluation. `Exit` says that no summary is printed before the process exits.

`HostDatastorePairingProofs`
* `TypeCorrect`, `OKIsSound`, `IssuesAreExact`, `AlertsAreCaused`.

The invariant has four parts: names and types (`Typed`); what was retrieved of an
object that was not touched since is what the inventory has (`Current`), which
every change of the inventory preserves because it notes the object it touches;
the index has the datastores that match each host (`Indexed`); and the issues are
the mismatches of the machines validated so far (`Outcomes`), under names that
several machines may share.

`PluginConfigProofs`
* `TypeCorrect`, `HardwareModeUnique`, `AcceptedFitsTogether`,
  `StatusListsComplete`.

The invariant adds that the fields have the flags' types once they are bound
(`Bound`) and that nothing gets beyond `validate` that is not valid (`Validated`).
The four modes are then a case distinction over the conditions of `HardwareValid`.
`StatusListsComplete` holds for every order in which Go may iterate over the map:
a sequence as long as the finite set it lists repeats nothing (`KeysOnce`).

`VMSelectionProofs`
* `TypeCorrect`, `VMsEvaluatedOnce`, `QuietRunSelectsExactly`, `NoSteadyVMMissed`,
  `VerdictOfTools`.

The invariant says how far each stage has brought the run (`Progress`); that the
record of a machine that was not touched is what the inventory has, and that such a
machine in a pool already searched has a record (`Current`), which the changes
preserve because each notes the machines it touches; that after deduplication the
lists hold each machine once, in the order of names, and exactly what the filters
keep (`Lists`); that without changes the pools and machines found are those the
flags select (`Quiet`); and what the verdict says of the last list (`Evaluated`).
The lemmas about lists say what is appended in a loop (`AppendedElements`: the
elements chosen, each index once, in their order) and that a list of different
elements as long as a finite set has all of them (`AllListed`); the model states
what a loop appends by that property, so that no recursion is left.

`ThresholdsProofs`
* `TypeCorrect`, `QuietVerdict`, `SteadyMachinesAreCounted`.

The invariant has the progress of the run, what is recorded of machines that stay
as they are (`Current`), what was measured when nothing changes (`Sampled`) and
what the evaluation makes of both (`Judged`). The verdicts are about sums over sets
of machines and pools, computed by a recursive function. Induction is said of a set
of numbers (`Induction`) and of a family of subsets (`SubsetInduction`), which takes
no operator as a parameter. By it the function exists (`AddsExists`), has one value
in whichever order elements are taken (`AnyOrder`), and the sum over a union is that
of its parts or less (`SumUnion`). From there: nested pools count a machine at least
once, and exactly once when they are disjoint (`MemoryOfMachines`), and steady
machines alone bound the amount from below.

`SnapshotSetsProofs`
* `TypeCorrect`, `FilesCountedOnce`, `VerdictIsAboutSnapshots`, `ReportIsComplete`.

The invariant has two halves. Of the machines (`Trees`), kept by every operation of
vSphere: the parents lead to a root and the files are numbered by the operations
(`Rooted`, `Numbered`), and, unless a snapshot with several branches was removed,
there is one root and every file was begun by one state only, a snapshot or the
running machine (`Connected`). The last is what a property of the files alone would
lack: a new delta has a number no file has yet, and removing a snapshot with one
branch hands the files it began over to the state that goes on from it
(`WithoutState`). Of the run: there is one summary of each snapshot visited, with its
files and ages compared between the retrieval and now (`Summarised`), and verdict and
lists are what follows from the summaries (`Judged`). The files counted for a snapshot
are those it began, the current one's with the running machine's
(`KeysOfSnapshots`), so they are disjoint, and the sizes of disjoint parts add up to
that of the whole (`SumOfParts`, with the same induction over subsets as in
`ThresholdsProofs`).

The proofs assume what the constants' assumptions say: folding is idempotent,
a text contains itself, the flags passed validation (so thresholds are ordered), no
alarm is green (vSphere does not trigger those), finitely many alarms, versions below
100, the values of flags have the types the flag package parses, the bound on the
requests of a call that loops is at least one, no machine starts on a destroyed
datastore, machines and pools are at first in pools that exist, there are finitely
many machines, disks, snapshots and file numbers, and the data file of a snapshot is
none of a disk's.

Model-checked only: the liveness of `PluginRun` (`Terminates`, `LateIsAnError`), as it
rests on fairness, and the three properties that are violated, which are found by
counterexample.

## Not modelled

Text of summaries and reports, logging, the help text, the parsing of numbers
and comma-separated lists by the flag package, TLS and authentication,
`networks.go` and `GetVMByName` (not used). The Finder requests inside
`getObjectByName` count as one kind of request. In `VMSelection` the records of
machines hold the power and tools state only; the evaluations of other plugins
start from the selected machines. `SnapshotSets` retrieves the machines at once
and a run takes less than a day; sizes are natural numbers (an int64 in the code
that no datastore can overflow), vCPUs as well.

## Plan

1. A composition of `PluginConfig` with `AlarmFilter`: the settings the filter is
   given are those an accepted command line leads to.
2. `VMSelection` with the names and identities that `GetVMsFromDatastore` needs,
   so that `Thresholds` can start from it rather than from a set of containers.
