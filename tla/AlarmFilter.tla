----------------------------- MODULE AlarmFilter -----------------------------
(***************************************************************************)
(* check_vmware_alarms from the retrieval of the triggered alarms to its   *)
(* verdict: GetTriggeredAlarms, the filtering pipeline                     *)
(* (TriggeredAlarms.Filter, internal/vsphere/alarms.go), and the           *)
(* evaluation and report of cmd/check_vmware_alarms/main.go.               *)
(***************************************************************************)
EXTENDS AlarmMatching, FilterMarks, FiniteSets

CONSTANTS Alarms,          \* keys of the alarms that may be triggered
          NoPool,          \* the entity is in no Resource Pool the account can see
          AlarmStates,     \* the triggered alarms vSphere may report
          FilterSettings   \* the filter flags the plugin may be given

KeywordLists == [Lists -> Seq(Texts)]

Flags == [evalAcknowledged : BOOLEAN, include : KeywordLists, exclude : KeywordLists]

\* FilterSettings are the flags that pass Config.validate: at most one of the
\* include and the exclude list of a stage is given.  The status lists are not
\* held to that (see PluginConfig).  vSphere does not trigger alarms for
\* the green status (internal/config/alarms.go).
ASSUME AlarmAssumption ==
  /\ AlarmStates \subseteq [type : Texts, name : Texts, description : Texts,
                            status : Texts, entityName : Texts,
                            acknowledged : BOOLEAN, pool : Texts \cup {NoPool}]
  /\ \A w \in AlarmStates : w.status # "green"
  /\ FilterSettings \subseteq Flags
  /\ \A f \in FilterSettings, l \in Lists \ {"status"} :
        f.include[l] = << >> \/ f.exclude[l] = << >>
  /\ IsFiniteSet(Alarms)

\* The reason each stage records.
AckReason == "acknowledged"
ASSUME ReasonsAssumption == Reasons = Lists \cup {AckReason}

\* The order of the calls in Filter, between the retrieval and the evaluation.
Rank == [retrieve |-> 0, acknowledged |-> 1, type |-> 2, name |-> 3,
         description |-> 4, status |-> 5, entityName |-> 6, pool |-> 7,
         evaluate |-> 8, done |-> 9]

VARIABLES world,           \* the triggered alarms in vSphere
          filters,         \* the filter flags
          alarm,           \* the TriggeredAlarms collection: what was retrieved
          mark,            \* ... and the marks on it
          stage,           \* what comes next, a member of DOMAIN Rank
          exitState,       \* nagiosExitState.ExitStatusCode
          lastError,       \* nagiosExitState.LastError is set
          report           \* the summary and the report

vars == <<world, filters, alarm, mark, stage, exitState, lastError, report>>

Triggered == DOMAIN world

NoReport == [count |-> 0, listed |-> {}, excluded |-> << >>]

Init == /\ world \in UNION {[S -> AlarmStates] : S \in SUBSET Alarms}
        /\ filters \in FilterSettings
        /\ alarm = << >>
        /\ mark = << >>
        /\ stage = "retrieve"
        /\ exitState = "none"
        /\ lastError = FALSE
        /\ report = NoReport

-----------------------------------------------------------------------------
(* Retrieval.                                                               *)

\* The names getResourcePools finds for the entity of an alarm.  For a Resource
\* Pool it fetches the pool twice: the second request is for rp.Self, not for
\* the parent of the pool.
getResourcePools(w) ==
  CASE w.type = "ResourcePool"   -> <<w.entityName, w.entityName>>
    [] w.type = "VirtualMachine" -> <<w.pool>>
    [] OTHER                     -> << >>

Retrieved(w) ==
  [type |-> w.type, name |-> w.name, description |-> w.description,
   status |-> w.status, entityName |-> w.entityName,
   acknowledged |-> w.acknowledged, pools |-> getResourcePools(w)]

\* A virtual machine whose Resource Pool the account cannot see is an error
\* for the whole retrieval.
Unreadable(w) == w.type = "VirtualMachine" /\ w.pool = NoPool

\* Mutant of GetTriggeredAlarms: skips the alarms it cannot read.
GetReadableAlarms ==
  /\ stage = "retrieve"
  /\ alarm' = [a \in {b \in Triggered : ~ Unreadable(world[b])} |-> Retrieved(world[a])]
  /\ mark' = [a \in DOMAIN alarm' |-> Unmarked]
  /\ stage' = IF Triggered = {} THEN "evaluate" ELSE AckReason
  /\ UNCHANGED <<world, filters, exitState, lastError, report>>

GetTriggeredAlarms ==
  /\ stage = "retrieve"
  /\ \A a \in Triggered : ~ Unreadable(world[a])
  /\ alarm' = [a \in Triggered |-> Retrieved(world[a])]
  /\ mark' = [a \in Triggered |-> Unmarked]
  /\ stage' = IF Triggered = {} THEN "evaluate" ELSE AckReason
  /\ UNCHANGED <<world, filters, exitState, lastError, report>>

\* One of the requests fails, or a virtual machine has no visible pool.
FetchAlarmsError ==
  /\ stage = "retrieve"
  /\ exitState' = "CRITICAL"
  /\ lastError' = TRUE
  /\ stage' = "done"
  /\ UNCHANGED <<world, filters, alarm, mark, report>>
-----------------------------------------------------------------------------
(* The pipeline.  Every stage goes over all the alarms.                      *)

AtStage(name) == /\ stage = name
                 /\ stage' \in {s \in DOMAIN Rank : Rank[s] = Rank[stage] + 1}
                 /\ UNCHANGED <<world, filters, alarm, exitState, lastError, report>>

\* What a stage with keyword lists does to the marks of one alarm: nothing when
\* both lists are empty, the include list alone when there is one.
StageMark(list, a) ==
  IF filters.include[list] # << >>
  THEN IncludeAll(mark[a], Tests(list, alarm[a], filters.include[list]), list)
  ELSE IF filters.exclude[list] # << >>
  THEN ExcludeAll(mark[a], Tests(list, alarm[a], filters.exclude[list]), list)
  ELSE mark[a]

FilterByAcknowledgedState ==
  /\ AtStage(AckReason)
  /\ mark' = [a \in DOMAIN mark |->
                IF alarm[a].acknowledged /\ ~ filters.evalAcknowledged
                THEN ExcludeHit(mark[a], AckReason) ELSE mark[a]]

filterByEntityType ==
  AtStage("type") /\ mark' = [a \in DOMAIN mark |-> StageMark("type", a)]

\* Filter calls it for the name and the description of the alarm and for the
\* name of the entity.
filterBySubstring(field) ==
  AtStage(field) /\ mark' = [a \in DOMAIN mark |-> StageMark(field, a)]

filterByStatus ==
  AtStage("status") /\ mark' = [a \in DOMAIN mark |-> StageMark("status", a)]

filterByEntityResourcePool ==
  AtStage("pool") /\ mark' = [a \in DOMAIN mark |-> StageMark("pool", a)]

Filter == \/ FilterByAcknowledgedState
          \/ filterByEntityType
          \/ \E field \in {"name", "description", "entityName"} : filterBySubstring(field)
          \/ filterByStatus
          \/ filterByEntityResourcePool
-----------------------------------------------------------------------------
(* Evaluation.                                                              *)

\* Mutant of EntityStatusToNagiosState: an unknown status is no reason for concern.
EntityStatusGrayIsOK(status) ==
  CASE status \in {"gray", "green"} -> "OK"
    [] status = "yellow" -> "WARNING"
    [] OTHER             -> "CRITICAL"

EntityStatusToNagiosState(status) ==
  CASE status = "gray"   -> "UNKNOWN"
    [] status = "green"  -> "OK"
    [] status = "yellow" -> "WARNING"
    [] status = "red"    -> "CRITICAL"
    [] OTHER             -> "CRITICAL"

\* Mutant of HasState: looks at the excluded alarms too.
HasStateOfAny(state) == \E a \in DOMAIN alarm : EntityStatusToNagiosState(alarm[a].status) = state

\* HasCriticalState(false), HasWarningState(false), HasUnknownState(false).
HasState(state) == \E a \in DOMAIN alarm :
                      /\ ~ mark[a].Exclude
                      /\ EntityStatusToNagiosState(alarm[a].status) = state

IsOKState == ~ HasState("CRITICAL") /\ ~ HasState("WARNING") /\ ~ HasState("UNKNOWN")

\* Mutant of NumExcluded: counts explicit exclusions only.
NumExplicitlyExcluded == Cardinality({a \in DOMAIN mark : mark[a].ExplicitlyExcluded})

\* Excluded() looks at both flags, the report at Exclude alone.
NumExcluded == Cardinality({a \in DOMAIN mark : mark[a].ExplicitlyExcluded \/ mark[a].Exclude})

NumToReport == Cardinality(DOMAIN mark) - NumExcluded

\* AlarmsOneLineCheckSummary and AlarmsReport: the number in the summary line
\* and the two lists of alarms, the excluded ones with their reasons.
AlarmsReport ==
  [count    |-> IF IsOKState THEN 0 ELSE NumToReport,
   listed   |-> IF NumToReport = 0 THEN {} ELSE {a \in DOMAIN mark : ~ mark[a].Exclude},
   excluded |-> IF NumExcluded = 0 THEN << >>
                ELSE [a \in {b \in DOMAIN mark : mark[b].Exclude} |-> mark[a].ExcludeReason]]

Evaluate ==
  /\ stage = "evaluate"
  /\ exitState' = IF HasState("CRITICAL") THEN "CRITICAL"
                  ELSE IF HasState("WARNING") THEN "WARNING"
                  ELSE IF HasState("UNKNOWN") THEN "UNKNOWN"
                  ELSE "OK"
  /\ lastError' = ~ IsOKState
  /\ report' = AlarmsReport
  /\ stage' = "done"
  /\ UNCHANGED <<world, filters, alarm, mark>>

Next == GetTriggeredAlarms \/ FetchAlarmsError \/ Filter \/ Evaluate

Spec == Init /\ [][Next]_vars
-----------------------------------------------------------------------------
(* Properties.                                                              *)

TypeOK ==
  /\ Triggered \subseteq Alarms /\ world \in [Triggered -> AlarmStates]
  /\ filters \in Flags
  /\ alarm \in {<< >>, [a \in Triggered |-> Retrieved(world[a])]}
  /\ DOMAIN mark = DOMAIN alarm
  /\ \A a \in DOMAIN mark : mark[a] \in Marks
  /\ stage \in DOMAIN Rank
  /\ exitState \in {"none", "OK", "WARNING", "CRITICAL", "UNKNOWN"}
  /\ lastError \in BOOLEAN

\* The filter stages that have run.
Ran(reason) == Rank[reason] < Rank[stage]

\* The stages so far say about alarm a ...
ExplicitlyExcludedSoFar(a) ==
  \/ Ran(AckReason) /\ alarm[a].acknowledged /\ ~ filters.evalAcknowledged
  \/ \E l \in Lists : /\ Ran(l)
                      /\ filters.include[l] = << >>
                      /\ AnyMatch(l, alarm[a], filters.exclude[l])

SomeIncludeListSoFar == \E l \in Lists : Ran(l) /\ filters.include[l] # << >>

IncludedSoFar(a) ==
  \E l \in Lists : Ran(l) /\ AnyMatch(l, alarm[a], filters.include[l])

\* The marks on an alarm are explained by the stages that have run, however the
\* stages with include lists and those with exclude lists alternate: an alarm is
\* excluded exactly when an exclude list or its acknowledgement drops it, or
\* include lists were given and none of them has matched it.
Explained(a) ==
  /\ mark[a].ExplicitlyExcluded <=> ExplicitlyExcludedSoFar(a)
  /\ mark[a].Exclude <=> \/ ExplicitlyExcludedSoFar(a)
                         \/ SomeIncludeListSoFar /\ ~ IncludedSoFar(a)
  /\ mark[a].ExplicitlyIncluded => IncludedSoFar(a)
  /\ IncludedSoFar(a) /\ ~ ExplicitlyExcludedSoFar(a) => mark[a].ExplicitlyIncluded

MarksExplained == \A a \in DOMAIN mark : Explained(a)

\* "Explicitly (permanently)" excluded (Excluded, alarms.go): no later stage
\* brings an alarm back that a stage has excluded explicitly.
ExplicitExclusionIsPermanent ==
  [][\A a \in DOMAIN mark : mark[a].ExplicitlyExcluded =>
        /\ a \in DOMAIN mark'
        /\ mark'[a].ExplicitlyExcluded
        /\ mark'[a].Exclude]_vars

\* An alarm marked for explicit inclusion "is not dropped by later explicit
\* inclusion filtering steps in the pipeline": only an exclude list or the
\* acknowledgement stage takes it out.
InclusionLostOnlyToExclusion ==
  [][\A a \in DOMAIN mark :
        mark[a].ExplicitlyIncluded /\ ~ mark[a].Exclude /\ mark'[a].Exclude
          => mark'[a].ExplicitlyExcluded]_vars

\* The report accounts for every triggered alarm once: the number in the summary
\* and the "evaluated" and "ignored" totals are the lengths of the two lists,
\* though one is computed from Excluded() and the other from Exclude.
ReportAccountsForAlarms ==
  stage = "done" /\ ~ (lastError /\ report = NoReport) =>
    /\ report.listed \cup DOMAIN report.excluded = Triggered
    /\ report.listed \cap DOMAIN report.excluded = {}
    /\ Cardinality(report.listed) = NumToReport
    /\ report.count = Cardinality(report.listed)

\* OK is never reported while an alarm is left after filtering or could not be
\* retrieved, and never withheld when all were filtered out.
OKMeansNothingLeft ==
  stage = "done" => (exitState = "OK" <=> DOMAIN alarm = Triggered /\ ~ lastError
                                          /\ report.listed = {})

\* The pipeline implements the declarative verdict of AlarmVerdict.
Verdict == INSTANCE AlarmVerdict WITH
  alarm     <- [a \in Triggered |-> Retrieved(world[a])],
  phase     <- IF stage # "done" THEN "triggered"
               ELSE IF lastError /\ report = NoReport THEN "failed" ELSE "decided",
  reported  <- IF stage = "done" THEN report.listed ELSE {},
  exitState <- exitState

ImplementsVerdict == Verdict!Spec
=============================================================================
