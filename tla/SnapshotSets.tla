---------------------------- MODULE SnapshotSets ----------------------------
(***************************************************************************)
(* check_vmware_snapshots_age, _count and _size after the machines are     *)
(* selected: FilterVMsWithSnapshots, NewSnapshotSummarySet, the verdict,   *)
(* the summary and the two lists of the report                             *)
(* (internal/vsphere/snapshots.go).  The clock is read anew for every      *)
(* comparison with an age, so that it may go on between the steps.         *)
(***************************************************************************)
EXTENDS SnapshotTree, Integers, FiniteSetsExt

CONSTANTS Rank,                            \* orders the machines by name
          SizeOf,                          \* of every file, in units of 1/GB
          GB,
          AgeWarning, AgeCritical,         \* in days
          CountWarning, CountCritical,
          SizeWarning, SizeCritical        \* in GB

\* What validate requires of the thresholds.
ASSUME SetsAssumption ==
  /\ Rank \in [VMs -> Nat] /\ SizeOf \in [Files \cup Snaps -> Nat] /\ GB \in Nat \ {0}
  /\ {AgeWarning, AgeCritical, CountWarning, CountCritical, SizeWarning, SizeCritical} \subseteq Nat
  /\ AgeWarning < AgeCritical /\ CountWarning < CountCritical /\ SizeWarning < SizeCritical

VARIABLES mode,         \* which of the three plugins runs
          stage,
          started,      \* when the machines were retrieved
          summaries,    \* the SnapshotSummary values of all sets
          exitState,
          panicked,
          older,        \* the snapshots and machines the one-line summary counts
          exceeding,    \* the first list of the report
          notYet        \* ... and the second

vars == <<tree, mode, stage, started, summaries, exitState, panicked, older, exceeding, notYet>>

Summary == [vm : VMs, snap : Snaps, keys : SUBSET (Files \cup Snaps),
            ageWarning : BOOLEAN, ageCritical : BOOLEAN]

Init == /\ TreeInit
        /\ mode = "none"
        /\ stage = "select"
        /\ started = 0
        /\ summaries = {}
        /\ exitState = "none"
        /\ panicked = FALSE
        /\ older = [vms |-> 0, snaps |-> 0]
        /\ exceeding = {} /\ notYet = {}

\* A run takes less than a day; what happens to the machines after they were
\* retrieved is of no consequence to it.
Environment == /\ \/ stage = "select" /\ TreeStep
                  \/ stage # "select" /\ now = started /\ Tick
               /\ UNCHANGED <<mode, stage, started, summaries, exitState, panicked,
                              older, exceeding, notYet>>

WithSnapshots == {v \in VMs : vm[v].live # {}}

\* One of the plugins is run.
FilterVMsWithSnapshots ==
  /\ stage = "select"
  /\ mode' \in {"age", "count", "size"}
  /\ stage' = "sets"
  /\ started' = now
  /\ UNCHANGED <<tree, summaries, exitState, panicked, older, exceeding, notYet>>

ExceedsAge(v, s, days, t) == vm[v].created[s] + days < t

\* Mutant of FileKeys: removes the files of the running machine, not those of the parent.
FileKeysOfActive(v, s) ==
  LET own      == AllFiles(vm[v].layout[s])
      attached == AllFiles(vm[v].disk)
  IN {s} \cup (own \ attached) \cup IF s = vm[v].current THEN attached \ own ELSE {}

\* The files that make up a snapshot: those its parent has not, or the running machine
\* if it has no parent; for the current snapshot what the machine wrote since, too.
FileKeys(v, s) ==
  LET own      == AllFiles(vm[v].layout[s])
      attached == AllFiles(vm[v].disk)
      p        == vm[v].parent[s]
      below    == IF p = NoSnap THEN attached ELSE AllFiles(vm[v].layout[p])
  IN {s} \cup (own \ below) \cup IF s = vm[v].current THEN attached \ own ELSE {}

\* The sets of machines whose Config is unset stay empty.
Crawled == {p \in VMs \X Snaps : vm[p[1]].readable /\ p[2] \in vm[p[1]].live}
Done == {<<x.vm, x.snap>> : x \in summaries}

\* The loop of main is at machine v.
Turn(v) == /\ stage = "sets" /\ v \in WithSnapshots
           /\ \A p \in Crawled \ Done : Rank[v] <= Rank[p[1]]

\* One step of crawlFunc: a parent before its children.
crawlFunc(v, s) ==
  /\ Turn(v)
  /\ <<v, s>> \in Crawled \ Done
  /\ vm[v].current # NoSnap
  /\ vm[v].parent[s] = NoSnap \/ <<v, vm[v].parent[s]>> \in Done
  /\ summaries' = summaries \cup {[vm |-> v, snap |-> s, keys |-> FileKeys(v, s),
                                   ageWarning  |-> ExceedsAge(v, s, AgeWarning, now),
                                   ageCritical |-> ExceedsAge(v, s, AgeCritical, now)]}
  /\ UNCHANGED <<tree, mode, stage, started, exitState, panicked, older, exceeding, notYet>>

\* crawlFunc reads CurrentSnapshot.Value without testing CurrentSnapshot.
NilCurrentSnapshot(v) ==
  /\ Turn(v)
  /\ vm[v].readable /\ vm[v].current = NoSnap
  /\ panicked' = TRUE
  /\ exitState' = "CRITICAL"
  /\ stage' = "done"
  /\ UNCHANGED <<tree, mode, started, summaries, older, exceeding, notYet>>
-----------------------------------------------------------------------------
Sum(f, S) == MapThenSumSet(LAMBDA x : f[x], S)
Set(v) == {x \in summaries : x.vm = v}
Sizes == [x \in summaries |-> Sum(SizeOf, x.keys)]
SetSize(v) == Sum(Sizes, Set(v))
ExceedsSize(size, gb) == size > gb * GB

\* IsAgeCriticalState, IsCountCriticalState, IsSizeCriticalState of a set ...
IsCriticalState(v) == CASE mode = "age"   -> \E x \in Set(v) : x.ageCritical
                        [] mode = "count" -> Cardinality(Set(v)) > CountCritical
                        [] mode = "size"  -> ExceedsSize(SetSize(v), SizeCritical)

\* ... and their counterparts for WARNING.
IsWarningState(v) == CASE mode = "age"   -> \E x \in Set(v) : x.ageWarning
                       [] mode = "count" -> Cardinality(Set(v)) > CountWarning
                       [] mode = "size"  -> ExceedsSize(SetSize(v), SizeWarning)

\* Mutant of State: CRITICAL only if all sets are.
StateOfAll == CASE \A v \in WithSnapshots : IsCriticalState(v) -> "CRITICAL"
                [] \A v \in WithSnapshots : ~IsCriticalState(v) /\ ~IsWarningState(v) -> "OK"
                [] OTHER -> "WARNING"

State == CASE \E v \in WithSnapshots : IsCriticalState(v) -> "CRITICAL"
           [] \A v \in WithSnapshots : ~IsCriticalState(v) /\ ~IsWarningState(v) -> "OK"
           [] OTHER -> "WARNING"

\* Mutant of Excess: takes the limit off the count of every set.
ExcessOfAllSets(critical) ==
  LET limit    == IF critical THEN CountCritical ELSE CountWarning
      snaps == [v \in WithSnapshots |-> Cardinality(Set(v)) - limit]
  IN [vms |-> Cardinality(WithSnapshots), snaps |-> Sum(snaps, WithSnapshots)]

\* ExceedsAge, ExcessSnapshots and ExceedsSize of the sets, for the one-line summary:
\* an age is compared with the clock again.
Excess(critical) ==
  LET old(v) == {x \in Set(v) : ExceedsAge(v, x.snap, IF critical THEN AgeCritical ELSE AgeWarning, now)}
      limit  == IF critical THEN CountCritical ELSE CountWarning
      vms    == CASE mode = "age"   -> {v \in WithSnapshots : old(v) # {}}
                  [] mode = "count" -> {v \in WithSnapshots : Cardinality(Set(v)) > limit}
                  [] mode = "size"  -> {v \in WithSnapshots :
                       ExceedsSize(SetSize(v), IF critical THEN SizeCritical ELSE SizeWarning)}
      snaps  == [v \in vms |-> CASE mode = "age"   -> Cardinality(old(v))
                                 [] mode = "count" -> Cardinality(Set(v)) - limit
                                 [] mode = "size"  -> Cardinality(Set(v))]
  IN [vms |-> Cardinality(vms), snaps |-> Sum(snaps, vms)]

Evaluate ==
  /\ stage = "sets"
  /\ Crawled = Done
  /\ \A v \in WithSnapshots : vm[v].readable => vm[v].current # NoSnap
  /\ exitState' = State
  /\ older' = IF State = "OK" THEN [vms |-> 0, snaps |-> 0] ELSE Excess(State = "CRITICAL")
  /\ stage' = "report"
  /\ UNCHANGED <<tree, mode, started, summaries, panicked, exceeding, notYet>>

Flagged(x) == IF mode = "age" THEN x.ageCritical \/ x.ageWarning
                              ELSE IsCriticalState(x.vm) \/ IsWarningState(x.vm)

\* Mutant of ListExceeding: the other limit.
ListCritical ==
  /\ stage = "report"
  /\ exceeding' = IF mode = "count"
                  THEN {x \in summaries : Cardinality(Set(x.vm)) > CountCritical}
                  ELSE {x \in summaries : Flagged(x)}
  /\ stage' = "list"
  /\ UNCHANGED <<tree, mode, started, summaries, exitState, panicked, older, notYet>>

\* The first half of writeSnapshotsListEntries.
ListExceeding ==
  /\ stage = "report"
  /\ exceeding' = IF mode = "count"
                  THEN {x \in summaries : Cardinality(Set(x.vm)) > CountWarning}
                  ELSE {x \in summaries : Flagged(x)}
  /\ stage' = "list"
  /\ UNCHANGED <<tree, mode, started, summaries, exitState, panicked, older, notYet>>

\* HasNotYetExceededAge, HasNotYetExceededCount, HasNotYetExceededSize.
HasNotYetExceeded ==
  CASE mode = "age"   -> \E x \in summaries : ~ExceedsAge(x.vm, x.snap, AgeWarning, now)
    [] mode = "count" -> \E v \in WithSnapshots : Set(v) # {} /\ Cardinality(Set(v)) <= CountWarning
    [] mode = "size"  -> \E v \in WithSnapshots : ~ExceedsSize(SetSize(v), SizeWarning)

\* The second half.
ListNotYet ==
  /\ stage = "list"
  /\ notYet' = IF HasNotYetExceeded THEN {x \in summaries : ~Flagged(x)} ELSE {}
  /\ stage' = "done"
  /\ UNCHANGED <<tree, mode, started, summaries, exitState, panicked, older, exceeding>>

Next == \/ Environment
        \/ FilterVMsWithSnapshots
        \/ \E v \in VMs, s \in Snaps : crawlFunc(v, s)
        \/ \E v \in VMs : NilCurrentSnapshot(v)
        \/ Evaluate
        \/ ListExceeding
        \/ ListNotYet

Spec == Init /\ [][Next]_vars
-----------------------------------------------------------------------------
\* The machines, the summaries, the lists and the verdict are what their types say;
\* the clock moves by at most one day during a run.
TypeOK ==
  /\ vm \in [VMs -> Machine]
  /\ split \subseteq VMs
  /\ ops \in [VMs -> Nat] /\ now \in 0..MaxNow /\ started \in 0..now
  /\ stage # "select" => now <= started + 1
  /\ mode \in {"none", "age", "count", "size"} /\ (mode = "none" <=> stage = "select")
  /\ stage \in {"select", "sets", "report", "list", "done"}
  /\ summaries \subseteq Summary /\ Done \subseteq Crawled
  /\ exceeding \subseteq summaries /\ notYet \subseteq summaries
  /\ exitState \in {"none", "OK", "WARNING", "CRITICAL"}
  /\ panicked \in BOOLEAN
  /\ older \in [vms : Nat, snaps : Nat]

\* The sizes NewSnapshotSummarySet computes add up to what the snapshots of a machine
\* cost: every file is in at most one of them, and together they have all files in use
\* but those the machine shares with its oldest snapshot.  This holds as long as no
\* snapshot with several branches was removed; then the files it froze are counted for
\* each branch or for none.
GrowthCountedOnce ==
  stage \in {"report", "list", "done"} /\ ~panicked =>
    \A v \in WithSnapshots \ split : vm[v].readable =>
      LET m      == vm[v]
          root   == CHOOSE s \in m.live : m.parent[s] = NoSnap
          inUse  == AllFiles(m.disk) \cup UNION {AllFiles(m.layout[s]) : s \in m.live}
          shared == AllFiles(m.layout[root]) \cap AllFiles(m.disk)
      IN /\ \A x, y \in Set(v) : x # y => x.keys \cap y.keys = {}
         /\ UNION {x.keys : x \in Set(v)} = m.live \cup (inUse \ shared)

\* What a machine's snapshots exceed at time t, said of the machine and not of the
\* summaries.  The size is that of all files but those shared with the oldest snapshot.
\* As in the code a count, size or age equal to the threshold does not exceed it
\* (snapshots.go:33, 51, 962-963), where the help of the flags says that the state applies
\* "when a CRITICAL threshold is reached" (constants.go:45-50).
Exceeded(v, days, count, gb, t) ==
  LET m == vm[v]
      cost == m.live \cup ((AllFiles(m.disk) \cup UNION {AllFiles(m.layout[s]) : s \in m.live})
                 \ UNION {AllFiles(m.layout[s]) \cap AllFiles(m.disk) :
                             s \in {r \in m.live : m.parent[r] = NoSnap}})
  IN /\ m.readable
     /\ CASE mode = "age"   -> \E s \in m.live : ExceedsAge(v, s, days, t)
          [] mode = "count" -> Cardinality(m.live) > count
          [] mode = "size"  -> m.live # {} /\ Sum(SizeOf, cost) > gb * GB

\* The verdict is about the snapshots there are, although the clock moves on during the
\* run: what had crossed a threshold when the machines were retrieved is never missed,
\* and nothing is alerted on that has not crossed it by the end.  This is about the
\* boundary of the code (Exceeded): that equality does not alert differs from the help of
\* the flags and is a divergence the README lists.
VerdictMatchesSnapshots ==
  stage = "done" /\ ~panicked /\ split = {} =>
    LET warn(t) == \E v \in VMs : Exceeded(v, AgeWarning, CountWarning, SizeWarning, t)
        crit(t) == \E v \in VMs : Exceeded(v, AgeCritical, CountCritical, SizeCritical, t)
    IN /\ crit(started) => exitState = "CRITICAL"
       /\ warn(started) => exitState # "OK"
       /\ exitState = "CRITICAL" => crit(now)
       /\ exitState = "WARNING" => warn(now)

\* The report accounts for the snapshots: none is in both lists, there is an entry in the
\* first one exactly when the verdict is an alert, the summary counts at least those in
\* the worst state, and all are listed unless every one that was young enough has
\* crossed the threshold while the report was written.
ReportAccountsForSnapshots ==
  stage = "done" /\ ~panicked =>
    /\ exceeding \cap notYet = {}
    /\ exitState # "OK" <=> exceeding # {}
    /\ exitState = "CRITICAL" /\ mode = "age" =>
         Cardinality({x \in summaries : x.ageCritical}) <= older.snaps
    /\ exitState # "OK" => older.vms > 0 /\ older.snaps > 0
    /\ \/ exceeding \cup notYet = summaries
       \/ /\ mode = "age"
          /\ \A x \in summaries : ExceedsAge(x.vm, x.snap, AgeWarning, now)
=============================================================================
