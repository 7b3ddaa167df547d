------------------------------ MODULE PluginRun ------------------------------
(***************************************************************************)
(* One run of a plugin, from config.New to the exit of the process: the    *)
(* requests it sends to vSphere under the deadline of its context, its     *)
(* deferred calls, what it prints and its exit state (the main functions   *)
(* under cmd/, and the view handling of internal/vsphere/get.go).  A reply *)
(* may be late, lost or an error; the deadline may pass at any time.       *)
(***************************************************************************)
EXTENDS Naturals, Sequences

CONSTANTS Plugins,         \* the plugins that are run
          MaxRounds        \* bound on the requests of a call that loops

ASSUME RunAssumption == MaxRounds \in Nat \ {0}

(***************************************************************************)
(* The main functions: their calls in order, the states their evaluation   *)
(* may end in, and whether they defer a logout.  The least number of       *)
(* rounds is 0 for a call that may have nothing to do, and the most is 1   *)
(* for one that uses a single view.                                        *)
(***************************************************************************)
View(least, most) == [kind |-> "view", least |-> least, most |-> most]
Fetch(least, most) == [kind |-> "fetch", least |-> least, most |-> most]

OneView == View(1, 1)
ValidateRPs == OneView
GetEligibleRPs == OneView
VMsOfEveryPool == View(0, MaxRounds)

Main(calls, states) == [calls |-> calls, states |-> states, logout |-> TRUE]

VMMain(states) == Main(<<ValidateRPs, GetEligibleRPs, VMsOfEveryPool>>, states)

ThreeStates == {"OK", "WARNING", "CRITICAL"}

check_vmware_tools == VMMain(ThreeStates \cup {"UNKNOWN"})
check_vmware_vcpus == VMMain(ThreeStates)
check_vmware_snapshots_age == VMMain(ThreeStates)
check_vmware_snapshots_count == VMMain(ThreeStates)
check_vmware_snapshots_size == VMMain(ThreeStates)
check_vmware_vm_power_uptime == VMMain(ThreeStates)
check_vmware_disk_consolidation == VMMain({"OK", "CRITICAL"})
check_vmware_question == VMMain({"OK", "CRITICAL"})

\* The memory of all hosts before the virtual machines.
check_vmware_rps_memory ==
  Main(<<ValidateRPs, GetEligibleRPs, OneView, VMsOfEveryPool>>, ThreeStates)

\* The default hardware version last.
check_vmware_vhw ==
  Main(<<ValidateRPs, GetEligibleRPs, VMsOfEveryPool, Fetch(1, MaxRounds)>>, ThreeStates)

\* The datastores and the hosts last; no logout is deferred.
check_vmware_hs2ds2vms ==
  [Main(<<ValidateRPs, GetEligibleRPs, VMsOfEveryPool, OneView, OneView>>, {"OK", "CRITICAL"})
     EXCEPT !.logout = FALSE]

\* The object by its name, then its virtual machines.
check_vmware_datastore == Main(<<Fetch(1, MaxRounds), OneView>>, ThreeStates)
check_vmware_host_cpu == Main(<<Fetch(1, MaxRounds), OneView>>, ThreeStates)
check_vmware_host_memory == Main(<<Fetch(1, MaxRounds), OneView>>, ThreeStates)

\* Names of datacenters and Resource Pools are validated when given; each alarm
\* takes several requests.
check_vmware_alarms ==
  Main(<<View(0, 1), OneView, View(0, 1), Fetch(0, MaxRounds)>>, ThreeStates \cup {"UNKNOWN"})

Program ==
  [Tools |-> check_vmware_tools, VirtualCPUsAllocation |-> check_vmware_vcpus,
   SnapshotsAge |-> check_vmware_snapshots_age,
   SnapshotsCount |-> check_vmware_snapshots_count,
   SnapshotsSize |-> check_vmware_snapshots_size,
   VirtualMachinePowerCycleUptime |-> check_vmware_vm_power_uptime,
   DiskConsolidation |-> check_vmware_disk_consolidation,
   InteractiveQuestion |-> check_vmware_question,
   ResourcePoolsMemory |-> check_vmware_rps_memory,
   VirtualHardwareVersion |-> check_vmware_vhw,
   Host2Datastores2VMs |-> check_vmware_hs2ds2vms,
   DatastoresSize |-> check_vmware_datastore, HostSystemCPU |-> check_vmware_host_cpu,
   HostSystemMemory |-> check_vmware_host_memory, Alarms |-> check_vmware_alarms]

ASSUME PluginsAssumption == Plugins \subseteq DOMAIN Program
-----------------------------------------------------------------------------
VARIABLES plugin,
          pc,              \* the request or the local step the run is at
          i, round,        \* the call, and its requests or views so far
          inflight,        \* the request of pc is sent and not answered
          callFailed,      \* what the call returns once its view is destroyed
          expired,         \* the deadline of the context has passed
          nagiosExitState, \* with "summary": ServiceOutput is set
          panicking,       \* main panics
          stdout,          \* what is printed, in order
          session, views,  \* at the server: the session and the views
          cleanupFailed,   \* a request that opens or closes one of them has failed
          dataMissing      \* a request for data has failed

vars == <<plugin, pc, i, round, inflight, callFailed, expired, nagiosExitState,
          panicking, stdout, session, views, cleanupFailed, dataMissing>>
server == <<session, views, cleanupFailed, dataMissing>>

main == Program[plugin]
Requests == {"login", "create", "retrieve", "destroy", "fetch", "logout"}

ExitState(state, lastError, summary) ==
  [state |-> state, lastError |-> lastError, summary |-> summary]

Critical == ExitState("CRITICAL", TRUE, TRUE)

Init == /\ plugin \in Plugins
        /\ pc = "config"
        /\ i = 1
        /\ round = 0
        /\ inflight = FALSE
        /\ callFailed = FALSE
        /\ expired = FALSE
        /\ nagiosExitState = ExitState("OK", FALSE, FALSE)
        /\ panicking = FALSE
        /\ stdout = << >>
        /\ session = FALSE
        /\ views = 0
        /\ cleanupFailed = FALSE
        /\ dataMissing = FALSE

Goto(next) == pc' = next /\ inflight' = FALSE

\* return, with the deferred calls to come.
Deferred == IF main.logout THEN "logout" ELSE "report"
-----------------------------------------------------------------------------
(* config.New.                                                              *)

ConfigAccepted ==
  /\ pc = "config"
  /\ Goto("login")
  /\ UNCHANGED <<plugin, i, round, callFailed, expired, nagiosExitState, panicking,
                 stdout, server>>

ConfigRejected ==
  /\ pc = "config"
  /\ nagiosExitState' = Critical
  /\ Goto("report")
  /\ UNCHANGED <<plugin, i, round, callFailed, expired, panicking, stdout, server>>

\* fmt.Println(config.Version())
VersionRequested ==
  /\ pc = "config"
  /\ stdout' = Append(stdout, "version")
  /\ Goto("report")
  /\ UNCHANGED <<plugin, i, round, callFailed, expired, nagiosExitState, panicking, server>>
-----------------------------------------------------------------------------
(* Requests.                                                                *)

\* Mutant of Expire: a context without a deadline.
NoDeadline == pc \in Requests \cup {"next"} /\ UNCHANGED vars

\* The timer of context.WithTimeout.
Expire ==
  /\ pc \in Requests \cup {"next"}
  /\ ~ expired
  /\ expired' = TRUE
  /\ UNCHANGED <<plugin, pc, i, round, inflight, callFailed, nagiosExitState, panicking,
                 stdout, server>>

\* Mutant of Send: a request that is not bound to the context.
SendWithoutContext ==
  /\ pc \in Requests
  /\ ~ inflight
  /\ inflight' = TRUE
  /\ UNCHANGED <<plugin, pc, i, round, callFailed, expired, nagiosExitState, panicking,
                 stdout, server>>

Send ==
  /\ pc \in Requests
  /\ ~ inflight /\ ~ expired
  /\ inflight' = TRUE
  /\ UNCHANGED <<plugin, pc, i, round, callFailed, expired, nagiosExitState, panicking,
                 stdout, server>>

Replied(request) == pc = request /\ inflight

\* A request fails: it is not sent any more, or the reply is an error, or it is
\* lost or too late, in which case it may have had its effect at the server.
Failed(request, effect) == pc = request /\ (inflight \/ (expired /\ ~ effect))

LoginOK ==
  /\ Replied("login")
  /\ session' = TRUE
  /\ Goto("next")
  /\ UNCHANGED <<plugin, i, round, callFailed, expired, nagiosExitState, panicking,
                 stdout, views, cleanupFailed, dataMissing>>

\* The logout is not deferred yet.
LoginError ==
  \E effect \in BOOLEAN :
    /\ Failed("login", effect)
    /\ session' = effect
    /\ cleanupFailed' = TRUE
    /\ dataMissing' = TRUE
    /\ nagiosExitState' = Critical
    /\ Goto("report")
    /\ UNCHANGED <<plugin, i, round, callFailed, expired, panicking, stdout, views>>

\* Mutant of StartRound: the loop does not end.
StartAnyRound ==
  /\ pc = "next" /\ i <= Len(main.calls)
  /\ round' = round + 1
  /\ Goto(IF main.calls[i].kind = "view" THEN "create" ELSE "fetch")
  /\ UNCHANGED <<plugin, i, callFailed, expired, nagiosExitState, panicking, stdout, server>>

\* The next request of call i.
StartRound ==
  /\ pc = "next" /\ i <= Len(main.calls) /\ round < main.calls[i].most
  /\ round' = round + 1
  /\ Goto(IF main.calls[i].kind = "view" THEN "create" ELSE "fetch")
  /\ UNCHANGED <<plugin, i, callFailed, expired, nagiosExitState, panicking, stdout, server>>

NextCall ==
  /\ pc = "next" /\ i <= Len(main.calls) /\ round >= main.calls[i].least
  /\ i' = i + 1
  /\ round' = 0
  /\ UNCHANGED <<plugin, pc, inflight, callFailed, expired, nagiosExitState, panicking,
                 stdout, server>>

\* The call returns to main, which goes on or reports the error.
Return(error) ==
  /\ Goto(IF error THEN Deferred ELSE "next")
  /\ nagiosExitState' = IF error THEN Critical ELSE nagiosExitState
  /\ UNCHANGED <<plugin, i, round, expired, panicking>>

CreateContainerView ==
  \/ /\ Replied("create")
     /\ views' = views + 1
     /\ callFailed' = FALSE
     /\ Goto("retrieve")
     /\ UNCHANGED <<plugin, i, round, expired, nagiosExitState, panicking, stdout,
                    session, cleanupFailed, dataMissing>>
  \/ \E effect \in BOOLEAN :
        /\ Failed("create", effect)
        /\ views' = IF effect THEN views + 1 ELSE views
        /\ cleanupFailed' = TRUE
        /\ dataMissing' = TRUE
        /\ Return(TRUE)
        /\ UNCHANGED <<callFailed, stdout, session>>

\* Mutants of Retrieve: the error is lost; the view is destroyed after a success only;
\* the view is left to the caller.
RetrieveLosesError ==
  /\ Replied("retrieve") \/ Failed("retrieve", FALSE)
  /\ callFailed' = FALSE
  /\ dataMissing' \in {d \in BOOLEAN : dataMissing => d}
  /\ Goto("destroy")
  /\ UNCHANGED <<plugin, i, round, expired, nagiosExitState, panicking, stdout,
                 session, views, cleanupFailed>>

RetrieveWithoutDefer ==
  /\ \/ Replied("retrieve") /\ callFailed' \in BOOLEAN
     \/ Failed("retrieve", FALSE) /\ callFailed' = TRUE
  /\ dataMissing' = (dataMissing \/ callFailed')
  /\ IF callFailed' THEN Return(TRUE)
     ELSE Goto("destroy") /\ UNCHANGED <<plugin, i, round, expired, nagiosExitState, panicking>>
  /\ UNCHANGED <<stdout, session, views, cleanupFailed>>

RetrieveKeepsView ==
  /\ Replied("retrieve")
  /\ callFailed' = FALSE
  /\ Return(FALSE)
  /\ UNCHANGED <<stdout, session, views, cleanupFailed, dataMissing>>

\* What is retrieved may still be an error, like a Resource Pool that is not found.
Retrieve ==
  /\ \/ Replied("retrieve") /\ callFailed' \in BOOLEAN
     \/ Failed("retrieve", FALSE) /\ callFailed' = TRUE
  /\ dataMissing' = (dataMissing \/ callFailed')
  /\ Goto("destroy")
  /\ UNCHANGED <<plugin, i, round, expired, nagiosExitState, panicking, stdout,
                 session, views, cleanupFailed>>

\* Deferred by the call, whatever it returns.  An error is printed.
Destroy ==
  \/ /\ Replied("destroy")
     /\ views' = views - 1
     /\ Return(callFailed)
     /\ UNCHANGED <<callFailed, stdout, session, cleanupFailed, dataMissing>>
  \/ \E effect \in BOOLEAN :
        /\ Failed("destroy", effect)
        /\ views' = IF effect THEN views - 1 ELSE views
        /\ cleanupFailed' = TRUE
        /\ stdout' = Append(stdout, "Error occurred while destroying view")
        /\ Return(callFailed)
        /\ UNCHANGED <<callFailed, session, dataMissing>>

RetrieveOne ==
  /\ \E error \in BOOLEAN :
       /\ IF error THEN Failed("fetch", FALSE) ELSE Replied("fetch")
       /\ Return(error)
       /\ dataMissing' = (dataMissing \/ error)
  /\ UNCHANGED <<callFailed, stdout, session, views, cleanupFailed>>
-----------------------------------------------------------------------------
(* The end of main and the deferred calls.                                  *)

\* Mutant of Evaluate: main ends without a verdict.
FallOffMain ==
  /\ pc = "next" /\ i > Len(main.calls)
  /\ Goto(Deferred)
  /\ UNCHANGED <<plugin, i, round, callFailed, expired, nagiosExitState, panicking, stdout, server>>

Evaluate ==
  /\ pc = "next" /\ i > Len(main.calls)
  /\ \/ /\ nagiosExitState' \in {ExitState(s, s # "OK", TRUE) : s \in main.states}
        /\ UNCHANGED panicking
     \/ panicking' = TRUE /\ UNCHANGED nagiosExitState
  /\ Goto(Deferred)
  /\ UNCHANGED <<plugin, i, round, callFailed, expired, stdout, server>>

\* An error is logged to stderr.
Logout ==
  /\ \/ Replied("logout") /\ session' = FALSE /\ UNCHANGED cleanupFailed
     \/ \E effect \in BOOLEAN :
          /\ Failed("logout", effect)
          /\ session' = (session /\ ~ effect)
          /\ cleanupFailed' = TRUE
  /\ Goto("report")
  /\ UNCHANGED <<plugin, i, round, callFailed, expired, nagiosExitState, panicking,
                 stdout, views, dataMissing>>

\* Deferred first, so that it runs last; recovers from a panic.
ReturnCheckResults ==
  /\ pc = "report"
  /\ nagiosExitState' = IF panicking THEN Critical ELSE nagiosExitState
  /\ stdout' = IF nagiosExitState'.summary THEN Append(stdout, "summary") ELSE stdout
  /\ Goto("exited")
  /\ UNCHANGED <<plugin, i, round, callFailed, expired, panicking, server>>

Local == \/ ConfigAccepted \/ ConfigRejected \/ VersionRequested
         \/ Send \/ StartRound \/ NextCall \/ Evaluate \/ ReturnCheckResults

Completion == \/ LoginOK \/ LoginError \/ CreateContainerView \/ Retrieve \/ Destroy
              \/ RetrieveOne \/ Logout

Next == Local \/ Completion \/ Expire

Spec == Init /\ [][Next]_vars

\* The process runs on, the timer goes off, and a request returns when the
\* deadline has passed; a reply in time is not promised.
FairSpec == /\ Spec
            /\ WF_vars(Local)
            /\ WF_vars(Expire)
            /\ WF_vars(expired /\ Completion)
-----------------------------------------------------------------------------
(* Properties.                                                              *)

TypeOK ==
  /\ plugin \in Plugins
  /\ pc \in Requests \cup {"config", "next", "report", "exited"}
  /\ i \in 1..(Len(main.calls) + 1)
  /\ round \in 0..MaxRounds
  /\ {inflight, callFailed, expired, panicking, session, cleanupFailed,
      dataMissing} \subseteq BOOLEAN
  /\ inflight => pc \in Requests
  /\ nagiosExitState \in
       [state : ThreeStates \cup {"UNKNOWN"}, lastError : BOOLEAN, summary : BOOLEAN]
  /\ views \in Nat

\* A result other than an error means that every call of main was made and none
\* failed, whichever request failed and however late: partial data never turn into
\* a verdict.  An exit before the calls are done is CRITICAL with an error and a
\* summary, a panic included.
NoVerdictOnPartialData ==
  pc = "exited" /\ stdout # <<"version">> =>
    \/ i > Len(main.calls) /\ ~ dataMissing
    \/ nagiosExitState = Critical

\* The summary is printed once, by the last deferred call, in every run that does
\* not ask for the version.
SummaryIsPrinted ==
  pc = "exited" /\ stdout # <<"version">> =>
    /\ stdout # << >> /\ stdout[Len(stdout)] = "summary"
    /\ \A k \in 1..(Len(stdout) - 1) : stdout[k] # "summary"

\* A plugin whose requests to open and to close are answered leaves nothing at the
\* server, also when the requests in between fail, or main panics or gives up; the
\* session of a plugin that does not log out is the exception.
ServerCleanedUp ==
  pc = "exited" /\ ~ cleanupFailed => views = 0 /\ (session => ~ main.logout)

\* There is never more than one view in use: each call destroys its own before
\* the next is created, in the loop over the Resource Pools too.
OneViewAtATime == ~ cleanupFailed => views <= 1

\* The process exits, although replies may fail to come for good.
Terminates == <>(pc = "exited")

\* "abandoned and an error returned" (README.md, timeout): a deadline that has
\* passed before a request for data is sent ends the run with an error.
LateIsAnError ==
  (expired /\ ~ inflight /\ pc \in {"login", "create", "retrieve", "fetch"})
    ~> (pc = "exited" /\ nagiosExitState = Critical)
=============================================================================
