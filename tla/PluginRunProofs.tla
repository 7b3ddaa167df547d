-------------------------- MODULE PluginRunProofs --------------------------
(***************************************************************************)
(* Proofs about PluginRun, for every set of plugins and every bound on the *)
(* rounds of a call.                                                       *)
(***************************************************************************)
EXTENDS PluginRun, TLAPS

AllStates == ThreeStates \cup {"UNKNOWN"}

\* What the argument needs to know of a main function.
Shape(m) == /\ Len(m.calls) \in Nat
            /\ \A k \in 1..Len(m.calls) : m.calls[k].most \in 0..MaxRounds
            /\ m.states \subseteq AllStates
            /\ m.logout \in BOOLEAN

LEMMA VMMainShape ==
  ASSUME NEW S \in SUBSET AllStates
  PROVE  Shape(VMMain(S))
BY RunAssumption DEF Shape, VMMain, Main, ValidateRPs, GetEligibleRPs, VMsOfEveryPool, OneView, View

\* One line for each plugin that is not a VMMain.
LEMMA OtherShapes ==
  /\ Shape(check_vmware_rps_memory)
  /\ Shape(check_vmware_vhw)
  /\ Shape(check_vmware_hs2ds2vms)
  /\ Shape(check_vmware_datastore)
  /\ Shape(check_vmware_host_cpu)
  /\ Shape(check_vmware_host_memory)
  /\ Shape(check_vmware_alarms)
<1> USE RunAssumption DEF Shape, Main, ValidateRPs, GetEligibleRPs, VMsOfEveryPool, OneView, View,
                          Fetch, AllStates, ThreeStates
<1>1. Shape(check_vmware_rps_memory)
  BY DEF check_vmware_rps_memory
<1>2. Shape(check_vmware_vhw)
  BY DEF check_vmware_vhw
<1>3. Shape(check_vmware_hs2ds2vms)
  BY DEF check_vmware_hs2ds2vms
<1>4. Shape(check_vmware_datastore)
  BY DEF check_vmware_datastore
<1>5. Shape(check_vmware_host_cpu)
  BY DEF check_vmware_host_cpu
<1>6. Shape(check_vmware_host_memory)
  BY DEF check_vmware_host_memory
<1>7. Shape(check_vmware_alarms)
  BY DEF check_vmware_alarms
<1>8. QED
  BY <1>1, <1>2, <1>3, <1>4, <1>5, <1>6, <1>7

LEMMA ProgramShape == \A p \in DOMAIN Program : Shape(Program[p])
<1>1. \A S \in {ThreeStates, AllStates, {"OK", "CRITICAL"}} : Shape(VMMain(S))
  BY VMMainShape DEF AllStates, ThreeStates
<1>2. /\ Shape(check_vmware_tools)
      /\ Shape(check_vmware_vcpus)
      /\ Shape(check_vmware_snapshots_age)
      /\ Shape(check_vmware_snapshots_count)
      /\ Shape(check_vmware_snapshots_size)
      /\ Shape(check_vmware_vm_power_uptime)
      /\ Shape(check_vmware_disk_consolidation)
      /\ Shape(check_vmware_question)
  BY <1>1 DEF AllStates, check_vmware_tools, check_vmware_vcpus, check_vmware_snapshots_age,
     check_vmware_snapshots_count, check_vmware_snapshots_size, check_vmware_vm_power_uptime,
     check_vmware_disk_consolidation, check_vmware_question
<1>3. QED
  BY <1>2, OtherShapes DEF Program

-----------------------------------------------------------------------------
(* Types.                                                                   *)

\* main is one of the main functions.
LEMMA MainShape ==
  ASSUME plugin \in Plugins
  PROVE  Shape(main)
BY ProgramShape, PluginsAssumption DEF main

ExitStates == [state : AllStates, lastError : BOOLEAN, summary : BOOLEAN]

LEMMA ExitStateType ==
  ASSUME NEW s \in AllStates, NEW e \in BOOLEAN, NEW m \in BOOLEAN
  PROVE  ExitState(s, e, m) \in ExitStates
BY DEF ExitState, ExitStates

LEMMA CriticalType == Critical \in ExitStates
BY ExitStateType DEF Critical, AllStates, ThreeStates

\* The flags of TypeOK one by one, and that a view in use exists.
Types == /\ plugin \in Plugins
         /\ pc \in Requests \cup {"config", "next", "report", "exited"}
         /\ i \in 1..(Len(main.calls) + 1)
         /\ round \in 0..MaxRounds
         /\ inflight \in BOOLEAN /\ callFailed \in BOOLEAN /\ expired \in BOOLEAN
         /\ panicking \in BOOLEAN /\ session \in BOOLEAN /\ cleanupFailed \in BOOLEAN
         /\ dataMissing \in BOOLEAN
         /\ inflight => pc \in Requests
         /\ nagiosExitState \in ExitStates
         /\ views \in Nat
         /\ pc \in {"retrieve", "destroy"} => views > 0

LEMMA TypesImplyTypeOK == Types => TypeOK
BY DEF Types, TypeOK, ExitStates, AllStates

LEMMA InitTypes == Init => Types
<1> SUFFICES ASSUME Init PROVE Types
  OBVIOUS
<1>1. Shape(main)
  BY MainShape DEF Init
<1>2. nagiosExitState \in ExitStates
  BY ExitStateType DEF Init, AllStates, ThreeStates
<1>3. i \in 1..(Len(main.calls) + 1) /\ round \in 0..MaxRounds
  BY <1>1, RunAssumption DEF Init, Shape
<1>4. QED
  BY <1>2, <1>3 DEF Init, Types, Requests

\* Where main goes after a call.
LEMMA ReturnTypes ==
  ASSUME Types, NEW error \in BOOLEAN, Return(error), callFailed' \in BOOLEAN,
         session' \in BOOLEAN, cleanupFailed' \in BOOLEAN, dataMissing' \in BOOLEAN, views' \in Nat
  PROVE  Types'
<1>1. main' = main
  BY DEF Return, main
<1>2. pc' \in {"logout", "report", "next"} /\ inflight' = FALSE
  BY DEF Return, Goto, Deferred
<1>3. nagiosExitState' \in ExitStates
  BY CriticalType DEF Return, Types
<1>4. QED
  BY <1>1, <1>2, <1>3 DEF Return, Types, Requests

\* The steps that leave the server alone.
Quiet == \/ ConfigAccepted \/ ConfigRejected \/ VersionRequested \/ Expire \/ Send
         \/ StartRound \/ NextCall \/ Evaluate \/ ReturnCheckResults

LEMMA QuietTypes == Types /\ Quiet => Types'
<1> SUFFICES ASSUME Types, Quiet PROVE Types'
  OBVIOUS
<1>1. /\ main' = main /\ Shape(main) /\ UNCHANGED <<plugin, callFailed, session, views, cleanupFailed, dataMissing>>
  BY MainShape DEF Quiet, Types, main, server, ConfigAccepted, ConfigRejected, VersionRequested,
     Expire, Send, StartRound, NextCall, Evaluate, ReturnCheckResults
<1>2. CASE ConfigAccepted
  BY <1>1, <1>2 DEF Types, ConfigAccepted, Goto, Requests
<1>3. CASE ConfigRejected
  BY <1>1, <1>3, CriticalType DEF Types, ConfigRejected, Goto, Requests
<1>4. CASE VersionRequested
  BY <1>1, <1>4 DEF Types, VersionRequested, Goto, Requests
<1>5. CASE Expire
  BY <1>1, <1>5 DEF Types, Expire
<1>6. CASE Send
  BY <1>1, <1>6 DEF Types, Send
<1>7. CASE StartRound
  <2>1. round' \in 0..MaxRounds
    BY <1>1, <1>7, RunAssumption DEF StartRound, Shape, Types
  <2>2. QED
    BY <1>1, <1>7, <2>1 DEF Types, StartRound, Goto, Requests
<1>8. CASE NextCall
  <2>1. i' \in 1..(Len(main.calls) + 1) /\ round' \in 0..MaxRounds
    BY <1>1, <1>8, RunAssumption DEF NextCall, Shape, Types
  <2>2. QED
    BY <1>1, <1>8, <2>1 DEF Types, NextCall
<1>9. CASE Evaluate
  <2>1. nagiosExitState' \in ExitStates
    <3>1. \A s \in main.states : ExitState(s, s # "OK", TRUE) \in ExitStates
      BY <1>1, ExitStateType DEF Shape
    <3>2. QED
      BY <1>9, <3>1 DEF Evaluate, Types
  <2>2. panicking' \in BOOLEAN
    BY <1>9 DEF Evaluate, Types
  <2>3. pc' \in {"logout", "report"} /\ inflight' = FALSE /\ UNCHANGED <<i, round, expired>>
    BY <1>9 DEF Evaluate, Goto, Deferred
  <2>4. QED
    BY <1>1, <2>1, <2>2, <2>3 DEF Types, Requests
<1>10. CASE ReturnCheckResults
  <2>1. nagiosExitState' \in ExitStates
    BY <1>10, CriticalType DEF ReturnCheckResults, Types
  <2>2. QED
    BY <1>1, <1>10, <2>1 DEF Types, ReturnCheckResults, Goto, Requests
<1>11. QED
  BY <1>2, <1>3, <1>4, <1>5, <1>6, <1>7, <1>8, <1>9, <1>10 DEF Quiet

LEMMA CompletionTypes == Types /\ Completion => Types'
<1> SUFFICES ASSUME Types, Completion PROVE Types'
  OBVIOUS
<1>1. CASE LoginOK
  BY <1>1 DEF Types, LoginOK, Goto, Requests, main
<1>2. CASE LoginError
  BY <1>2, CriticalType DEF Types, LoginError, Goto, Requests, main
<1>3. CASE CreateContainerView
  <2>1. CASE Replied("create") /\ views' = views + 1 /\ callFailed' = FALSE /\ Goto("retrieve")
             /\ UNCHANGED <<plugin, i, round, expired, nagiosExitState, panicking, stdout,
                            session, cleanupFailed, dataMissing>>
    <3>1. views' \in Nat /\ views' > 0
      BY <2>1 DEF Types
    <3>2. pc' = "retrieve" /\ inflight' = FALSE
      BY <2>1 DEF Goto
    <3>3. QED
      BY <2>1, <3>1, <3>2 DEF Types, Requests, main
  <2>2. ASSUME NEW effect \in BOOLEAN, views' = IF effect THEN views + 1 ELSE views,
               cleanupFailed' = TRUE, dataMissing' = TRUE, Return(TRUE),
               UNCHANGED <<callFailed, stdout, session>>
        PROVE  Types'
    <3>1. views' \in Nat
      BY <2>2 DEF Types
    <3>2. callFailed' \in BOOLEAN /\ session' \in BOOLEAN /\ cleanupFailed' \in BOOLEAN /\ dataMissing' \in BOOLEAN
      BY <2>2 DEF Types
    <3>3. QED
      BY <2>2, <3>1, <3>2, ReturnTypes
  <2>3. QED
    BY <1>3, <2>1, <2>2 DEF CreateContainerView
<1>4. CASE Retrieve
  <2>1. callFailed' \in BOOLEAN /\ dataMissing' \in BOOLEAN
    BY <1>4 DEF Retrieve, Types
  <2>2. pc = "retrieve" /\ pc' = "destroy" /\ inflight' = FALSE
        /\ UNCHANGED <<plugin, i, round, expired, nagiosExitState, panicking, session, views, cleanupFailed>>
    BY <1>4 DEF Retrieve, Goto, Replied, Failed
  <2>3. QED
    BY <2>1, <2>2 DEF Types, Requests, main
<1>5. CASE Destroy
  <2>1. views > 0 /\ pc = "destroy"
    BY <1>5 DEF Destroy, Replied, Failed, Types
  <2>2. views' \in Nat
    <3>1. views' = views \/ views' = views - 1
      BY <1>5 DEF Destroy
    <3>2. QED
      BY <2>1, <3>1 DEF Types
  <2>3. Return(callFailed) /\ UNCHANGED <<callFailed, session, dataMissing>> /\ cleanupFailed' \in BOOLEAN
    BY <1>5 DEF Destroy, Types
  <2>4. QED
    BY <2>2, <2>3, ReturnTypes DEF Types
<1>6. CASE RetrieveOne
  <2>1. PICK error \in BOOLEAN : Return(error) /\ dataMissing' = (dataMissing \/ error)
    BY <1>6 DEF RetrieveOne
  <2>2. dataMissing' \in BOOLEAN /\ UNCHANGED <<callFailed, session, views, cleanupFailed>>
    BY <1>6, <2>1 DEF RetrieveOne, Types
  <2>3. QED
    BY <2>1, <2>2, ReturnTypes DEF Types
<1>7. CASE Logout
  <2>1. session' \in BOOLEAN /\ cleanupFailed' \in BOOLEAN
    BY <1>7 DEF Logout, Types
  <2>2. QED
    BY <1>7, <2>1 DEF Types, Logout, Goto, Requests, main
<1>8. QED
  BY <1>1, <1>2, <1>3, <1>4, <1>5, <1>6, <1>7 DEF Completion

LEMMA NextTypes == Types /\ [Next]_vars => Types'
<1>1. Types /\ UNCHANGED vars => Types'
  BY DEF Types, vars, main
<1>2. Next => Quiet \/ Completion
  BY DEF Next, Local, Quiet
<1>3. QED
  BY <1>1, <1>2, QuietTypes, CompletionTypes

\* A run keeps its types, whatever plugin it is and however often a call loops: the
\* plugins never make more requests of a call than its bound, and never destroy a view
\* they have not created.
THEOREM TypeCorrect == Spec => []TypeOK
<1>1. Spec => []Types
  BY InitTypes, NextTypes, PTL DEF Spec
<1>2. QED
  BY <1>1, TypesImplyTypeOK, PTL

-----------------------------------------------------------------------------
(* What is left at the server.                                              *)

\* As long as every request that opens or closes something is answered, there is a view
\* exactly between its creation and its destruction, and a session from the login to the
\* logout, or to the end if main defers no logout.
Server ==
  ~ cleanupFailed =>
    /\ views = IF pc \in {"retrieve", "destroy"} THEN 1 ELSE 0
    /\ pc \in {"config", "login"} => ~ session
    /\ pc \in {"report", "exited"} => (session => ~ main.logout)

\* A call that returns has destroyed its view, and leaves the session to the logout.
LEMMA ReturnServer ==
  ASSUME NEW error \in BOOLEAN, Return(error), UNCHANGED session,
         ~ cleanupFailed' => views' = 0
  PROVE  Server'
<1>1. pc' \in {"next", Deferred} /\ main' = main
  BY DEF Return, Goto, main
<1>2. pc' = "report" => ~ main.logout
  BY <1>1 DEF Deferred
<1>3. pc' \in {"next", "logout", "report"}
  BY <1>1 DEF Deferred
<1>4. QED
  BY <1>1, <1>2, <1>3 DEF Server

LEMMA QuietServer == Server /\ Quiet => Server'
<1> SUFFICES ASSUME Server, Quiet PROVE Server'
  OBVIOUS
<1>1. main' = main /\ UNCHANGED <<session, views, cleanupFailed>>
  BY DEF Quiet, main, server, ConfigAccepted, ConfigRejected, VersionRequested,
     Expire, Send, StartRound, NextCall, Evaluate, ReturnCheckResults
<1>2. CASE ConfigAccepted \/ ConfigRejected \/ VersionRequested
  BY <1>1, <1>2 DEF Server, ConfigAccepted, ConfigRejected, VersionRequested, Goto
<1>3. CASE Expire \/ Send \/ NextCall
  BY <1>1, <1>3 DEF Server, Expire, Send, NextCall
<1>4. CASE StartRound
  BY <1>1, <1>4 DEF Server, StartRound, Goto
<1>5. CASE Evaluate
  BY <1>1, <1>5 DEF Server, Evaluate, Goto, Deferred
<1>6. CASE ReturnCheckResults
  BY <1>1, <1>6 DEF Server, ReturnCheckResults, Goto
<1>7. QED
  BY <1>2, <1>3, <1>4, <1>5, <1>6 DEF Quiet

LEMMA CompletionServer == Types /\ Server /\ Completion => Server'
<1> SUFFICES ASSUME Types, Server, Completion PROVE Server'
  OBVIOUS
<1>1. CASE LoginOK
  BY <1>1 DEF Server, LoginOK, Replied, Goto, main
<1>2. CASE LoginError
  BY <1>2 DEF Server, LoginError
<1>3. CASE CreateContainerView
  <2>1. CASE cleanupFailed'
    BY <2>1 DEF Server
  <2>2. CASE ~ cleanupFailed'
    <3>1. pc = "create" /\ pc' = "retrieve" /\ views' = views + 1
          /\ UNCHANGED <<plugin, session, cleanupFailed>>
      BY <1>3, <2>2 DEF CreateContainerView, Replied, Goto
    <3>2. QED
      BY <2>2, <3>1 DEF Server, main
  <2>3. QED
    BY <2>1, <2>2
<1>4. CASE Retrieve
  <2>1. pc = "retrieve" /\ pc' = "destroy" /\ UNCHANGED <<plugin, session, views, cleanupFailed>>
    BY <1>4 DEF Retrieve, Goto, Replied, Failed
  <2>2. QED
    BY <2>1 DEF Server, main
<1>5. CASE Destroy
  <2>1. Return(callFailed) /\ UNCHANGED session
    BY <1>5 DEF Destroy
  <2>2. ~ cleanupFailed' => pc = "destroy" /\ views' = views - 1 /\ ~ cleanupFailed
    BY <1>5 DEF Destroy, Replied
  <2>3. ~ cleanupFailed' => views' = 0
    BY <2>2 DEF Server
  <2>4. QED
    BY <2>1, <2>3, ReturnServer DEF Types
<1>6. CASE RetrieveOne
  <2>1. PICK error \in BOOLEAN : Return(error)
    BY <1>6 DEF RetrieveOne
  <2>2. pc = "fetch" /\ UNCHANGED <<session, views, cleanupFailed>>
    BY <1>6 DEF RetrieveOne, Failed, Replied
  <2>3. ~ cleanupFailed' => views' = 0
    BY <2>2 DEF Server
  <2>4. QED
    BY <2>1, <2>2, <2>3, ReturnServer
<1>7. CASE Logout
  <2>1. pc = "logout" /\ pc' = "report" /\ UNCHANGED <<plugin, views>>
    BY <1>7 DEF Logout, Replied, Failed, Goto
  <2>2. ~ cleanupFailed' => ~ cleanupFailed /\ ~ session'
    BY <1>7 DEF Logout
  <2>3. QED
    BY <2>1, <2>2 DEF Server, main
<1>8. QED
  BY <1>1, <1>2, <1>3, <1>4, <1>5, <1>6, <1>7 DEF Completion

LEMMA ServerHolds == Spec => []Server
<1>1. Init => Server
  BY DEF Init, Server
<1>2. Types /\ Server /\ [Next]_vars => Server'
  <2>1. Server /\ UNCHANGED vars => Server'
    BY DEF Server, vars, main
  <2>2. Next => Quiet \/ Completion
    BY DEF Next, Local, Quiet
  <2>3. QED
    BY <2>1, <2>2, QuietServer, CompletionServer
<1>3. QED
  BY <1>1, <1>2, InitTypes, NextTypes, PTL DEF Spec

\* Each call destroys its view before the next one is created: for every plugin, any
\* number of pools, and requests that fail or are late, there is never a second view.
THEOREM OneViewOnly == Spec => []OneViewAtATime
<1>1. Server => OneViewAtATime
  BY DEF Server, OneViewAtATime
<1>2. QED
  BY <1>1, ServerHolds, PTL

\* The deferred calls leave nothing behind: a run whose requests to open and to close are
\* answered ends without a view and, if it defers a logout, without a session.
THEOREM NothingLeft == Spec => []ServerCleanedUp
<1>1. Server => ServerCleanedUp
  BY DEF Server, ServerCleanedUp
<1>2. QED
  BY <1>1, ServerHolds, PTL

-----------------------------------------------------------------------------
(* The verdict and what is printed.                                         *)

Fresh == ExitState("OK", FALSE, FALSE)
Working == {"config", "login", "create", "retrieve", "destroy", "fetch", "next"}

\* What the deferred calls find: an error that is reported, a panic or a verdict after
\* all calls, or the version.
Reported == nagiosExitState = Critical
Finished == i > Len(main.calls) /\ ~ dataMissing /\ (panicking \/ nagiosExitState.summary)
Versioned == stdout = <<"version">> /\ nagiosExitState = Fresh /\ ~ panicking

\* Until the deferred calls run no exit state is set; data are missing only while the
\* call that failed destroys its view; no summary is printed before the exit.
Verdict ==
  /\ pc = "config" => stdout = << >>
  /\ pc \in Working => nagiosExitState = Fresh /\ ~ panicking
  /\ pc \in Working \ {"destroy"} => ~ dataMissing
  /\ pc = "destroy" => (dataMissing <=> callFailed)
  /\ pc = "logout" => Reported \/ Finished
  /\ pc = "report" => Reported \/ Finished \/ Versioned

Lines == {"version", "Error occurred while destroying view", "summary"}

NoSummaryYet == /\ stdout \in Seq(Lines)
                /\ \A k \in 1..Len(stdout) : stdout[k] # "summary"

Exit == /\ pc # "exited" => NoSummaryYet
        /\ SummaryIsPrinted
        /\ NoVerdictOnPartialData

LEMMA ReportedHasSummary == Reported => nagiosExitState.summary
BY DEF Reported, Critical, ExitState

LEMMA FreshHasNone == nagiosExitState = Fresh => ~ nagiosExitState.summary
BY DEF Fresh, ExitState

\* A line that is not the summary.
LEMMA PrintsNoSummary ==
  ASSUME NoSummaryYet, NEW line \in Lines, line # "summary", stdout' = Append(stdout, line)
  PROVE  NoSummaryYet'
BY DEF NoSummaryYet

LEMMA PrintsSummary ==
  ASSUME NoSummaryYet, stdout' = Append(stdout, "summary")
  PROVE  /\ stdout' # << >> /\ stdout'[Len(stdout')] = "summary"
         /\ \A k \in 1..(Len(stdout') - 1) : stdout'[k] # "summary"
<1>1. Len(stdout) \in Nat
  BY DEF NoSummaryYet
<1>2. /\ Len(stdout') = Len(stdout) + 1
      /\ stdout'[Len(stdout) + 1] = "summary"
      /\ \A k \in 1..Len(stdout) : stdout'[k] = stdout[k]
  <2>1. "summary" \in Lines
    BY DEF Lines
  <2>2. QED
    BY <1>1, <2>1 DEF NoSummaryYet
<1>3. QED
  BY <1>1, <1>2 DEF NoSummaryYet

\* A call that returns without an error is complete, one with an error is reported.
LEMMA ReturnVerdict ==
  ASSUME Verdict, NEW error \in BOOLEAN, Return(error), pc \in Working, dataMissing' => error
  PROVE  Verdict'
<1>1. CASE error
  <2>1. Reported' /\ pc' \in {"logout", "report"}
    BY <1>1 DEF Return, Goto, Deferred, Reported, Critical
  <2>2. QED
    BY <2>1 DEF Verdict, Working
<1>2. CASE ~ error
  <2>1. pc' = "next" /\ UNCHANGED <<nagiosExitState, panicking>> /\ ~ dataMissing'
    BY <1>2 DEF Return, Goto
  <2>2. QED
    BY <2>1 DEF Verdict, Working, Fresh
<1>3. QED
  BY <1>1, <1>2

LEMMA SameVerdict ==
  ASSUME Verdict, UNCHANGED <<plugin, pc, i, callFailed, nagiosExitState, panicking, stdout, dataMissing>>
  PROVE  Verdict'
<1>1. main' = main
  BY DEF main
<1>2. (Reported' <=> Reported) /\ (Finished' <=> Finished) /\ (Versioned' <=> Versioned)
  BY <1>1 DEF Reported, Finished, Versioned, Critical, Fresh
<1>3. QED
  BY <1>2 DEF Verdict, Fresh

LEMMA QuietVerdict == Verdict /\ Quiet => Verdict'
<1> SUFFICES ASSUME Verdict, Quiet PROVE Verdict'
  OBVIOUS
<1>1. main' = main /\ UNCHANGED <<callFailed, dataMissing>>
  BY DEF Quiet, main, server, ConfigAccepted, ConfigRejected, VersionRequested,
     Expire, Send, StartRound, NextCall, Evaluate, ReturnCheckResults
<1>2. CASE ConfigAccepted
  BY <1>1, <1>2 DEF Verdict, ConfigAccepted, Goto, Working, Fresh
<1>3. CASE ConfigRejected
  <2>1. Reported' /\ pc' = "report"
    BY <1>3 DEF ConfigRejected, Goto, Reported, Critical
  <2>2. QED
    BY <2>1 DEF Verdict, Working
<1>4. CASE VersionRequested
  <2>1. pc = "config" /\ pc' = "report" /\ stdout' = Append(stdout, "version")
        /\ UNCHANGED <<nagiosExitState, panicking>>
    BY <1>4 DEF VersionRequested, Goto
  <2>2. stdout' = <<"version">>
    BY <2>1 DEF Verdict
  <2>3. Versioned'
    BY <2>1, <2>2 DEF Verdict, Working, Versioned, Fresh
  <2>4. QED
    BY <2>1, <2>3 DEF Verdict, Working
<1>5. CASE Expire \/ Send
  BY <1>5, SameVerdict DEF Expire, Send, server
<1>6. CASE StartRound
  BY <1>1, <1>6 DEF Verdict, StartRound, Goto, Working, Fresh
<1>7. CASE NextCall
  BY <1>1, <1>7 DEF Verdict, NextCall, Working, Fresh
<1>8. CASE Evaluate
  <2>1. pc = "next" /\ i > Len(main.calls) /\ ~ dataMissing /\ UNCHANGED i
    BY <1>8 DEF Evaluate, Verdict, Working
  <2>2. panicking' \/ nagiosExitState'.summary
    BY <1>8 DEF Evaluate, ExitState
  <2>3. Finished'
    BY <1>1, <2>1, <2>2 DEF Finished
  <2>4. pc' \in {"logout", "report"}
    BY <1>8 DEF Evaluate, Goto, Deferred
  <2>5. QED
    BY <2>3, <2>4 DEF Verdict, Working
<1>9. CASE ReturnCheckResults
  BY <1>9 DEF Verdict, ReturnCheckResults, Goto, Working
<1>10. QED
  BY <1>2, <1>3, <1>4, <1>5, <1>6, <1>7, <1>8, <1>9 DEF Quiet

LEMMA CompletionVerdict == Types /\ Verdict /\ Completion => Verdict'
<1> SUFFICES ASSUME Types, Verdict, Completion PROVE Verdict'
  OBVIOUS
<1>1. CASE LoginOK
  BY <1>1 DEF Verdict, LoginOK, Replied, Goto, Working, Fresh
<1>2. CASE LoginError
  <2>1. Reported' /\ pc' = "report"
    BY <1>2 DEF LoginError, Goto, Reported, Critical
  <2>2. QED
    BY <2>1 DEF Verdict, Working
<1>3. CASE CreateContainerView
  <2>1. pc = "create"
    BY <1>3 DEF CreateContainerView, Replied, Failed
  <2>2. CASE pc' = "retrieve" /\ UNCHANGED <<nagiosExitState, panicking, dataMissing>>
    BY <2>1, <2>2 DEF Verdict, Working, Fresh
  <2>3. CASE Return(TRUE)
    BY <2>1, <2>3, ReturnVerdict DEF Working
  <2>4. QED
    BY <1>3, <2>2, <2>3 DEF CreateContainerView, Goto
<1>4. CASE Retrieve
  <2>1. pc = "retrieve" /\ pc' = "destroy" /\ UNCHANGED <<nagiosExitState, panicking>>
        /\ dataMissing' = (dataMissing \/ callFailed')
    BY <1>4 DEF Retrieve, Goto, Replied, Failed
  <2>2. ~ dataMissing
    BY <2>1 DEF Verdict, Working
  <2>3. QED
    BY <2>1, <2>2 DEF Verdict, Working, Fresh
<1>5. CASE Destroy
  <2>1. pc = "destroy" /\ Return(callFailed) /\ UNCHANGED <<callFailed, dataMissing>>
    BY <1>5 DEF Destroy, Replied, Failed
  <2>2. dataMissing' => callFailed
    BY <2>1 DEF Verdict
  <2>3. QED
    BY <2>1, <2>2, ReturnVerdict DEF Working, Types
<1>6. CASE RetrieveOne
  <2>1. PICK error \in BOOLEAN : Return(error) /\ dataMissing' = (dataMissing \/ error) /\ pc = "fetch"
    BY <1>6 DEF RetrieveOne, Failed, Replied
  <2>2. dataMissing' => error
    BY <2>1 DEF Verdict, Working
  <2>3. QED
    BY <2>1, <2>2, ReturnVerdict DEF Working
<1>7. CASE Logout
  <2>1. pc = "logout" /\ pc' = "report" /\ main' = main
        /\ UNCHANGED <<i, nagiosExitState, panicking, dataMissing>>
    BY <1>7 DEF Logout, Replied, Failed, Goto, main
  <2>2. QED
    BY <2>1 DEF Verdict, Working, Reported, Finished, Critical
<1>8. QED
  BY <1>1, <1>2, <1>3, <1>4, <1>5, <1>6, <1>7 DEF Completion

LEMMA InitVerdict == Init => Verdict /\ Exit
<1> SUFFICES ASSUME Init PROVE Verdict /\ Exit
  OBVIOUS
<1>1. Verdict
  BY DEF Init, Verdict, Fresh, Working
<1>2. pc = "config" /\ stdout = << >>
  BY DEF Init
<1>3. NoSummaryYet
  BY <1>2 DEF NoSummaryYet
<1>4. QED
  BY <1>1, <1>2, <1>3 DEF Exit, SummaryIsPrinted, NoVerdictOnPartialData

\* Only the last deferred call reaches the exit, and prints a summary.
LEMMA ExitReached == Verdict /\ Exit /\ ReturnCheckResults => Exit'
<1> SUFFICES ASSUME Verdict, Exit, ReturnCheckResults PROVE Exit'
  OBVIOUS
<1>1. /\ pc = "report" /\ pc' = "exited" /\ main' = main /\ UNCHANGED <<i, dataMissing>>
      /\ nagiosExitState' = IF panicking THEN Critical ELSE nagiosExitState
      /\ stdout' = IF nagiosExitState'.summary THEN Append(stdout, "summary") ELSE stdout
  BY DEF ReturnCheckResults, Goto, server, main
<1>2. NoSummaryYet
  BY <1>1 DEF Exit
<1>3. CASE Versioned
  <2>1. stdout' = <<"version">>
    BY <1>1, <1>3, FreshHasNone DEF Versioned
  <2>2. QED
    BY <1>1, <2>1 DEF Exit, SummaryIsPrinted, NoVerdictOnPartialData
<1>4. CASE Reported \/ Finished
  <2>1. nagiosExitState'.summary
    BY <1>1, <1>4 DEF Reported, Finished, Critical, ExitState
  <2>2. stdout' = Append(stdout, "summary")
    BY <1>1, <2>1
  <2>3. SummaryIsPrinted'
    BY <1>2, <2>2, PrintsSummary DEF SummaryIsPrinted
  <2>4. (i' > Len(main'.calls) /\ ~ dataMissing') \/ nagiosExitState' = Critical
    BY <1>1, <1>4 DEF Reported, Finished
  <2>5. NoVerdictOnPartialData'
    BY <2>4 DEF NoVerdictOnPartialData, Critical
  <2>6. QED
    BY <1>1, <2>3, <2>5 DEF Exit
<1>5. QED
  BY <1>1, <1>3, <1>4 DEF Verdict

LEMMA NextExit == Types /\ Verdict /\ Exit /\ [Next]_vars => Exit'
<1> SUFFICES ASSUME Types, Verdict, Exit, [Next]_vars PROVE Exit'
  OBVIOUS
<1>1. CASE UNCHANGED vars
  <2>1. main' = main
    BY <1>1 DEF vars, main
  <2>2. QED
    BY <1>1, <2>1 DEF vars, Exit, NoSummaryYet, SummaryIsPrinted, NoVerdictOnPartialData, Critical
<1>2. CASE ReturnCheckResults
  BY <1>2, ExitReached
<1>3. CASE Next /\ ~ ReturnCheckResults
  <2>1. pc # "exited" /\ pc' # "exited"
    BY <1>3 DEF Next, Local, Completion, ConfigAccepted, ConfigRejected, VersionRequested, Expire,
       Send, StartRound, NextCall, Evaluate, LoginOK, LoginError, CreateContainerView, Retrieve,
       Destroy, RetrieveOne, Logout, Replied, Failed, Return, Goto, Deferred, Requests
  <2>2. NoSummaryYet
    BY <2>1 DEF Exit
  <2>3. \/ UNCHANGED stdout
        \/ stdout' = Append(stdout, "version")
        \/ stdout' = Append(stdout, "Error occurred while destroying view")
    BY <1>3 DEF Next, Local, Completion, ConfigAccepted, ConfigRejected, VersionRequested, Expire,
       Send, StartRound, NextCall, Evaluate, LoginOK, LoginError, CreateContainerView, Retrieve,
       Destroy, RetrieveOne, Logout
  <2>4. NoSummaryYet'
    <3>1. CASE UNCHANGED stdout
      BY <2>2, <3>1 DEF NoSummaryYet
    <3>2. CASE stdout' = Append(stdout, "version")
      BY <2>2, <3>2, PrintsNoSummary DEF Lines
    <3>3. CASE stdout' = Append(stdout, "Error occurred while destroying view")
      BY <2>2, <3>3, PrintsNoSummary DEF Lines
    <3>4. QED
      BY <2>3, <3>1, <3>2, <3>3
  <2>5. QED
    BY <2>1, <2>4 DEF Exit, SummaryIsPrinted, NoVerdictOnPartialData
<1>4. QED
  BY <1>1, <1>2, <1>3

LEMMA ExitHolds == Spec => []Exit
<1>1. Types /\ Verdict /\ [Next]_vars => Verdict'
  <2>1. Verdict /\ UNCHANGED vars => Verdict'
    BY SameVerdict DEF vars
  <2>2. Next => Quiet \/ Completion
    BY DEF Next, Local, Quiet
  <2>3. QED
    BY <2>1, <2>2, QuietVerdict, CompletionVerdict
<1>2. QED
  BY <1>1, InitTypes, InitVerdict, NextTypes, NextExit, PTL DEF Spec

\* Partial data never become a verdict: for every plugin, whichever request fails, is lost
\* or is late, an exit state other than a CRITICAL error comes after all calls.
THEOREM VerdictOnAllData == Spec => []NoVerdictOnPartialData
<1>1. Exit => NoVerdictOnPartialData
  BY DEF Exit
<1>2. QED
  BY <1>1, ExitHolds, PTL

\* Every run that is not asked for the version prints one summary, as its last line.
THEOREM SummaryAlwaysPrinted == Spec => []SummaryIsPrinted
<1>1. Exit => SummaryIsPrinted
  BY DEF Exit
<1>2. QED
  BY <1>1, ExitHolds, PTL
=============================================================================
