--------------------- MODULE HostDatastorePairingProofs ---------------------
(***************************************************************************)
(* Proofs about HostDatastorePairing, for every inventory, every setting   *)
(* of the flags and any number of changes between the requests.            *)
(***************************************************************************)
EXTENDS HostDatastorePairing, TLAPS

LEMMA EmptyFunction ==
  ASSUME NEW f, NEW D, NEW R, PartialFunction(f, D, R)
  PROVE  f = << >> <=> DOMAIN f = {}
BY DEF PartialFunction

LEMMA EmptyIsPartial ==
  ASSUME NEW D, NEW R
  PROVE  PartialFunction(<< >>, D, R)
BY DEF PartialFunction

-----------------------------------------------------------------------------
(* Types.                                                                   *)

Issue == [host : Hosts \cup {NoHost}, datastores : (SUBSET Datastores) \ {{}}]
VMRecord == [name : Values, host : Hosts, on : SUBSET Datastores]

\* What a change of the inventory at an object o leaves as it is.
Agree(w, o) ==
  /\ w \in Inventory
  /\ w.vmName = inv.vmName
  /\ \A v \in VMs : v # o => w.host[v] = inv.host[v] /\ w.on[v] = inv.on[v]
  /\ \A h \in Hosts : h # o => w.hostCA[h] = inv.hostCA[h]
  /\ \A d \in Datastores : d # o => w.dsCA[d] = inv.dsCA[d] /\ (d \in inv.destroyed => d \in w.destroyed)
  /\ \A v \in VMs : w.on[v] \cap w.destroyed = {}

\* No machine is on a datastore that is destroyed.
OnExisting == \A v \in VMs : inv.on[v] \cap inv.destroyed = {}

LEMMA InitInventory == Init => inv \in Inventory /\ OnExisting
BY PairingAssumption DEF Init, OnExisting

LEMMA EnvironmentAgrees ==
  ASSUME inv \in Inventory, OnExisting, Environment
  PROVE  \E o \in VMs \cup Hosts \cup Datastores : Agree(inv', o) /\ Change(inv', o)
<1>1. ASSUME NEW v \in VMs, MigrateVM(v) PROVE Agree(inv', v) /\ Change(inv', v)
  <2>1. PICK h \in Hosts : inv' = [inv EXCEPT !.host[v] = h] /\ Change(inv', v)
    BY <1>1 DEF MigrateVM, Change
  <2>2. QED
    BY <2>1 DEF Agree, Inventory, OnExisting
<1>2. ASSUME NEW v \in VMs, RelocateVM(v) PROVE Agree(inv', v) /\ Change(inv', v)
  <2>1. PICK d \in Datastores \ inv.destroyed : inv' = [inv EXCEPT !.on[v] = {d}] /\ Change(inv', v)
    BY <1>2 DEF RelocateVM, Change
  <2>2. QED
    BY <2>1 DEF Agree, Inventory, OnExisting
<1>3. ASSUME NEW h \in Hosts, TagHost(h) PROVE Agree(inv', h) /\ Change(inv', h)
  <2>1. PICK a \in Attributes : inv' = [inv EXCEPT !.hostCA[h] = a] /\ Change(inv', h)
    BY <1>3, PairingAssumption DEF TagHost, Change
  <2>2. QED
    BY <2>1 DEF Agree, Inventory, OnExisting
<1>4. ASSUME NEW d \in Datastores, TagDatastore(d) PROVE Agree(inv', d) /\ Change(inv', d)
  <2>1. PICK a \in Attributes : inv' = [inv EXCEPT !.dsCA[d] = a] /\ Change(inv', d)
    BY <1>4, PairingAssumption DEF TagDatastore, Change
  <2>2. QED
    BY <2>1 DEF Agree, Inventory, OnExisting
<1>5. ASSUME NEW d \in Datastores, DestroyDatastore(d) PROVE Agree(inv', d) /\ Change(inv', d)
  <2>1. /\ inv' = [inv EXCEPT !.destroyed = @ \cup {d}] /\ Change(inv', d)
        /\ \A v \in VMs : d \notin inv.on[v]
    BY <1>5 DEF DestroyDatastore, Change
  <2>2. QED
    BY <2>1 DEF Agree, Inventory, OnExisting
<1>6. QED
  BY <1>1, <1>2, <1>3, <1>4, <1>5 DEF Environment

LEMMA InitTypes == Init => TypeOK /\ OnExisting
<1> SUFFICES ASSUME Init PROVE TypeOK /\ OnExisting
  OBVIOUS
<1>1. /\ PartialFunction(vms, VMs, VMRecord)
      /\ PartialFunction(dss, Datastores, Attributes)
      /\ PartialFunction(hss, Hosts, Attributes)
      /\ PartialFunction(h2dIdx, Hosts, (SUBSET Datastores) \ {{}})
      /\ PartialFunction(issues, {inv.vmName[v] : v \in VMs}, Issue)
  BY EmptyIsPartial DEF Init
<1>2. flags \in Flags /\ changes \in 0..MaxChanges
  BY PairingAssumption DEF Init
<1>3. QED
  BY <1>1, <1>2, InitInventory DEF Init, TypeOK, VMRecord, Issue

LEMMA EnvironmentTypes == TypeOK /\ OnExisting /\ Environment => TypeOK' /\ OnExisting'
<1> SUFFICES ASSUME TypeOK, OnExisting, Environment PROVE TypeOK' /\ OnExisting'
  OBVIOUS
<1>1. PICK o \in VMs \cup Hosts \cup Datastores : Agree(inv', o) /\ Change(inv', o)
  BY EnvironmentAgrees DEF TypeOK
<1>2. inv' \in Inventory /\ inv'.vmName = inv.vmName /\ OnExisting'
  BY <1>1 DEF Agree, OnExisting
<1>3. changes' \in 0..MaxChanges
  BY <1>1, PairingAssumption DEF Change, TypeOK
<1>4. touched' \subseteq VMs \cup Hosts \cup Datastores
  BY <1>1 DEF Change, TypeOK
<1>5. UNCHANGED <<flags, stage, vms, dss, hss, h2dIdx, pending, issues, outcome>>
  BY <1>1 DEF Change, retrieved
<1>6. QED
  BY <1>2, <1>3, <1>4, <1>5 DEF TypeOK

\* There is nothing to validate before the index is built.
Idle == stage \notin {"validate", "done"} => pending = {} /\ issues = << >> /\ h2dIdx = << >>

LEMMA AbortTypes == TypeOK /\ Abort => TypeOK'
BY DEF TypeOK, Abort, Reading, retrieved

LEMMA RetrievalTypes ==
  ASSUME TypeOK, Idle, RequestFails \/ SelectVMs \/ GetDatastores \/ GetHostSystems \/ GetObjectCAVals
  PROVE  TypeOK'
<1>1. CASE RequestFails
  BY <1>1, AbortTypes DEF RequestFails
<1>2. CASE SelectVMs
  <2>1. PICK S \in SUBSET VMs :
          vms' = [v \in S |-> [name |-> inv.vmName[v], host |-> inv.host[v], on |-> inv.on[v]]]
    BY <1>2 DEF SelectVMs
  <2>2. PartialFunction(vms', VMs, VMRecord)
    BY <2>1 DEF PartialFunction, VMRecord, TypeOK, Inventory
  <2>3. pending' \subseteq DOMAIN vms'
    BY <1>2 DEF SelectVMs, Idle
  <2>4. QED
    BY <1>2, <2>2, <2>3 DEF SelectVMs, Reading, TypeOK, VMRecord
<1>3. CASE GetDatastores
  <2>1. CASE Abort
    BY <2>1, AbortTypes
  <2>2. CASE ~ Abort
    <3>1. dss' = [d \in Datastores \ inv.destroyed |-> inv.dsCA[d]]
      BY <1>3, <2>2 DEF GetDatastores
    <3>2. PartialFunction(dss', Datastores, Attributes)
      BY <3>1 DEF PartialFunction, TypeOK, Inventory
    <3>3. QED
      BY <1>3, <2>2, <3>2 DEF GetDatastores, Reading, TypeOK
  <2>3. QED
    BY <2>1, <2>2
<1>4. CASE GetHostSystems
  <2>1. PartialFunction(hss', Hosts, Attributes)
    BY <1>4 DEF GetHostSystems, PartialFunction, TypeOK, Inventory
  <2>2. QED
    BY <1>4, <2>1 DEF GetHostSystems, Reading, TypeOK
<1>5. CASE GetObjectCAVals
  BY <1>5, AbortTypes DEF GetObjectCAVals, Reading, retrieved, TypeOK
<1>6. QED
  BY <1>1, <1>2, <1>3, <1>4, <1>5

\* The index has an entry for each host that is paired, and only pairs for each entry.
Paired == {h \in DOMAIN hss : PairedDatastores(h) # {}}

LEMMA IndexTypes ==
  ASSUME TypeOK, NewHostToDatastoreIndex, ~ Abort
  PROVE  /\ TypeOK' /\ stage' = "validate" /\ pending' = DOMAIN vms /\ Paired # {}
         /\ h2dIdx' = [h \in Paired |-> PairedDatastores(h)]
         /\ UNCHANGED <<inv, changes, touched, flags, vms, dss, hss, issues, outcome>>
<1>1. /\ stage' = "validate" /\ pending' = DOMAIN vms /\ Paired # {}
      /\ h2dIdx' = [h \in Paired |-> PairedDatastores(h)]
      /\ UNCHANGED <<inv, changes, touched, flags, vms, dss, hss, issues, outcome>>
  BY DEF NewHostToDatastoreIndex, Reading, retrieved, Paired
<1>2. \A h : PairedDatastores(h) \in SUBSET Datastores
  BY DEF PairedDatastores, Candidates, TypeOK, PartialFunction
<1>3. Paired \subseteq Hosts
  BY DEF Paired, TypeOK, PartialFunction
<1>4. PartialFunction(h2dIdx', Hosts, (SUBSET Datastores) \ {{}})
  BY <1>1, <1>2, <1>3 DEF PartialFunction, Paired
<1>5. QED
  BY <1>1, <1>4 DEF TypeOK

\* What one iteration of the loop does to the issues.
LEMMA IssuesAfter ==
  ASSUME NEW v \in VMs, ValidateVirtualMachinePairings(v), ~ Abort
  PROVE  /\ stage = "validate" /\ v \in pending /\ ~ LookupFails(v) /\ pending' = pending \ {v}
         /\ UNCHANGED <<inv, changes, touched, flags, stage, vms, dss, hss, h2dIdx, outcome>>
         /\ Mismatches(v) = {} => /\ DOMAIN issues' = DOMAIN issues
                                  /\ issues' = [n \in DOMAIN issues |-> issues[n]]
         /\ Mismatches(v) # {} =>
              issues' = [n \in DOMAIN issues \cup {vms[v].name} |->
                           IF n = vms[v].name THEN [host |-> hostName(v), datastores |-> Mismatches(v)]
                                              ELSE issues[n]]
<1>1. /\ stage = "validate" /\ v \in pending /\ ~ LookupFails(v) /\ pending' = pending \ {v}
      /\ UNCHANGED <<inv, changes, touched, flags, stage, vms, dss, hss, h2dIdx, outcome>>
      /\ issues' = [n \in DOMAIN issues \cup {vms[w].name : w \in {x \in {v} : Mismatches(x) # {}}} |->
                       IF n = vms[v].name /\ Mismatches(v) # {}
                       THEN [host |-> hostName(v), datastores |-> Mismatches(v)]
                       ELSE issues[n]]
  BY DEF ValidateVirtualMachinePairings, Reading, retrieved
<1>2. CASE Mismatches(v) = {}
  <2>1. {vms[w].name : w \in {x \in {v} : Mismatches(x) # {}}} = {}
    BY <1>2
  <2>2. issues' = [n \in DOMAIN issues |-> issues[n]]
    BY <1>1, <1>2, <2>1
  <2>3. QED
    BY <1>1, <1>2, <2>2
<1>3. CASE Mismatches(v) # {}
  <2>1. {vms[w].name : w \in {x \in {v} : Mismatches(x) # {}}} = {vms[v].name}
    BY <1>3
  <2>2. QED
    BY <1>1, <1>3, <2>1
<1>4. QED
  BY <1>2, <1>3

\* The machines are known by the names they have.
Names == \A v \in DOMAIN vms : vms[v].name = inv.vmName[v]

LEMMA ValidateTypes ==
  ASSUME TypeOK, Names, NEW v \in VMs, ValidateVirtualMachinePairings(v)
  PROVE  TypeOK'
<1>1. CASE Abort
  BY <1>1, AbortTypes
<1>2. CASE ~ Abort
  <2> DEFINE N == {inv.vmName[w] : w \in VMs}
  <2>1. vms[v].name \in N /\ Mismatches(v) \in SUBSET Datastores /\ hostName(v) \in Hosts \cup {NoHost}
    <3>1. v \in DOMAIN vms
      BY <1>2, IssuesAfter DEF TypeOK
    <3>2. vms[v] \in VMRecord
      BY <3>1 DEF TypeOK, PartialFunction, VMRecord
    <3>3. QED
      BY <3>1, <3>2 DEF Names, Mismatches, Outside, hostName, VMRecord
  <2>2. PartialFunction(issues', N, Issue)
    <3>1. PartialFunction(issues, N, Issue)
      BY DEF TypeOK, Issue
    <3>2. CASE Mismatches(v) = {}
      BY <1>2, <3>1, <3>2, IssuesAfter DEF PartialFunction
    <3>3. CASE Mismatches(v) # {}
      <4>1. [host |-> hostName(v), datastores |-> Mismatches(v)] \in Issue
        BY <2>1, <3>3 DEF Issue
      <4>2. issues' = [n \in DOMAIN issues \cup {vms[v].name} |->
                         IF n = vms[v].name THEN [host |-> hostName(v), datastores |-> Mismatches(v)]
                                            ELSE issues[n]]
        BY <1>2, <3>3, IssuesAfter
      <4>3. \A n \in DOMAIN issues : n \in N /\ issues[n] \in Issue
        BY <3>1 DEF PartialFunction
      <4>4. QED
        BY <2>1, <4>1, <4>2, <4>3 DEF PartialFunction
    <3>4. QED
      BY <3>2, <3>3
  <2>3. pending' \subseteq DOMAIN vms
    BY <1>2, IssuesAfter DEF TypeOK
  <2>4. UNCHANGED <<inv, changes, touched, flags, stage, vms, dss, hss, h2dIdx, outcome>>
    BY <1>2, IssuesAfter
  <2>5. QED
    BY <2>2, <2>3, <2>4 DEF TypeOK, Issue
<1>3. QED
  BY <1>1, <1>2

\* Types and what they need, as one invariant.
Typed == TypeOK /\ OnExisting /\ Idle /\ Names

\* The steps of the plugin; each of them leaves the inventory and the flags alone.
LEMMA CheckReads ==
  ASSUME Check
  PROVE  UNCHANGED <<inv, changes, touched, flags>>
BY DEF Check, RequestFails, SelectVMs, GetDatastores, GetHostSystems, GetObjectCAVals,
   NewHostToDatastoreIndex, ValidateVirtualMachinePairings, Evaluate, Abort, Reading

LEMMA AbortFacts ==
  ASSUME Abort
  PROVE  /\ stage' = "done" /\ outcome' = "error"
         /\ UNCHANGED <<inv, changes, touched, flags, vms, dss, hss, h2dIdx, pending, issues>>
BY DEF Abort, Reading, retrieved

\* What the requests do when they are answered and nothing ends the run.
LEMMA RetrievalFacts ==
  ASSUME Idle, SelectVMs \/ GetDatastores \/ GetHostSystems \/ GetObjectCAVals, ~ Abort
  PROVE  /\ stage \in {"vms", "datastores", "hosts", "attributes"}
         /\ stage' \in {"datastores", "hosts", "attributes", "index"}
         /\ UNCHANGED <<inv, changes, touched, flags, h2dIdx, pending, issues, outcome>>
         /\ pending = {} /\ issues = << >> /\ h2dIdx = << >>
BY DEF SelectVMs, GetDatastores, GetHostSystems, GetObjectCAVals, Reading, retrieved, Idle

LEMMA NextTyped == Typed /\ [Next]_vars => Typed'
<1> SUFFICES ASSUME Typed, [Next]_vars PROVE Typed'
  OBVIOUS
<1> USE DEF Typed
<1>1. CASE UNCHANGED vars
  BY <1>1 DEF vars, retrieved, TypeOK, OnExisting, Idle, Names
<1>2. CASE Environment
  <2>1. PICK o : Agree(inv', o) /\ Change(inv', o)
    BY <1>2, EnvironmentAgrees DEF TypeOK
  <2>2. inv'.vmName = inv.vmName /\ UNCHANGED <<stage, vms, pending, issues, h2dIdx>>
    BY <2>1 DEF Agree, Change, retrieved
  <2>3. Idle' /\ Names'
    BY <2>2 DEF Idle, Names
  <2>4. QED
    BY <1>2, <2>3, EnvironmentTypes
<1>3. CASE Abort
  <2>1. Idle' /\ Names' /\ OnExisting'
    BY <1>3, AbortFacts DEF Idle, Names, OnExisting
  <2>2. QED
    BY <1>3, <2>1, AbortTypes
<1>4. CASE ~ Abort /\ (SelectVMs \/ GetDatastores \/ GetHostSystems \/ GetObjectCAVals)
  <2>1. TypeOK' /\ Idle' /\ OnExisting'
    BY <1>4, RetrievalTypes, RetrievalFacts DEF Idle, OnExisting
  <2>2. Names'
    <3>1. CASE SelectVMs
      <4>1. PICK S \in SUBSET VMs :
              vms' = [v \in S |-> [name |-> inv.vmName[v], host |-> inv.host[v], on |-> inv.on[v]]]
        BY <3>1 DEF SelectVMs
      <4>2. QED
        BY <1>4, <4>1, RetrievalFacts DEF Names
    <3>2. CASE ~ SelectVMs
      <4>1. UNCHANGED <<inv, vms>>
        BY <1>4, <3>2 DEF GetDatastores, GetHostSystems, GetObjectCAVals, Reading, retrieved
      <4>2. QED
        BY <4>1 DEF Names
    <3>3. QED
      BY <3>1, <3>2
  <2>3. QED
    BY <2>1, <2>2
<1>5. CASE ~ Abort /\ NewHostToDatastoreIndex
  BY <1>5, IndexTypes DEF Idle, Names, OnExisting
<1>6. CASE ~ Abort /\ \E v \in VMs : ValidateVirtualMachinePairings(v)
  <2>1. PICK v \in VMs : ValidateVirtualMachinePairings(v)
    BY <1>6
  <2>2. UNCHANGED <<inv, vms, stage>> /\ stage = "validate"
    BY <1>6, <2>1, IssuesAfter
  <2>3. QED
    BY <2>1, <2>2, ValidateTypes DEF Idle, Names, OnExisting
<1>7. CASE Evaluate
  <2>1. /\ stage' = "done" /\ outcome' \in {"OK", "CRITICAL"}
        /\ UNCHANGED <<inv, changes, touched, flags, vms, dss, hss, h2dIdx, pending, issues>>
    BY <1>7 DEF Evaluate, Reading, retrieved
  <2>2. QED
    BY <2>1 DEF TypeOK, Idle, Names, OnExisting
<1>8. QED
  BY <1>1, <1>2, <1>3, <1>4, <1>5, <1>6, <1>7 DEF Next, Check, RequestFails

LEMMA InitTyped == Init => Typed
<1> SUFFICES ASSUME Init PROVE Typed
  OBVIOUS
<1>1. Idle /\ Names
  BY DEF Init, Idle, Names
<1>2. QED
  BY <1>1, InitTypes DEF Typed

\* The pairing keeps its types for any inventory and any changes; machines are known by
\* their names throughout, and an entry of the index or of the issues is never empty.
THEOREM TypeCorrect == Spec => []TypeOK
<1>1. Spec => []Typed
  BY InitTyped, NextTyped, PTL DEF Spec
<1>2. Typed => TypeOK
  BY DEF Typed
<1>3. QED
  BY <1>1, <1>2, PTL

-----------------------------------------------------------------------------
(* What was retrieved, and the index.                                       *)

\* What was retrieved of an object that did not change since is what the inventory has.
Current ==
  /\ \A v \in DOMAIN vms : v \notin touched => vms[v].host = inv.host[v] /\ vms[v].on = inv.on[v]
  /\ \A d \in DOMAIN dss : d \notin touched => dss[d] = inv.dsCA[d]
  /\ \A h \in DOMAIN hss : h \notin touched => hss[h] = inv.hostCA[h]
  /\ changes = 0 => touched = {}
  /\ stage \in {"hosts", "attributes", "index", "validate"} \/ h2dIdx # << >> =>
       \A d \in Datastores : d \notin DOMAIN dss /\ d \notin touched => d \in inv.destroyed
  /\ stage \in {"attributes", "index", "validate"} \/ h2dIdx # << >> => DOMAIN hss = Hosts

LEMMA NextCurrent == Typed /\ Current /\ [Next]_vars => Current'
<1> SUFFICES ASSUME Typed, Current, [Next]_vars PROVE Current'
  OBVIOUS
<1>0. TypeOK /\ OnExisting /\ Idle /\ inv \in Inventory /\ changes \in Nat
  BY PairingAssumption DEF Typed, TypeOK
<1>1. CASE UNCHANGED vars
  BY <1>1 DEF vars, retrieved, Current
<1>2. CASE Environment
  <2>1. PICK o : Agree(inv', o) /\ Change(inv', o)
    BY <1>0, <1>2, EnvironmentAgrees
  <2>2. /\ stage \in {"datastores", "hosts"} /\ changes' = changes + 1 /\ touched' = touched \cup {o}
        /\ UNCHANGED <<stage, vms, dss, hss, h2dIdx>>
    BY <2>1 DEF Change, retrieved
  <2>3. changes' # 0
    BY <1>0, <2>2
  <2>4. DOMAIN vms \subseteq VMs /\ DOMAIN dss \subseteq Datastores /\ DOMAIN hss \subseteq Hosts
    BY <1>0 DEF TypeOK, PartialFunction
  <2>5. h2dIdx = << >>
    BY <1>0, <2>2 DEF Idle
  <2>6. /\ \A v \in DOMAIN vms : v \notin touched' => vms[v].host = inv'.host[v] /\ vms[v].on = inv'.on[v]
        /\ \A d \in DOMAIN dss : d \notin touched' => dss[d] = inv'.dsCA[d]
        /\ \A h \in DOMAIN hss : h \notin touched' => hss[h] = inv'.hostCA[h]
    BY <2>1, <2>2, <2>4 DEF Current, Agree
  <2>7. stage = "hosts" => \A d \in Datastores : d \notin DOMAIN dss /\ d \notin touched' => d \in inv'.destroyed
    BY <2>1, <2>2 DEF Current, Agree
  <2>8. QED
    BY <2>2, <2>3, <2>5, <2>6, <2>7 DEF Current
<1>3. CASE Abort
  BY <1>3, AbortFacts DEF Current
<1>4. CASE ~ Abort /\ SelectVMs
  <2>1. PICK S \in SUBSET VMs :
          vms' = [v \in S |-> [name |-> inv.vmName[v], host |-> inv.host[v], on |-> inv.on[v]]]
    BY <1>4 DEF SelectVMs
  <2>2. stage' = "datastores" /\ UNCHANGED <<inv, changes, touched, dss, hss, h2dIdx>> /\ h2dIdx = << >>
    BY <1>0, <1>4, RetrievalFacts DEF SelectVMs
  <2>3. QED
    BY <2>1, <2>2 DEF Current
<1>5. CASE ~ Abort /\ GetDatastores
  <2>1. /\ dss' = [d \in Datastores \ inv.destroyed |-> inv.dsCA[d]] /\ stage' = "hosts"
        /\ UNCHANGED <<inv, changes, touched, vms, hss, h2dIdx>> /\ h2dIdx = << >>
    BY <1>0, <1>5, RetrievalFacts DEF GetDatastores
  <2>2. QED
    BY <2>1 DEF Current
<1>6. CASE ~ Abort /\ GetHostSystems
  <2>1. /\ hss' = inv.hostCA /\ stage = "hosts" /\ stage' = "attributes"
        /\ UNCHANGED <<inv, changes, touched, vms, dss, h2dIdx>> /\ h2dIdx = << >>
    BY <1>0, <1>6, RetrievalFacts DEF GetHostSystems
  <2>2. DOMAIN inv.hostCA = Hosts
    BY <1>0 DEF Inventory
  <2>3. QED
    BY <2>1, <2>2 DEF Current
<1>7. CASE ~ Abort /\ GetObjectCAVals
  <2>1. /\ stage = "attributes" /\ stage' = "index"
        /\ UNCHANGED <<inv, changes, touched, vms, dss, hss, h2dIdx>> /\ h2dIdx = << >>
    BY <1>0, <1>7, RetrievalFacts DEF GetObjectCAVals, retrieved
  <2>2. QED
    BY <2>1 DEF Current
<1>8. CASE ~ Abort /\ NewHostToDatastoreIndex
  <2>1. stage = "index" /\ stage' = "validate" /\ UNCHANGED <<inv, changes, touched, vms, dss, hss>>
    BY <1>0, <1>8, IndexTypes DEF NewHostToDatastoreIndex
  <2>2. QED
    BY <2>1 DEF Current
<1>9. CASE ~ Abort /\ \E v \in VMs : ValidateVirtualMachinePairings(v)
  <2>1. PICK v \in VMs : ValidateVirtualMachinePairings(v)
    BY <1>9
  <2>2. UNCHANGED <<inv, changes, touched, stage, vms, dss, hss, h2dIdx>>
    BY <1>9, <2>1, IssuesAfter
  <2>3. QED
    BY <2>2 DEF Current
<1>10. CASE Evaluate
  BY <1>10 DEF Current, Evaluate, Reading, retrieved
<1>11. QED
  BY <1>1, <1>2, <1>3, <1>4, <1>5, <1>6, <1>7, <1>8, <1>9, <1>10 DEF Next, Check, RequestFails

\* The index, once there is one, has the pairs of what was retrieved, and no machine is
\* validated without it.
Indexed ==
  /\ h2dIdx # << >> => stage \in {"validate", "done"} /\ h2dIdx = [h \in Paired |-> PairedDatastores(h)]
  /\ stage = "validate" \/ outcome \in {"OK", "CRITICAL"} => h2dIdx # << >>

LEMMA SamePairs ==
  ASSUME UNCHANGED <<flags, dss, hss>>
  PROVE  Paired' = Paired /\ \A h : PairedDatastores(h)' = PairedDatastores(h)
<1>1. ASSUME NEW h PROVE PairedDatastores(h)' = PairedDatastores(h)
  BY DEF PairedDatastores, Candidates, Ignored, Matches
<1>2. QED
  BY <1>1 DEF Paired

LEMMA IndexedKept ==
  ASSUME Indexed, UNCHANGED <<flags, dss, hss, h2dIdx>>,
         h2dIdx # << >> => stage' \in {"validate", "done"},
         stage' = "validate" \/ outcome' \in {"OK", "CRITICAL"} => h2dIdx # << >>
  PROVE  Indexed'
BY SamePairs DEF Indexed

LEMMA NextIndexed == Typed /\ Indexed /\ [Next]_vars => Indexed'
<1> SUFFICES ASSUME Typed, Indexed, [Next]_vars PROVE Indexed'
  OBVIOUS
<1>0. TypeOK /\ Idle
  BY DEF Typed
<1>1. CASE UNCHANGED vars
  BY <1>1, IndexedKept DEF vars, retrieved, Indexed
<1>2. CASE Environment
  <2>1. stage \in {"datastores", "hosts"} /\ UNCHANGED <<stage, flags, dss, hss, h2dIdx, outcome>>
    BY <1>2 DEF Environment, MigrateVM, RelocateVM, TagHost, TagDatastore, DestroyDatastore, Change, retrieved
  <2>2. QED
    BY <2>1, IndexedKept DEF Indexed
<1>3. CASE Abort
  BY <1>3, AbortFacts, IndexedKept
<1>4. CASE ~ Abort /\ (SelectVMs \/ GetDatastores \/ GetHostSystems \/ GetObjectCAVals)
  <2>1. h2dIdx' = << >> /\ stage' # "validate" /\ outcome' = outcome /\ h2dIdx = << >>
    BY <1>0, <1>4, RetrievalFacts
  <2>2. QED
    BY <2>1 DEF Indexed
<1>5. CASE ~ Abort /\ NewHostToDatastoreIndex
  <2>1. /\ stage' = "validate" /\ h2dIdx' = [h \in Paired |-> PairedDatastores(h)] /\ Paired # {}
        /\ UNCHANGED <<flags, dss, hss>> /\ TypeOK'
    BY <1>0, <1>5, IndexTypes
  <2>2. PartialFunction(h2dIdx', Hosts, (SUBSET Datastores) \ {{}}) /\ DOMAIN h2dIdx' # {}
    BY <2>1 DEF TypeOK
  <2>3. h2dIdx' # << >>
    BY <2>2, EmptyFunction
  <2>4. QED
    BY <2>1, <2>3, SamePairs DEF Indexed
<1>6. CASE ~ Abort /\ \E v \in VMs : ValidateVirtualMachinePairings(v)
  <2>1. PICK v \in VMs : ValidateVirtualMachinePairings(v)
    BY <1>6
  <2>2. UNCHANGED <<flags, stage, dss, hss, h2dIdx, outcome>>
    BY <1>6, <2>1, IssuesAfter
  <2>3. QED
    BY <2>2, IndexedKept DEF Indexed
<1>7. CASE Evaluate
  <2>1. stage = "validate" /\ stage' = "done" /\ UNCHANGED <<flags, dss, hss, h2dIdx>>
    BY <1>7 DEF Evaluate, Reading, retrieved
  <2>2. QED
    BY <2>1, IndexedKept DEF Indexed
<1>8. QED
  BY <1>1, <1>2, <1>3, <1>4, <1>5, <1>6, <1>7 DEF Next, Check, RequestFails

-----------------------------------------------------------------------------
(* The issues and the outcome.                                              *)

\* The issues are the mismatches of the machines in S, none of which has a datastore
\* that cannot be looked up.
Explained(S) ==
  /\ \A v \in S : ~ LookupFails(v)
  /\ \A v \in S : Mismatches(v) # {} => vms[v].name \in DOMAIN issues
  /\ \A n \in DOMAIN issues : \E v \in S : /\ vms[v].name = n /\ Mismatches(v) # {}
                                        /\ issues[n] = [host |-> hostName(v), datastores |-> Mismatches(v)]

Outcomes ==
  /\ stage = "done" <=> outcome # "none"
  /\ stage = "validate" \/ outcome \in {"OK", "CRITICAL"} => Explained(DOMAIN vms \ pending)
  /\ outcome \in {"OK", "CRITICAL"} => pending = {}
  /\ outcome = "OK" => issues = << >>
  /\ outcome = "CRITICAL" => issues # << >>
  /\ outcome = "error" /\ h2dIdx # << >> => \E v \in DOMAIN vms : LookupFails(v)

\* What is said of a machine depends on what was retrieved only.
LEMMA SameFaults ==
  ASSUME UNCHANGED <<flags, vms, dss, h2dIdx>>, NEW v
  PROVE  /\ LookupFails(v)' <=> LookupFails(v)
         /\ Mismatches(v)' = Mismatches(v) /\ hostName(v)' = hostName(v)
<1>1. Outside(v)' = Outside(v) /\ hostName(v)' = hostName(v)
  BY DEF Outside, DatastoresOf, hostName
<1>2. \A d : (InIndex(d)' <=> InIndex(d)) /\ (Ignored(d)' <=> Ignored(d))
  BY DEF InIndex, Ignored
<1>3. QED
  BY <1>1, <1>2 DEF LookupFails, Mismatches

LEMMA SameExplained ==
  ASSUME UNCHANGED <<flags, vms, dss, h2dIdx, issues, pending>>
  PROVE  /\ Explained(DOMAIN vms \ pending) => Explained(DOMAIN vms \ pending)'
         /\ (\E v \in DOMAIN vms : LookupFails(v)) => (\E v \in DOMAIN vms : LookupFails(v))'
<1>1. \A v : (LookupFails(v)' <=> LookupFails(v)) /\ Mismatches(v)' = Mismatches(v) /\ hostName(v)' = hostName(v)
  BY SameFaults
<1>2. QED
  BY <1>1 DEF Explained

LEMMA ValidateOutcomes ==
  ASSUME Typed, Outcomes, NEW v \in VMs, ValidateVirtualMachinePairings(v), ~ Abort
  PROVE  Outcomes'
<1> DEFINE S == DOMAIN vms \ pending
<1>1. /\ stage = "validate" /\ v \in pending /\ ~ LookupFails(v) /\ pending' = pending \ {v}
      /\ UNCHANGED <<flags, stage, vms, dss, h2dIdx, outcome>>
      /\ v \in DOMAIN vms /\ DOMAIN vms' \ pending' = S \cup {v}
  BY IssuesAfter DEF Typed, TypeOK
<1>2. \A w : (LookupFails(w)' <=> LookupFails(w)) /\ Mismatches(w)' = Mismatches(w) /\ hostName(w)' = hostName(w)
  BY <1>1, SameFaults
<1>3. Explained(S)
  BY <1>1 DEF Outcomes
<1>4. Explained(S \cup {v})'
  <2>1. CASE Mismatches(v) = {}
    <3>1. DOMAIN issues' = DOMAIN issues /\ \A n \in DOMAIN issues : issues'[n] = issues[n]
      BY <2>1, IssuesAfter
    <3>2. QED
      BY <1>1, <1>2, <1>3, <2>1, <3>1 DEF Explained
  <2>2. CASE Mismatches(v) # {}
    <3>1. /\ DOMAIN issues' = DOMAIN issues \cup {vms[v].name}
          /\ issues'[vms[v].name] = [host |-> hostName(v), datastores |-> Mismatches(v)]
          /\ \A n \in DOMAIN issues : n # vms[v].name => issues'[n] = issues[n]
      BY <2>2, IssuesAfter
    <3>2. \A w \in S \cup {v} : ~ LookupFails(w) /\ (Mismatches(w) # {} => vms[w].name \in DOMAIN issues')
      BY <1>1, <1>3, <3>1 DEF Explained
    <3>3. ASSUME NEW n \in DOMAIN issues'
          PROVE  \E w \in S \cup {v} : /\ vms[w].name = n /\ Mismatches(w) # {}
                                       /\ issues'[n] = [host |-> hostName(w), datastores |-> Mismatches(w)]
      BY <1>3, <2>2, <3>1 DEF Explained
    <3>4. QED
      BY <1>1, <1>2, <3>2, <3>3 DEF Explained
  <2>3. QED
    BY <2>1, <2>2
<1>5. stage' = "validate" /\ outcome' = "none"
  BY <1>1 DEF Outcomes
<1>6. QED
  BY <1>1, <1>4, <1>5 DEF Outcomes

LEMMA NextOutcomes == Typed /\ Outcomes /\ [Next]_vars => Outcomes'
<1> SUFFICES ASSUME Typed, Outcomes, [Next]_vars PROVE Outcomes'
  OBVIOUS
<1>0. TypeOK /\ Idle
  BY DEF Typed
<1>1. CASE UNCHANGED vars
  BY <1>1, SameExplained DEF vars, retrieved, Outcomes
<1>2. CASE Environment
  <2>1. stage \in {"datastores", "hosts"} /\ UNCHANGED <<stage, flags, vms, dss, h2dIdx, issues, pending, outcome>>
    BY <1>2 DEF Environment, MigrateVM, RelocateVM, TagHost, TagDatastore, DestroyDatastore, Change, retrieved
  <2>2. QED
    BY <2>1, SameExplained DEF Outcomes
<1>3. CASE RequestFails
  <2>1. h2dIdx' = << >> /\ stage' = "done" /\ outcome' = "error"
    BY <1>0, <1>3, AbortFacts DEF RequestFails, Idle
  <2>2. QED
    BY <2>1 DEF Outcomes
<1>4. CASE Abort /\ (SelectVMs \/ GetDatastores \/ GetHostSystems \/ GetObjectCAVals \/ NewHostToDatastoreIndex)
  <2>1. stage \notin {"validate", "done"}
    BY <1>4 DEF SelectVMs, GetDatastores, GetHostSystems, GetObjectCAVals, NewHostToDatastoreIndex
  <2>2. h2dIdx' = << >> /\ stage' = "done" /\ outcome' = "error"
    BY <1>0, <1>4, <2>1, AbortFacts DEF Idle
  <2>3. QED
    BY <2>2 DEF Outcomes
<1>5. CASE ~ Abort /\ (SelectVMs \/ GetDatastores \/ GetHostSystems \/ GetObjectCAVals)
  <2>1. stage' \notin {"validate", "done"} /\ stage # "done" /\ outcome' = outcome
    BY <1>0, <1>5, RetrievalFacts
  <2>2. QED
    BY <2>1 DEF Outcomes
<1>6. CASE ~ Abort /\ NewHostToDatastoreIndex
  <2>1. /\ stage = "index" /\ stage' = "validate" /\ pending' = DOMAIN vms
        /\ UNCHANGED <<vms, issues, outcome>> /\ issues = << >>
    BY <1>0, <1>6, IndexTypes DEF NewHostToDatastoreIndex, Idle
  <2>2. DOMAIN vms' \ pending' = {} /\ DOMAIN issues' = {}
    BY <2>1
  <2>3. Explained(DOMAIN vms \ pending)'
    BY <2>2 DEF Explained
  <2>4. QED
    BY <2>1, <2>3 DEF Outcomes
<1>7. CASE Abort /\ \E v \in VMs : ValidateVirtualMachinePairings(v)
  <2>1. PICK v \in VMs : ValidateVirtualMachinePairings(v)
    BY <1>7
  <2>2. stage' = "done" /\ outcome' = "error" /\ UNCHANGED <<flags, vms, dss, h2dIdx, issues, pending>>
    BY <1>7, AbortFacts
  <2>3. LookupFails(v) /\ v \in DOMAIN vms
    <3>1. stage = "validate" /\ v \in pending
      BY <2>1 DEF ValidateVirtualMachinePairings
    <3>2. stage' # "validate"
      BY <2>2
    <3>3. QED
      BY <1>0, <2>1, <3>1, <3>2 DEF ValidateVirtualMachinePairings, TypeOK
  <2>4. QED
    BY <2>2, <2>3, SameExplained DEF Outcomes
<1>8. CASE ~ Abort /\ \E v \in VMs : ValidateVirtualMachinePairings(v)
  BY <1>8, ValidateOutcomes
<1>9. CASE Evaluate
  <2>1. /\ stage = "validate" /\ stage' = "done" /\ pending = {}
        /\ outcome' = IF issues = << >> THEN "OK" ELSE "CRITICAL"
        /\ UNCHANGED <<flags, vms, dss, h2dIdx, issues, pending>>
    BY <1>9 DEF Evaluate, Reading, retrieved
  <2>2. Explained(DOMAIN vms \ pending)'
    BY <2>1, SameExplained DEF Outcomes
  <2>3. QED
    BY <2>1, <2>2 DEF Outcomes
<1>10. QED
  BY <1>1, <1>2, <1>3, <1>4, <1>5, <1>6, <1>7, <1>8, <1>9 DEF Next, Check

IInv == Typed /\ Current /\ Indexed /\ Outcomes

LEMMA InvariantHolds == Spec => []IInv
<1>1. Init => IInv
  <2> SUFFICES ASSUME Init PROVE IInv
    OBVIOUS
  <2>1. Current /\ Indexed /\ Outcomes
    BY DEF Init, Current, Indexed, Outcomes
  <2>2. QED
    BY <2>1, InitTyped DEF IInv
<1>2. IInv /\ [Next]_vars => IInv'
  BY NextTyped, NextCurrent, NextIndexed, NextOutcomes DEF IInv
<1>3. QED
  BY <1>1, <1>2, PTL DEF Spec

-----------------------------------------------------------------------------
(* What the outcome means.                                                  *)

Faults(v) == {d \in vms[v].on : ~ Ignored(d) /\ ~ Matches(Value(hss[vms[v].host]), Value(dss[d]))}

\* The pairs of a host, with an entry or without.
LEMMA PairsOfHost ==
  ASSUME Typed, Current, Indexed, h2dIdx # << >>, NEW h \in Hosts
  PROVE  DatastoresOf(h) = PairedDatastores(h)
<1>1. h2dIdx = [g \in Paired |-> PairedDatastores(g)] /\ DOMAIN hss = Hosts
  BY DEF Indexed, Current
<1>2. QED
  BY <1>1 DEF DatastoresOf, Paired

LEMMA InIndexIsCandidate ==
  ASSUME Indexed, h2dIdx # << >>, NEW d, InIndex(d)
  PROVE  d \in DOMAIN dss /\ ~ Ignored(d)
BY DEF Indexed, InIndex, PairedDatastores, Candidates

\* If no lookup fails the mismatches are the datastores at fault, and all that are not
\* ignored were retrieved.
LEMMA MismatchesAreFaults ==
  ASSUME Typed, Current, Indexed, h2dIdx # << >>, NEW v \in DOMAIN vms, ~ LookupFails(v)
  PROVE  /\ Mismatches(v) = Faults(v)
         /\ \A d \in vms[v].on : ~ Ignored(d) => d \in DOMAIN dss
<1> DEFINE h == vms[v].host
<1>1. h \in Hosts /\ DatastoresOf(h) = PairedDatastores(h)
  BY PairsOfHost DEF Typed, TypeOK, PartialFunction
<1>2. ASSUME NEW d \in vms[v].on, ~ Ignored(d)
      PROVE  /\ d \in DOMAIN dss
             /\ d \in Mismatches(v) <=> ~ Matches(Value(hss[h]), Value(dss[d]))
  <2>1. CASE d \in Outside(v)
    <3>1. InIndex(d)
      BY <1>2, <2>1 DEF LookupFails
    <3>2. d \in Mismatches(v) /\ d \in DOMAIN dss
      BY <1>2, <2>1, <3>1, InIndexIsCandidate DEF Mismatches
    <3>3. d \notin PairedDatastores(h)
      BY <1>1, <2>1 DEF Outside
    <3>4. QED
      BY <1>2, <3>2, <3>3 DEF PairedDatastores, Candidates
  <2>2. CASE d \notin Outside(v)
    <3>1. d \in PairedDatastores(h)
      BY <1>1, <1>2, <2>2 DEF Outside
    <3>2. QED
      BY <2>2, <3>1 DEF PairedDatastores, Candidates, Mismatches
  <2>3. QED
    BY <2>1, <2>2
<1>3. \A d \in Mismatches(v) : d \in vms[v].on /\ ~ Ignored(d)
  BY DEF Mismatches, Outside
<1>4. QED
  BY <1>2, <1>3 DEF Faults

\* OK means paired, for every machine, host and datastore that stayed as they were.
THEOREM OKIsSound == Spec => []OKMeansPaired
<1>1. IInv => OKMeansPaired
  <2> SUFFICES ASSUME IInv, outcome = "OK", NEW v \in DOMAIN vms, NEW d \in inv.on[v],
                      Steady({v, inv.host[v], d}), ~ Ignored(d)
               PROVE  Belong(inv.host[v], d)
    BY DEF OKMeansPaired
  <2>1. Typed /\ Current /\ Indexed /\ Outcomes /\ h2dIdx # << >>
    BY DEF IInv, Indexed
  <2>2. Explained(DOMAIN vms) /\ DOMAIN issues = {}
    <3>1. Explained(DOMAIN vms \ pending) /\ pending = {} /\ issues = << >>
      BY <2>1 DEF Outcomes
    <3>2. DOMAIN vms \ pending = DOMAIN vms
      BY <3>1
    <3>3. QED
      BY <3>1, <3>2
  <2>3. ~ LookupFails(v) /\ Mismatches(v) = {}
    BY <2>2 DEF Explained
  <2>4. v \notin touched /\ inv.host[v] \notin touched /\ d \notin touched
    BY DEF Steady
  <2>5. vms[v].host = inv.host[v] /\ vms[v].on = inv.on[v] /\ vms[v].host \in Hosts
    BY <2>1, <2>4 DEF Current, Typed, TypeOK, PartialFunction
  <2>6. d \in DOMAIN dss /\ Matches(Value(hss[inv.host[v]]), Value(dss[d]))
    BY <2>1, <2>3, <2>5, MismatchesAreFaults DEF Faults
  <2>7. dss[d] = inv.dsCA[d] /\ hss[inv.host[v]] = inv.hostCA[inv.host[v]]
    BY <2>1, <2>4, <2>5, <2>6 DEF Current
  <2>8. QED
    BY <2>6, <2>7 DEF Belong
<1>2. QED
  BY <1>1, InvariantHolds, PTL

\* CRITICAL reports exactly the machines at fault by name, with their datastores.
THEOREM IssuesAreExact == Spec => []IssuesAreMismatches
<1>1. IInv => IssuesAreMismatches
  <2> SUFFICES ASSUME IInv, outcome = "CRITICAL" PROVE IssuesAreMismatches
    BY DEF IssuesAreMismatches
  <2>1. Typed /\ Current /\ Indexed /\ Outcomes /\ h2dIdx # << >>
    BY DEF IInv, Indexed
  <2>2. Explained(DOMAIN vms)
    <3>1. Explained(DOMAIN vms \ pending) /\ pending = {}
      BY <2>1 DEF Outcomes
    <3>2. DOMAIN vms \ pending = DOMAIN vms
      BY <3>1
    <3>3. QED
      BY <3>1, <3>2
  <2>3. \A v \in DOMAIN vms : Mismatches(v) = Faults(v)
    BY <2>1, <2>2, MismatchesAreFaults DEF Explained
  <2>4. DOMAIN issues = {vms[v].name : v \in {w \in DOMAIN vms : Faults(w) # {}}}
    BY <2>2, <2>3 DEF Explained
  <2>5. \A n \in DOMAIN issues :
          \E v \in DOMAIN vms : /\ vms[v].name = n
                                /\ issues[n] = [host |-> hostName(v), datastores |-> Faults(v)]
    BY <2>2, <2>3 DEF Explained
  <2>6. QED
    BY <2>4, <2>5 DEF IssuesAreMismatches, Faults
<1>2. QED
  BY <1>1, InvariantHolds, PTL

\* An alert of a run in which nothing changed, once the index was built, comes from a
\* machine on a datastore that does not belong to its host.
THEOREM AlertsAreCaused == Spec => []AlertsHaveCauses
<1>1. IInv => AlertsHaveCauses
  <2> SUFFICES ASSUME IInv, stage = "done", outcome # "OK", changes = 0, h2dIdx # << >>
               PROVE  \E v \in DOMAIN vms : \E d \in inv.on[v] : ~ Ignored(d) /\ ~ Belong(inv.host[v], d)
    BY DEF AlertsHaveCauses
  <2>1. Typed /\ TypeOK /\ OnExisting /\ Current /\ Indexed /\ Outcomes /\ touched = {}
    BY DEF IInv, Typed, Current
  <2>2. ASSUME NEW v \in DOMAIN vms
        PROVE  /\ v \in VMs /\ vms[v].on = inv.on[v] /\ vms[v].host = inv.host[v] /\ inv.host[v] \in Hosts
               /\ hss[inv.host[v]] = inv.hostCA[inv.host[v]]
    <3>1. v \in VMs /\ vms[v].host \in Hosts /\ DOMAIN hss = Hosts
      BY <2>1 DEF Current, TypeOK, PartialFunction
    <3>2. QED
      BY <2>1, <3>1 DEF Current
  <2>3. ASSUME NEW v \in DOMAIN vms, NEW d \in inv.on[v], d \in DOMAIN dss,
               ~ Matches(Value(hss[vms[v].host]), Value(dss[d]))
        PROVE  ~ Belong(inv.host[v], d)
    BY <2>1, <2>2, <2>3 DEF Current, Belong
  <2>4. CASE outcome = "CRITICAL"
    <3>1. Explained(DOMAIN vms \ pending) /\ issues # << >>
      BY <2>1, <2>4 DEF Outcomes
    <3>2. DOMAIN issues # {}
      BY <2>1, <3>1, EmptyFunction DEF TypeOK
    <3>3. PICK v \in DOMAIN vms : Mismatches(v) # {} /\ ~ LookupFails(v)
      BY <3>1, <3>2 DEF Explained
    <3>4. PICK d \in vms[v].on : /\ ~ Ignored(d) /\ d \in DOMAIN dss
                                 /\ ~ Matches(Value(hss[vms[v].host]), Value(dss[d]))
      BY <2>1, <3>3, MismatchesAreFaults DEF Faults
    <3>5. QED
      BY <2>2, <2>3, <3>4
  <2>5. CASE outcome = "error"
    <3>1. PICK v \in DOMAIN vms : LookupFails(v)
      BY <2>1, <2>5 DEF Outcomes
    <3>2. PICK d \in Outside(v) : ~ InIndex(d) /\ (d \notin DOMAIN dss \/ ~ Ignored(d))
      BY <3>1 DEF LookupFails
    <3>3. d \in inv.on[v] /\ d \in Datastores
      BY <2>1, <2>2, <3>2 DEF Outside, TypeOK, Inventory
    <3>4. d \in DOMAIN dss
      <4>1. d \notin DOMAIN dss => d \in inv.destroyed
        BY <2>1, <3>3 DEF Current
      <4>2. QED
        BY <2>1, <2>2, <3>3, <4>1 DEF OnExisting
    <3>5. d \notin PairedDatastores(vms[v].host)
      BY <2>1, <2>2, <3>2, PairsOfHost DEF Outside
    <3>6. ~ Ignored(d) /\ ~ Matches(Value(hss[vms[v].host]), Value(dss[d]))
      BY <3>2, <3>4, <3>5 DEF PairedDatastores, Candidates
    <3>7. QED
      BY <2>3, <3>3, <3>4, <3>6
  <2>6. QED
    BY <2>1, <2>4, <2>5 DEF Outcomes, TypeOK
<1>2. QED
  BY <1>1, InvariantHolds, PTL
=============================================================================
