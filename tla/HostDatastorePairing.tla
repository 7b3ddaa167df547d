------------------------ MODULE HostDatastorePairing ------------------------
(***************************************************************************)
(* check_vmware_hs2ds2vms once its virtual machines are selected: the      *)
(* datastores and hosts are retrieved, paired by the values of Custom      *)
(* Attributes (internal/vsphere/attributes.go, host-to-datastores.go), and *)
(* each virtual machine is held against the pairings of its host           *)
(* (cmd/check_vmware_hs2ds2vms/main.go).  The virtual machines, the        *)
(* datastores and the hosts come from three requests: the inventory may    *)
(* change in between.                                                      *)
(***************************************************************************)
EXTENDS Naturals, FiniteSets

CONSTANTS VMs, Hosts, Datastores,   \* the managed object references
          DatastoreName,            \* the names of the datastores
          Values,                   \* attribute values, prefixes and names
          Fold,                     \* the lower-case form of a value
          HostPrefix,               \* what comes before the separator of the hosts
          DatastorePrefix,          \* ... and before that of the datastores
          NoneSet,                  \* the object has no Custom Attributes at all
          OthersSet,                \* it has some, but not the one asked for
          Inventories,              \* the inventories a run may start with
          Settings,                 \* the flags of the plugin
          Retags,                   \* the attributes an object may be given during a run
          MaxChanges                \* bound on the changes of the inventory during a run

CustomAttributeValNotSet == "NotSet"

Attributes == Values \cup {NoneSet, OthersSet}

NoHost == ""      \* the name of the host in the zero value of a pairing

\* The names of virtual machines need not be unique.
Inventory == [vmName    : [VMs -> Values],
              host      : [VMs -> Hosts],
              on        : [VMs -> SUBSET Datastores],
              hostCA    : [Hosts -> Attributes],
              dsCA      : [Datastores -> Attributes],
              destroyed : SUBSET Datastores]

Flags == [ignoredDatastores : SUBSET Values, ignoreMissing : BOOLEAN, usingPrefixes : BOOLEAN]

ASSUME PairingAssumption ==
  /\ {CustomAttributeValNotSet} \cup {DatastoreName[d] : d \in Datastores} \subseteq Values
  /\ {Fold, HostPrefix, DatastorePrefix} \subseteq [Values -> Values]
  /\ {NoneSet, OthersSet} \cap Values = {}
  /\ MaxChanges \in Nat
  /\ Retags \subseteq Attributes
  /\ Settings \subseteq Flags
  /\ Inventories \subseteq {w \in Inventory : \A v \in VMs : w.on[v] \cap w.destroyed = {}}

VARIABLES inv,             \* the inventory of vSphere
          changes,         \* the changes made to it since the virtual machines were retrieved
          touched,         \* the objects changed since then
          flags,
          stage,           \* the call that comes next
          vms,             \* the selected virtual machines: their hosts and datastores
          dss, hss,        \* the datastores and hosts retrieved, with their attributes
          h2dIdx,          \* the HostToDatastoreIndex
          pending,         \* the virtual machines not validated yet
          issues,          \* vmDatastoresPairingIssues
          outcome          \* "none", "error", "OK" or "CRITICAL"

vars == <<inv, changes, touched, flags, stage, vms, dss, hss, h2dIdx, pending, issues, outcome>>
retrieved == <<vms, dss, hss>>

EqualFold(s, t) == Fold[s] = Fold[t]
Ignored(d) == \E n \in flags.ignoredDatastores : EqualFold(n, DatastoreName[d])

Init == /\ inv \in Inventories
        /\ changes = 0
        /\ touched = {}
        /\ flags \in Settings
        /\ stage = "vms"
        /\ vms = << >> /\ dss = << >> /\ hss = << >>
        /\ h2dIdx = << >>
        /\ pending = {}
        /\ issues = << >>
        /\ outcome = "none"
-----------------------------------------------------------------------------
(* The inventory changes.                                                   *)

\* A change before the first request is another inventory to start with, one after
\* the last does not matter.
Change(w, object) == /\ stage \in {"datastores", "hosts"}
                     /\ changes < MaxChanges
                     /\ inv' = w
                     /\ changes' = changes + 1
                     /\ touched' = touched \cup {object}
                     /\ UNCHANGED <<flags, stage, retrieved, h2dIdx, pending, issues, outcome>>

\* vMotion and storage vMotion.
MigrateVM(v) == \E h \in Hosts \ {inv.host[v]} : Change([inv EXCEPT !.host[v] = h], v)

RelocateVM(v) ==
  \E S \in {{d} : d \in Datastores \ inv.destroyed} \ {inv.on[v]} :
    Change([inv EXCEPT !.on[v] = S], v)

TagHost(h) == \E a \in Retags \ {inv.hostCA[h]} : Change([inv EXCEPT !.hostCA[h] = a], h)

TagDatastore(d) == \E a \in Retags \ {inv.dsCA[d]} : Change([inv EXCEPT !.dsCA[d] = a], d)

\* Only a datastore without virtual machines can be destroyed.
DestroyDatastore(d) ==
  /\ d \notin inv.destroyed
  /\ \A v \in VMs : d \notin inv.on[v]
  /\ Change([inv EXCEPT !.destroyed = @ \cup {d}], d)

Environment == \/ \E v \in VMs : MigrateVM(v) \/ RelocateVM(v)
               \/ \E h \in Hosts : TagHost(h)
               \/ \E d \in Datastores : TagDatastore(d) \/ DestroyDatastore(d)
-----------------------------------------------------------------------------
(* Retrieval.                                                               *)

Reading == UNCHANGED <<inv, changes, touched, flags>>

Abort == /\ stage' = "done"
         /\ outcome' = "error"
         /\ Reading
         /\ UNCHANGED <<retrieved, h2dIdx, pending, issues>>

RequestFails == stage \in {"vms", "datastores", "hosts"} /\ Abort

\* GetVMsFromContainer and the filters of VMSelection select some of them.
SelectVMs ==
  /\ stage = "vms"
  /\ \E S \in SUBSET VMs : vms' = [v \in S |-> [name |-> inv.vmName[v], host |-> inv.host[v], on |-> inv.on[v]]]
  /\ stage' = "datastores"
  /\ Reading
  /\ UNCHANGED <<dss, hss, h2dIdx, pending, issues, outcome>>

\* A datastore to ignore that does not exist is an error.
GetDatastores ==
  /\ stage = "datastores"
  /\ LET found == Datastores \ inv.destroyed IN
     IF \A n \in flags.ignoredDatastores : \E d \in found : EqualFold(n, DatastoreName[d])
     THEN /\ dss' = [d \in found |-> inv.dsCA[d]]
          /\ stage' = "hosts"
          /\ Reading
          /\ UNCHANGED <<vms, hss, h2dIdx, pending, issues, outcome>>
     ELSE Abort

GetHostSystems ==
  /\ stage = "hosts"
  /\ hss' = inv.hostCA
  /\ stage' = "attributes"
  /\ Reading
  /\ UNCHANGED <<vms, dss, h2dIdx, pending, issues, outcome>>
-----------------------------------------------------------------------------
(* Pairing.                                                                 *)

\* GetObjectCAVal: the value, or an error.  Only ErrCustomAttributeNotSet is
\* forgiven, the error of an object without any attributes.
Readable(a) == a \in Values \/ (a = NoneSet /\ flags.ignoreMissing)

\* "NotSet" stands for the value that is missing.
Value(a) == IF a \in Values THEN a ELSE CustomAttributeValNotSet

\* The datastores to ignore take no part in the pairing.
Candidates == {d \in DOMAIN dss : ~ Ignored(d)}

GetObjectCAVals ==
  /\ stage = "attributes"
  /\ IF /\ \A d \in Candidates : Readable(dss[d])
        /\ \A h \in DOMAIN hss : Readable(hss[h])
     THEN /\ stage' = "index"
          /\ Reading
          /\ UNCHANGED <<retrieved, h2dIdx, pending, issues, outcome>>
     ELSE Abort

\* The literal comparison is made with or without prefixes.
Matches(hostValue, dsValue) ==
  \/ flags.usingPrefixes /\ EqualFold(HostPrefix[hostValue], DatastorePrefix[dsValue])
  \/ EqualFold(hostValue, dsValue)

PairedDatastores(h) == {d \in Candidates : Matches(Value(hss[h]), Value(dss[d]))}

\* Mutants of NewHostToDatastoreIndex: a pairing replaces the one before; every
\* host has an entry.
KeepLastPairing ==
  /\ stage = "index"
  /\ \E last \in [{h \in DOMAIN hss : PairedDatastores(h) # {}} -> Datastores] :
       /\ \A h \in DOMAIN last : last[h] \in PairedDatastores(h)
       /\ h2dIdx' = [h \in DOMAIN last |-> {last[h]}]
  /\ stage' = "validate"
  /\ pending' = DOMAIN vms
  /\ Reading
  /\ UNCHANGED <<retrieved, issues, outcome>>

IndexEveryHost ==
  /\ stage = "index"
  /\ h2dIdx' = [h \in DOMAIN hss |-> PairedDatastores(h)]
  /\ stage' = "validate"
  /\ pending' = DOMAIN vms
  /\ Reading
  /\ UNCHANGED <<retrieved, issues, outcome>>

\* Only hosts with a datastore have an entry; no entry at all is an error.
NewHostToDatastoreIndex ==
  /\ stage = "index"
  /\ IF \E h \in DOMAIN hss : PairedDatastores(h) # {}
     THEN /\ h2dIdx' = [h \in {g \in DOMAIN hss : PairedDatastores(g) # {}} |-> PairedDatastores(h)]
          /\ stage' = "validate"
          /\ pending' = DOMAIN vms
          /\ Reading
          /\ UNCHANGED <<retrieved, issues, outcome>>
     ELSE Abort

\* The map gives the zero value for a host without an entry.
DatastoresOf(h) == IF h \in DOMAIN h2dIdx THEN h2dIdx[h] ELSE {}

hostName(v) == IF vms[v].host \in DOMAIN h2dIdx THEN vms[v].host ELSE NoHost

\* DatastoreIDToName finds it.
InIndex(d) == \E h \in DOMAIN h2dIdx : d \in h2dIdx[h]

\* Datastores of the virtual machine that its host is not paired with.
Outside(v) == vms[v].on \ DatastoresOf(vms[v].host)

\* Mutant of LookupFails: what is in no pairing is passed over.
LookupNeverFails(v) == FALSE

\* A datastore in no pairing is an error for the whole run, unless it is
\* ignored; so is one that is not in the inventory any more.
LookupFails(v) == \E d \in Outside(v) : ~ InIndex(d) /\ (d \notin DOMAIN dss \/ ~ Ignored(d))

\* Mutant of Mismatches: the list of ignored datastores is not consulted.
MismatchesOrIgnored(v) == {d \in Outside(v) : d \in DOMAIN dss}

\* A datastore paired with other hosts only is a mismatch, unless it is ignored.
Mismatches(v) == {d \in Outside(v) : InIndex(d) /\ ~ Ignored(d)}

\* One iteration of the loop over the virtual machines, with
\* ValidateVirtualMachinePairings.  The issues are kept by name: of two virtual
\* machines with one name the second takes the place of the first.
ValidateVirtualMachinePairings(v) ==
  /\ stage = "validate"
  /\ v \in pending
  /\ IF LookupFails(v) THEN Abort
     ELSE /\ pending' = pending \ {v}
          /\ issues' = [n \in DOMAIN issues \cup {vms[w].name : w \in {x \in {v} : Mismatches(x) # {}}} |->
                          IF n = vms[v].name /\ Mismatches(v) # {}
                          THEN [host |-> hostName(v), datastores |-> Mismatches(v)]
                          ELSE issues[n]]
          /\ Reading
          /\ UNCHANGED <<stage, retrieved, h2dIdx, outcome>>

Evaluate ==
  /\ stage = "validate"
  /\ pending = {}
  /\ outcome' = IF issues = << >> THEN "OK" ELSE "CRITICAL"
  /\ stage' = "done"
  /\ Reading
  /\ UNCHANGED <<retrieved, h2dIdx, pending, issues>>

Check == \/ RequestFails \/ SelectVMs \/ GetDatastores \/ GetHostSystems \/ GetObjectCAVals
         \/ NewHostToDatastoreIndex
         \/ \E v \in VMs : ValidateVirtualMachinePairings(v)
         \/ Evaluate

Next == Environment \/ Check

Spec == Init /\ [][Next]_vars
-----------------------------------------------------------------------------
(* Properties.                                                              *)

PartialFunction(f, D, R) == DOMAIN f \subseteq D /\ f \in [DOMAIN f -> R]

TypeOK ==
  /\ inv \in Inventory
  /\ changes \in 0..MaxChanges
  /\ touched \subseteq VMs \cup Hosts \cup Datastores
  /\ flags \in Flags
  /\ stage \in {"vms", "datastores", "hosts", "attributes", "index", "validate", "done"}
  /\ PartialFunction(vms, VMs, [name : Values, host : Hosts, on : SUBSET Datastores])
  /\ PartialFunction(dss, Datastores, Attributes)
  /\ PartialFunction(hss, Hosts, Attributes)
  /\ PartialFunction(h2dIdx, Hosts, (SUBSET Datastores) \ {{}})
  /\ pending \subseteq DOMAIN vms
  /\ PartialFunction(issues, {inv.vmName[v] : v \in VMs},
                     [host : Hosts \cup {NoHost}, datastores : (SUBSET Datastores) \ {{}}])
  /\ outcome \in {"none", "error", "OK", "CRITICAL"}

\* The administrator has given the two objects the same value or prefix.
Belong(h, d) == Matches(Value(inv.hostCA[h]), Value(inv.dsCA[d]))

Steady(objects) == objects \cap touched = {}

\* OK means that every virtual machine selected is on datastores its host is paired
\* with, but for ignored ones, as far as they stayed the same while the three
\* requests were answered: no lookup that fails, no missing entry and no duplicate
\* name hides a mismatch.
OKMeansPaired ==
  outcome = "OK" =>
    \A v \in DOMAIN vms : \A d \in inv.on[v] :
      Steady({v, inv.host[v], d}) => Ignored(d) \/ Belong(inv.host[v], d)

\* Every virtual machine reported is mismatched, with exactly the datastores at
\* fault, also when another one of the same name is not: and each mismatched one
\* is reported under its name.  Its host is named unless it is paired with nothing.
IssuesAreMismatches ==
  outcome = "CRITICAL" =>
    LET wrong(v) == {d \in vms[v].on : /\ ~ Ignored(d)
                                       /\ ~ Matches(Value(hss[vms[v].host]), Value(dss[d]))}
    IN /\ DOMAIN issues = {vms[v].name : v \in {w \in DOMAIN vms : wrong(w) # {}}}
       /\ \A n \in DOMAIN issues :
            \E v \in DOMAIN vms : /\ vms[v].name = n
                                  /\ issues[n] = [host |-> hostName(v), datastores |-> wrong(v)]

\* When nothing changes and the index could be built, an alert or an error has a
\* cause: a virtual machine on a datastore that is not ignored and does not belong to
\* its host. A host paired with other datastores only, or with none, is no other cause.
AlertsHaveCauses ==
  stage = "done" /\ outcome # "OK" /\ changes = 0 /\ h2dIdx # << >> =>
    \E v \in DOMAIN vms : \E d \in inv.on[v] : ~ Ignored(d) /\ ~ Belong(inv.host[v], d)
=============================================================================
