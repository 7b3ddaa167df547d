----------------------- MODULE HardwareVersionsProofs -----------------------
(***************************************************************************)
(* For any machines, versions and settings: the verdict on the hardware    *)
(* versions reflects the versions there are, and the summary explains it.  *)
(***************************************************************************)
EXTENDS HardwareVersions, FiniteSetTheorems, WellFoundedInduction, TLAPS

-----------------------------------------------------------------------------
(* Types.                                                                   *)

LEMMA InitTypeOK == Init => TypeOK
<1> SUFFICES ASSUME Init PROVE TypeOK
  OBVIOUS
<1> USE HardwareAssumption DEF Init
<1>1. PICK R \in SUBSET Resources : defaults \in [R -> Versions] /\ home \in [Hosts -> R]
  OBVIOUS
<1>2. /\ DOMAIN defaults \subseteq Resources /\ defaults \in [DOMAIN defaults -> Versions]
      /\ home \in [Hosts -> DOMAIN defaults]
  BY <1>1
<1>3. record \in [DOMAIN record -> Versions \cup {None}] /\ DOMAIN record = {}
  OBVIOUS
<1>4. QED
  BY <1>2, <1>3 DEF TypeOK, Requests

\* What an action of the inventory leaves alone.
LEMMA ChangeKeepsTypes ==
  ASSUME TypeOK, Change,
         version' \in [VMs -> Versions], readable' \subseteq VMs,
         DOMAIN defaults' \subseteq Resources, defaults' \in [DOMAIN defaults' -> Versions],
         home' \in [Hosts -> DOMAIN defaults']
  PROVE  TypeOK'
BY HardwareAssumption DEF TypeOK, Change, result, Requests

LEMMA ChangesTyped ==
  ASSUME TypeOK,
         \/ \E v \in VMs : UpgradeVM(v) \/ ToggleReadable(v)
         \/ \E r \in Resources : SetDefault(r) \/ DestroyResource(r)
         \/ \E h \in Hosts : MoveHost(h)
  PROVE  TypeOK' /\ Change /\ \A v \in VMs : version'[v] >= version[v]
<1> USE HardwareAssumption
<1>0. \A v \in VMs : version[v] \in Int
  BY DEF TypeOK
<1>1. ASSUME NEW v \in VMs, UpgradeVM(v)
      PROVE  TypeOK' /\ Change /\ \A w \in VMs : version'[w] >= version[w]
  <2>1. PICK n \in Versions : /\ n > version[v] /\ version' = [version EXCEPT ![v] = n]
                              /\ Change /\ UNCHANGED <<readable, defaults, home>>
    BY <1>1 DEF UpgradeVM
  <2>2. version' \in [VMs -> Versions] /\ readable' \subseteq VMs
    BY <2>1 DEF TypeOK
  <2>3. TypeOK'
    BY <2>1, <2>2, ChangeKeepsTypes DEF TypeOK
  <2>4. ASSUME NEW w \in VMs PROVE version'[w] >= version[w]
    BY <1>0, <2>1 DEF TypeOK
  <2>5. QED
    BY <2>1, <2>3, <2>4
<1>2. ASSUME NEW v \in VMs, ToggleReadable(v)
      PROVE  TypeOK' /\ Change /\ \A w \in VMs : version'[w] >= version[w]
  <2>1. Change /\ UNCHANGED <<version, defaults, home>> /\ readable' \subseteq VMs
    BY <1>2 DEF ToggleReadable, TypeOK
  <2>2. QED
    BY <1>0, <2>1, ChangeKeepsTypes DEF TypeOK
<1>3. ASSUME NEW r \in Resources, SetDefault(r)
      PROVE  TypeOK' /\ Change /\ \A w \in VMs : version'[w] >= version[w]
  <2>1. PICK n \in Versions : /\ r \in DOMAIN defaults /\ defaults' = [defaults EXCEPT ![r] = n]
                              /\ Change /\ UNCHANGED <<version, readable, home>>
    BY <1>3 DEF SetDefault
  <2>2. DOMAIN defaults' = DOMAIN defaults /\ defaults' \in [DOMAIN defaults' -> Versions]
    BY <2>1 DEF TypeOK
  <2>3. QED
    BY <1>0, <2>1, <2>2, ChangeKeepsTypes DEF TypeOK
<1>4. ASSUME NEW r \in Resources, DestroyResource(r)
      PROVE  TypeOK' /\ Change /\ \A w \in VMs : version'[w] >= version[w]
  <2>1. /\ r \in DOMAIN defaults /\ \A h \in Hosts : home[h] # r
        /\ defaults' = [q \in DOMAIN defaults \ {r} |-> defaults[q]]
        /\ Change /\ UNCHANGED <<version, readable, home>>
    BY <1>4 DEF DestroyResource
  <2>2. /\ DOMAIN defaults' = DOMAIN defaults \ {r}
        /\ defaults' \in [DOMAIN defaults' -> Versions]
        /\ home' \in [Hosts -> DOMAIN defaults']
    BY <2>1 DEF TypeOK
  <2>3. QED
    BY <1>0, <2>1, <2>2, ChangeKeepsTypes DEF TypeOK
<1>5. ASSUME NEW h \in Hosts, MoveHost(h)
      PROVE  TypeOK' /\ Change /\ \A w \in VMs : version'[w] >= version[w]
  <2>1. PICK r \in DOMAIN defaults : /\ home' = [home EXCEPT ![h] = r]
                                     /\ Change /\ UNCHANGED <<version, readable, defaults>>
    BY <1>5 DEF MoveHost
  <2>2. home' \in [Hosts -> DOMAIN defaults']
    BY <2>1 DEF TypeOK
  <2>3. QED
    BY <1>0, <2>1, <2>2, ChangeKeepsTypes DEF TypeOK
<1>6. QED
  BY <1>1, <1>2, <1>3, <1>4, <1>5

\* The steps of the run itself.
LEMMA RetrievalTyped ==
  ASSUME TypeOK, NEW v \in VMs, RetrieveVM(v)
  PROVE  TypeOK'
<1>1. DOMAIN record' = DOMAIN record \cup {v} /\ v \in selected
  BY DEF RetrieveVM
<1>2. record' \in [DOMAIN record' -> Versions \cup {None}]
  BY <1>1 DEF RetrieveVM, TypeOK
<1>3. QED
  BY <1>1, <1>2 DEF TypeOK, RetrieveVM, server, result, Requests

LEMMA LookupsTyped ==
  ASSUME TypeOK, AllRetrieved \/ FindComputeResource \/ GetHostSystemByName \/ QueryConfigOption
  PROVE  TypeOK'
<1> USE HardwareAssumption DEF TypeOK, Requests, server, result
<1>1. CASE AllRetrieved
  BY <1>1 DEF AllRetrieved
<1>2. CASE FindComputeResource
  BY <1>2 DEF FindComputeResource
<1>3. CASE GetHostSystemByName
  <2>1. home[flags.host] \in Resources
    <3>1. flags.host \in Hosts
      BY <1>3 DEF GetHostSystemByName, Flags
    <3>2. QED
      BY <3>1
  <2>2. resource' \in Resources /\ stage' = "query"
    BY <1>3, <2>1 DEF GetHostSystemByName
  <2>3. QED
    BY <1>3, <2>2 DEF GetHostSystemByName
<1>4. CASE QueryConfigOption
  BY <1>4 DEF QueryConfigOption
<1>5. QED
  BY <1>1, <1>2, <1>3, <1>4

LEMMA FailuresTyped ==
  ASSUME TypeOK, RequestFails \/ Panic
  PROVE  TypeOK'
BY DEF TypeOK, Requests, server, result, RequestFails, Panic

Checks == CheckHomogeneous \/ CheckMinimum \/ CheckDefaultIsMin \/ CheckOutdatedBy

\* Every evaluation is a Result of some state and some version.
LEMMA ChecksAreResults ==
  ASSUME Checks
  PROVE  Evaluated /\ \E state \in {"OK", "WARNING", "CRITICAL"} : \E minVer : Result(state, minVer)
<1>1. CASE CheckHomogeneous
  BY <1>1 DEF CheckHomogeneous
<1>2. CASE CheckMinimum
  BY <1>2 DEF CheckMinimum
<1>3. CASE CheckDefaultIsMin
  BY <1>3 DEF CheckDefaultIsMin
<1>4. CASE CheckOutdatedBy
  BY <1>4 DEF CheckOutdatedBy
<1>5. QED
  BY <1>1, <1>2, <1>3, <1>4 DEF Checks

LEMMA ChecksTyped ==
  ASSUME TypeOK, Checks
  PROVE  TypeOK'
<1>0. PICK state \in {"OK", "WARNING", "CRITICAL"} : \E minVer : Result(state, minVer)
  BY ChecksAreResults
<1>1. PICK minVer : Result(state, minVer)
  BY <1>0
<1>2. OlderThan(minVer) \subseteq selected
  BY DEF OlderThan
<1>3. outdated' \subseteq selected /\ upgrade' \subseteq outdated'
  BY <1>1, <1>2 DEF Result
<1>4. QED
  BY <1>1, <1>3, ChecksAreResults DEF TypeOK, Result, Requests, server, Evaluated

\* Next, with the actions of the inventory and the evaluations together.
LEMMA NextCases ==
  ASSUME Next
  PROVE  \/ \/ \E v \in VMs : UpgradeVM(v) \/ ToggleReadable(v)
            \/ \E r \in Resources : SetDefault(r) \/ DestroyResource(r)
            \/ \E h \in Hosts : MoveHost(h)
         \/ \E v \in VMs : RetrieveVM(v)
         \/ AllRetrieved \/ FindComputeResource \/ GetHostSystemByName \/ QueryConfigOption
         \/ RequestFails \/ Panic
         \/ Checks
BY DEF Next, Checks

LEMMA NextKeepsTypes ==
  ASSUME TypeOK, [Next]_vars
  PROVE  TypeOK'
<1>1. CASE Next
  BY <1>1, NextCases, ChangesTyped, RetrievalTyped, LookupsTyped, FailuresTyped, ChecksTyped
<1>2. CASE UNCHANGED vars
  BY <1>2 DEF TypeOK, vars, server, result
<1>3. QED
  BY <1>1, <1>2

\* The state of check_vmware_vhw is what its types say, for any machines and settings.
THEOREM TypeCorrect == Spec => []TypeOK
<1>1. Init => TypeOK
  BY InitTypeOK
<1>2. TypeOK /\ [Next]_vars => TypeOK'
  BY NextKeepsTypes
<1>3. QED
  BY <1>1, <1>2, PTL DEF Spec
-----------------------------------------------------------------------------
(* What is read of a machine lies between its versions at the start and     *)
(* now.                                                                     *)

Between == /\ \A v \in VMs : first[v] <= version[v]
           /\ \A v \in DOMAIN record :
                record[v] # None => first[v] <= record[v] /\ record[v] <= version[v]

LEMMA VersionsAreIntegers ==
  ASSUME TypeOK
  PROVE  /\ \A v \in VMs : version[v] \in -1..99 /\ first[v] \in -1..99
         /\ \A v \in DOMAIN record : record[v] # None => record[v] \in -1..99
         /\ DOMAIN record \subseteq VMs
BY HardwareAssumption DEF TypeOK

LEMMA InitBetween == Init => Between
<1> SUFFICES ASSUME Init PROVE Between
  OBVIOUS
<1>1. first = version /\ DOMAIN record = {}
  BY DEF Init
<1>2. \A v \in VMs : version[v] \in Int
  BY InitTypeOK, VersionsAreIntegers
<1>3. QED
  BY <1>1, <1>2 DEF Between

LEMMA NextKeepsBetween ==
  ASSUME TypeOK, Between, [Next]_vars
  PROVE  Between'
<1>1. CASE UNCHANGED vars
  BY <1>1 DEF Between, vars, server
<1>2. ASSUME \/ \E v \in VMs : UpgradeVM(v) \/ ToggleReadable(v)
             \/ \E r \in Resources : SetDefault(r) \/ DestroyResource(r)
             \/ \E h \in Hosts : MoveHost(h)
      PROVE  Between'
  <2>1. TypeOK' /\ UNCHANGED <<first, record>> /\ \A v \in VMs : version'[v] >= version[v]
    BY <1>2, ChangesTyped DEF Change
  <2>2. \A v \in VMs : version'[v] \in Int /\ version[v] \in Int /\ first[v] \in Int
    BY <2>1, HardwareAssumption DEF TypeOK
  <2>3. \A v \in VMs : first'[v] <= version'[v]
    BY <2>1, <2>2 DEF Between
  <2>4. ASSUME NEW v \in DOMAIN record', record'[v] # None
        PROVE  first'[v] <= record'[v] /\ record'[v] <= version'[v]
    <3>1. v \in VMs /\ record[v] \in Int /\ first[v] <= record[v] /\ record[v] <= version[v]
      BY <2>1, <2>4, VersionsAreIntegers DEF Between
    <3>2. QED
      BY <2>1, <2>2, <3>1
  <2>5. QED
    BY <2>3, <2>4 DEF Between
<1>3. ASSUME NEW v \in VMs, RetrieveVM(v)
      PROVE  Between'
  <2>1. /\ record' = [w \in DOMAIN record \cup {v} |->
                        IF w = v THEN IF v \in readable THEN version[v] ELSE None ELSE record[w]]
        /\ UNCHANGED <<version, first>>
    BY <1>3 DEF RetrieveVM, server
  <2>2. ASSUME NEW w \in DOMAIN record', record'[w] # None
        PROVE  first'[w] <= record'[w] /\ record'[w] <= version'[w]
    <3>1. CASE w = v
      <4>1. record'[w] = version[v]
        BY <2>1, <2>2, <3>1
      <4>2. QED
        BY <2>1, <3>1, <4>1, VersionsAreIntegers DEF Between
    <3>2. CASE w # v
      <4>1. w \in DOMAIN record /\ record'[w] = record[w]
        BY <2>1, <2>2, <3>2
      <4>2. QED
        BY <2>1, <2>2, <4>1 DEF Between
    <3>3. QED
      BY <3>1, <3>2
  <2>3. QED
    BY <2>1, <2>2 DEF Between
<1>4. CASE \/ AllRetrieved \/ FindComputeResource \/ GetHostSystemByName \/ QueryConfigOption
           \/ RequestFails \/ Panic
  BY <1>4 DEF Between, server, AllRetrieved, FindComputeResource, GetHostSystemByName,
              QueryConfigOption, RequestFails, Panic
<1>5. CASE Checks
  BY <1>5, ChecksAreResults DEF Between, Result, server
<1>6. QED
  BY <1>1, <1>2, <1>3, <1>4, <1>5, NextCases
-----------------------------------------------------------------------------
(* The newest version of an index.                                          *)

\* Every set of natural numbers that is not empty has a least element.
LEMMA Least ==
  ASSUME NEW T \in SUBSET Nat, T # {}
  PROVE  \E x \in T : \A y \in T : x <= y
<1>1. PICK x \in T : \A y \in T : ~ (<<y, x>> \in OpToRel(<, Nat))
  BY NatLessThanWellFounded, WFMin
<1>2. ASSUME NEW y \in T PROVE x <= y
  <2>1. <<y, x>> \in OpToRel(<, Nat) <=> y < x
    BY DEF OpToRel
  <2>2. ~ (y < x) /\ x \in Nat /\ y \in Nat
    BY <1>1, <2>1
  <2>3. QED
    BY <2>2
<1>3. QED
  BY <1>2

\* What an evaluation has before it: a version for every selected machine.
LEMMA EvaluatedRecords ==
  ASSUME TypeOK, Evaluated
  PROVE  /\ \A v \in selected : record[v] \in -1..99 /\ v \in DOMAIN record /\ v \in VMs
         /\ Index # {} /\ Index \subseteq -1..99
         /\ cause = "none" /\ stage = "index"
<1>1. DOMAIN record = selected /\ cause = "none" /\ stage = "index"
  BY DEF TypeOK, Evaluated, Requests
<1>2. \A v \in selected : record[v] \in Index /\ record[v] # None
  BY DEF Index, Evaluated
<1>3. \A v \in selected : record[v] \in -1..99
  BY <1>1, <1>2, VersionsAreIntegers
<1>4. QED
  BY <1>1, <1>3 DEF Index, Evaluated, TypeOK

\* Newest is the last version of the index as texts are ordered.
LEMMA NewestIsLast ==
  ASSUME TypeOK, Evaluated
  PROVE  Newest \in Index /\ \A m \in Index : TextKey(m) <= TextKey(Newest)
<1> DEFINE T == {200 - TextKey(n) : n \in Index}
<1>1. \A n \in Index : TextKey(n) \in Int /\ TextKey(n) < 200
  BY EvaluatedRecords DEF TextKey
<1>2. T \in SUBSET Nat /\ T # {}
  BY <1>1, EvaluatedRecords
<1>3. PICK x \in T : \A y \in T : x <= y
  BY <1>2, Least
<1>4. PICK n \in Index : x = 200 - TextKey(n)
  OBVIOUS
<1>5. ASSUME NEW m \in Index PROVE TextKey(m) <= TextKey(n)
  <2>1. 200 - TextKey(n) <= 200 - TextKey(m)
    BY <1>3, <1>4
  <2>2. TextKey(m) \in Int /\ TextKey(n) \in Int
    BY <1>1
  <2> HIDE DEF T
  <2>3. QED
    BY <2>1, <2>2
<1>6. QED
  BY <1>5 DEF Newest

\* With as many digits in all of them it is the highest version.
LEMMA NewestIsHighest ==
  ASSUME TypeOK, Between, Evaluated, SameLength
  PROVE  \A m \in Index : m <= Newest
<1>1. \A v \in selected : /\ v \in VMs /\ record[v] \in -1..99 /\ first[v] \in Int /\ version[v] \in Int
                          /\ first[v] <= record[v] /\ record[v] <= version[v]
  BY EvaluatedRecords, VersionsAreIntegers DEF Between, Evaluated, Index
<1>2. (\A v \in selected : record[v] >= 10) \/ (\A v \in selected : record[v] < 10)
  BY <1>1 DEF SameLength
<1>3. (\A m \in Index : m >= 10) \/ (\A m \in Index : m < 10)
  BY <1>2 DEF Index
<1>4. ASSUME NEW m \in Index PROVE m <= Newest
  <2>1. m \in -1..99 /\ Newest \in -1..99 /\ TextKey(m) <= TextKey(Newest)
    BY NewestIsLast, EvaluatedRecords
  <2>2. QED
    BY <1>3, <2>1, NewestIsLast DEF TextKey
<1>5. QED
  BY <1>4

\* There is more than one version exactly if some two machines differ.
LEMMA SeveralVersions ==
  ASSUME TypeOK, Evaluated
  PROVE  Cardinality(Index) > 1 <=> \E v, w \in selected : record[v] # record[w]
<1>1. IsFiniteSet(-1..99)
  <2>1. -1 \in Int /\ 99 \in Int
    OBVIOUS
  <2>2. QED
    BY <2>1, FS_Interval
<1>2. IsFiniteSet(Index) /\ Cardinality(Index) \in Nat
  BY <1>1, EvaluatedRecords, FS_Subset, FS_CardinalityType
<1>3. Cardinality(Index) # 0
  BY <1>2, EvaluatedRecords, FS_EmptySet
<1>4. Cardinality(Index) = 1 <=> \E n : Index = {n}
  BY <1>2, FS_Singleton
<1>5. (\E n : Index = {n}) <=> ~ \E v, w \in selected : record[v] # record[w]
  <2>1. ASSUME NEW n, Index = {n}, NEW v \in selected, NEW w \in selected
        PROVE  record[v] = record[w]
    BY <2>1 DEF Index
  <2>2. ASSUME \A v, w \in selected : record[v] = record[w]
        PROVE  \E n : Index = {n}
    <3>1. PICK v \in selected : TRUE
      BY DEF Evaluated
    <3>2. Index = {record[v]}
      BY <2>2 DEF Index
    <3>3. QED
      BY <3>2
  <2>3. QED
    BY <2>1, <2>2
<1>6. Cardinality(Index) > 1 <=> Cardinality(Index) # 1
  BY <1>2, <1>3
<1>7. QED
  BY <1>4, <1>5, <1>6
-----------------------------------------------------------------------------
(* The evaluations.                                                         *)

Verdicts == VerdictReflectsVersions /\ SummaryExplainsVerdict

IInv == TypeOK /\ Between /\ Verdicts

\* At an evaluation what was read of a selected machine is a number between its versions.
LEMMA ReadBetween ==
  ASSUME TypeOK, Between, Evaluated
  PROVE  \A v \in selected : /\ record[v] \in Int /\ first[v] \in Int /\ version[v] \in Int
                             /\ first[v] <= record[v] /\ record[v] <= version[v]
BY EvaluatedRecords, VersionsAreIntegers DEF Between, Evaluated, Index

\* What the run is judged by does not change at its evaluation.
LEMMA ResultKeepsInput ==
  ASSUME NEW state, NEW minVer, Result(state, minVer)
  PROVE  /\ UNCHANGED <<version, first, flags, selected, record, defaultVersion>>
         /\ exitState' = state /\ outdated' = OlderThan(minVer)
         /\ upgrade' = IF MeetsMinVersion(minVer) THEN {} ELSE OlderThan(minVer)
BY DEF Result, server

\* Meeting a minimum is having no machine older than it.
LEMMA MeetsMeansNoneOlder ==
  ASSUME TypeOK, Evaluated, NEW minVer \in Int
  PROVE  /\ MeetsMinVersion(minVer) <=> OlderThan(minVer) = {}
         /\ MeetsMinVersion(minVer) <=> ~ \E v \in selected : record[v] < minVer
BY EvaluatedRecords DEF MeetsMinVersion, OlderThan, Index

LEMMA MinimumVerdict ==
  ASSUME TypeOK, Between, CheckMinimum
  PROVE  Verdicts'
<1>1. Evaluated /\ flags.mode = "minimum" /\ flags.min \in Int
  BY HardwareAssumption DEF CheckMinimum, TypeOK, Flags
<1>2. Result(IF MeetsMinVersion(flags.min) THEN "OK" ELSE "CRITICAL", flags.min)
  BY DEF CheckMinimum
<1>3. Below(version, flags.min) => ~MeetsMinVersion(flags.min)
  BY <1>1, ReadBetween, MeetsMeansNoneOlder DEF Below
<1>4. ~MeetsMinVersion(flags.min) => Below(first, flags.min)
  BY <1>1, ReadBetween, MeetsMeansNoneOlder DEF Below
<1>5. /\ Below(version, flags.min)' = Below(version, flags.min)
      /\ Below(first, flags.min)' = Below(first, flags.min)
  BY <1>2, ResultKeepsInput DEF Below
<1>6. /\ flags' = flags /\ defaultVersion' = defaultVersion
      /\ exitState' = IF MeetsMinVersion(flags.min) THEN "OK" ELSE "CRITICAL"
      /\ outdated' = OlderThan(flags.min)
      /\ upgrade' = IF MeetsMinVersion(flags.min) THEN {} ELSE OlderThan(flags.min)
  BY <1>2, ResultKeepsInput
<1>7. VerdictReflectsVersions'
  BY <1>1, <1>3, <1>4, <1>5, <1>6 DEF VerdictReflectsVersions, Exceeded
<1>8. SummaryExplainsVerdict'
  BY <1>1, <1>6, MeetsMeansNoneOlder DEF SummaryExplainsVerdict
<1>9. QED
  BY <1>7, <1>8 DEF Verdicts

LEMMA DefaultVerdict ==
  ASSUME TypeOK, Between, CheckDefaultIsMin
  PROVE  Verdicts'
<1>1. Evaluated /\ flags.mode = "default" /\ defaultVersion \in Int
  BY HardwareAssumption DEF CheckDefaultIsMin, TypeOK
<1>2. Result(IF MeetsMinVersion(defaultVersion) THEN "OK" ELSE "WARNING", defaultVersion)
  BY DEF CheckDefaultIsMin
<1>3. Below(version, defaultVersion) => ~MeetsMinVersion(defaultVersion)
  BY <1>1, ReadBetween, MeetsMeansNoneOlder DEF Below
<1>4. ~MeetsMinVersion(defaultVersion) => Below(first, defaultVersion)
  BY <1>1, ReadBetween, MeetsMeansNoneOlder DEF Below
<1>5. /\ Below(version, defaultVersion)' = Below(version, defaultVersion)
      /\ Below(first, defaultVersion)' = Below(first, defaultVersion)
  BY <1>2, ResultKeepsInput DEF Below
<1>6. /\ flags' = flags /\ defaultVersion' = defaultVersion
      /\ exitState' = IF MeetsMinVersion(defaultVersion) THEN "OK" ELSE "WARNING"
      /\ outdated' = OlderThan(defaultVersion)
      /\ upgrade' = IF MeetsMinVersion(defaultVersion) THEN {} ELSE OlderThan(defaultVersion)
  BY <1>2, ResultKeepsInput
<1>7. VerdictReflectsVersions'
  BY <1>1, <1>3, <1>4, <1>5, <1>6 DEF VerdictReflectsVersions, Exceeded
<1>8. SummaryExplainsVerdict'
  BY <1>1, <1>6, MeetsMeansNoneOlder DEF SummaryExplainsVerdict
<1>9. QED
  BY <1>7, <1>8 DEF Verdicts

\* With versions of one length, machines that are further behind the newest of the index
\* than d were so or have become so, and those that are so all the time are found.
LEMMA NewestMeasures ==
  ASSUME TypeOK, Between, Evaluated, SameLength, NEW d \in Nat
  PROVE  /\ Behind(version, first, d) => ~MeetsMinVersion(Newest - d)
         /\ ~MeetsMinVersion(Newest - d) => Behind(first, version, d)
<1>1. Newest \in Int /\ Newest \in Index
  BY NewestIsLast, EvaluatedRecords
<1>2. ASSUME NEW v \in selected, NEW w \in selected, first[w] - version[v] > d
      PROVE  record[v] < Newest - d
  <2>1. record[w] <= Newest
    BY NewestIsHighest DEF Index
  <2>2. QED
    BY <1>1, <1>2, <2>1, ReadBetween
<1>3. ASSUME NEW v \in selected, record[v] < Newest - d
      PROVE  Behind(first, version, d)
  <2>1. PICK w \in selected : record[w] = Newest
    BY <1>1 DEF Index
  <2>2. version[w] - first[v] > d
    BY <1>1, <1>3, <2>1, ReadBetween
  <2>3. v # w
    BY <1>1, <1>3, <2>1
  <2>4. QED
    BY <2>2, <2>3 DEF Behind
<1>4. MeetsMinVersion(Newest - d) <=> ~ \E v \in selected : record[v] < Newest - d
  BY <1>1, MeetsMeansNoneOlder
<1>5. QED
  BY <1>2, <1>3, <1>4 DEF Behind

LEMMA HomogeneousVerdict ==
  ASSUME TypeOK, Between, CheckHomogeneous
  PROVE  Verdicts'
<1>1. Evaluated /\ flags.mode = "homogeneous"
  BY DEF CheckHomogeneous
<1>2. Result(IF Cardinality(Index) > 1 THEN "WARNING" ELSE "OK", Newest)
  BY DEF CheckHomogeneous
<1>3. SameLength' = SameLength
  BY <1>2, ResultKeepsInput DEF SameLength
<1>4. /\ Behind(version, first, 0)' = Behind(version, first, 0)
      /\ Behind(first, version, 0)' = Behind(first, version, 0)
  BY <1>2, ResultKeepsInput DEF Behind
<1>5. ASSUME SameLength
      PROVE  Cardinality(Index) > 1 <=> ~MeetsMinVersion(Newest)
  <2>1. Newest \in Int /\ Newest \in Index
    BY <1>1, NewestIsLast, EvaluatedRecords
  <2>2. \A v \in selected : record[v] \in Int /\ record[v] <= Newest
    BY <1>1, <1>5, NewestIsHighest, EvaluatedRecords DEF Index
  <2>3. PICK w \in selected : record[w] = Newest
    BY <2>1 DEF Index
  <2>4. (\E u, v \in selected : record[u] # record[v]) <=> \E v \in selected : record[v] < Newest
    BY <2>1, <2>2, <2>3
  <2>5. MeetsMinVersion(Newest) <=> ~ \E v \in selected : record[v] < Newest
    BY <1>1, <2>1, MeetsMeansNoneOlder
  <2>6. QED
    BY <1>1, <2>4, <2>5, SeveralVersions
<1>6. ASSUME SameLength
      PROVE  /\ Behind(version, first, 0) => Cardinality(Index) > 1
             /\ Cardinality(Index) > 1 => Behind(first, version, 0)
  <2>1. Newest - 0 = Newest
    BY <1>1, NewestIsLast, EvaluatedRecords
  <2>2. QED
    BY <1>1, <1>5, <1>6, <2>1, NewestMeasures
<1>7. VerdictReflectsVersions'
  <2>1. flags' = flags /\ exitState' = IF Cardinality(Index) > 1 THEN "WARNING" ELSE "OK"
    BY <1>2, ResultKeepsInput
  <2>2. QED
    BY <1>1, <1>3, <1>4, <1>6, <2>1 DEF VerdictReflectsVersions, Exceeded
<1>8. ASSUME SameLength
      PROVE  (exitState' # "OK" <=> outdated' # {}) /\ upgrade' = outdated'
  <2>1. Newest \in Int
    BY <1>1, NewestIsLast, EvaluatedRecords
  <2>2. QED
    BY <1>1, <1>2, <1>5, <1>8, <2>1, MeetsMeansNoneOlder, ResultKeepsInput
<1>9. SummaryExplainsVerdict'
  BY <1>1, <1>2, <1>3, <1>8, ResultKeepsInput DEF SummaryExplainsVerdict
<1>10. QED
  BY <1>7, <1>9 DEF Verdicts

LEMMA OutdatedVerdict ==
  ASSUME TypeOK, Between, CheckOutdatedBy
  PROVE  Verdicts'
<1> DEFINE critical == Newest - flags.crit
           warning  == Newest - flags.warn
<1>1. Evaluated /\ flags.mode = "outdated"
  BY DEF CheckOutdatedBy
<1>2. /\ Newest \in Int /\ flags.crit \in Nat /\ flags.warn \in Nat /\ flags.warn < flags.crit
      /\ critical \in Int /\ warning \in Int
  <2>1. flags.crit \in Int /\ flags.warn \in Int /\ 1 <= flags.warn /\ flags.warn < flags.crit
    BY <1>1, HardwareAssumption DEF TypeOK, Flags
  <2>2. Newest \in Int
    BY <1>1, NewestIsLast, EvaluatedRecords
  <2>3. QED
    BY <2>1, <2>2
<1>3. \/ ~MeetsMinVersion(critical) /\ Result("CRITICAL", critical)
      \/ MeetsMinVersion(critical) /\ ~MeetsMinVersion(warning) /\ Result("WARNING", warning)
      \/ MeetsMinVersion(critical) /\ MeetsMinVersion(warning) /\ Result("OK", warning)
  BY DEF CheckOutdatedBy
<1>4. /\ UNCHANGED <<version, first, flags, selected, record, defaultVersion>>
      /\ SameLength' = SameLength
      /\ \A d : /\ Behind(version, first, d)' = Behind(version, first, d)
                /\ Behind(first, version, d)' = Behind(first, version, d)
  <2>1. UNCHANGED <<version, first, flags, selected, record, defaultVersion>>
    BY <1>3, ResultKeepsInput
  <2>2. QED
    BY <2>1 DEF SameLength, Behind
<1>5. ~MeetsMinVersion(critical) => ~MeetsMinVersion(warning)
  <2>1. ASSUME NEW v \in selected, record[v] < critical
        PROVE  record[v] < warning
    BY <1>1, <1>2, <2>1, EvaluatedRecords
  <2>2. QED
    BY <1>1, <1>2, <2>1, MeetsMeansNoneOlder
<1>6. /\ exitState' = "CRITICAL" <=> ~MeetsMinVersion(critical)
      /\ exitState' # "OK" <=> ~MeetsMinVersion(warning)
  BY <1>3, <1>5, ResultKeepsInput
<1>7. ASSUME SameLength
      PROVE  /\ Behind(version, first, flags.crit) => exitState' = "CRITICAL"
             /\ Behind(version, first, flags.warn) => exitState' # "OK"
             /\ exitState' = "CRITICAL" => Behind(first, version, flags.crit)
             /\ exitState' # "OK" => Behind(first, version, flags.warn)
  BY <1>1, <1>2, <1>6, <1>7, NewestMeasures
<1>8. VerdictReflectsVersions'
  BY <1>1, <1>4, <1>7 DEF VerdictReflectsVersions, Exceeded
<1>9. SummaryExplainsVerdict'
  <2>1. CASE ~MeetsMinVersion(critical) /\ Result("CRITICAL", critical)
    BY <1>1, <1>2, <2>1, MeetsMeansNoneOlder, ResultKeepsInput DEF SummaryExplainsVerdict
  <2>2. CASE ~MeetsMinVersion(warning) /\ Result("WARNING", warning)
    BY <1>1, <1>2, <2>2, MeetsMeansNoneOlder, ResultKeepsInput DEF SummaryExplainsVerdict
  <2>3. CASE MeetsMinVersion(warning) /\ Result("OK", warning)
    BY <1>1, <1>2, <2>3, MeetsMeansNoneOlder, ResultKeepsInput DEF SummaryExplainsVerdict
  <2>4. QED
    BY <1>3, <2>1, <2>2, <2>3
<1>10. QED
  BY <1>8, <1>9 DEF Verdicts

\* Nothing happens after the verdict, and no other step gives one.
LEMMA NextKeepsVerdicts ==
  ASSUME TypeOK, Between, Verdicts, [Next]_vars
  PROVE  Verdicts'
<1>1. CASE UNCHANGED vars
  BY <1>1 DEF Verdicts, VerdictReflectsVersions, SummaryExplainsVerdict, Exceeded, Behind, Below,
              SameLength, vars, server, result
<1>2. ASSUME \/ \E v \in VMs : UpgradeVM(v) \/ ToggleReadable(v)
             \/ \E r \in Resources : SetDefault(r) \/ DestroyResource(r)
             \/ \E h \in Hosts : MoveHost(h)
      PROVE  cause' # "verdict"
  BY <1>2, ChangesTyped DEF Change, result, TypeOK
<1>3. CASE \/ \E v \in VMs : RetrieveVM(v)
           \/ AllRetrieved \/ FindComputeResource \/ GetHostSystemByName \/ QueryConfigOption
           \/ RequestFails \/ Panic
  <2>1. cause' # "verdict"
    BY <1>3 DEF TypeOK, result, RetrieveVM, AllRetrieved, FindComputeResource,
                GetHostSystemByName, QueryConfigOption, RequestFails, Panic
  <2>2. QED
    BY <2>1 DEF Verdicts, VerdictReflectsVersions, SummaryExplainsVerdict
<1>4. CASE Checks
  BY <1>4, HomogeneousVerdict, MinimumVerdict, DefaultVerdict, OutdatedVerdict DEF Checks
<1>5. QED
  BY <1>1, <1>2, <1>3, <1>4, NextCases DEF Verdicts, VerdictReflectsVersions, SummaryExplainsVerdict

LEMMA Inductive == Spec => []IInv
<1>1. Init => IInv
  <2>1. Init => cause # "verdict"
    BY DEF Init
  <2>2. QED
    BY <2>1, InitTypeOK, InitBetween
       DEF IInv, Verdicts, VerdictReflectsVersions, SummaryExplainsVerdict
<1>2. IInv /\ [Next]_vars => IInv'
  BY NextKeepsTypes, NextKeepsBetween, NextKeepsVerdicts DEF IInv
<1>3. QED
  BY <1>1, <1>2, PTL DEF Spec

\* For any machines that are upgraded while they are read, the verdict claims no more than
\* the versions of the run explain and overlooks nothing that was so all the time.
THEOREM VerdictByVersions == Spec => []VerdictReflectsVersions
<1>1. IInv => VerdictReflectsVersions
  BY DEF IInv, Verdicts
<1>2. QED
  BY <1>1, Inductive, PTL

\* An alert names the machines to upgrade, in the summary and in the report, and OK none.
THEOREM SummaryCorrect == Spec => []SummaryExplainsVerdict
<1>1. IInv => SummaryExplainsVerdict
  BY DEF IInv, Verdicts
<1>2. QED
  BY <1>1, Inductive, PTL
=============================================================================
