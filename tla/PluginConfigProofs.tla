------------------------- MODULE PluginConfigProofs -------------------------
(***************************************************************************)
(* Proofs about PluginConfig, for every set of command lines.              *)
(***************************************************************************)
EXTENDS PluginConfig, FiniteSetTheorems, TLAPS

Lists == {"include-status", "exclude-status"}

\* Lemma of this module: what the fields hold once the flags are bound to them.
Bound ==
  step # "flags" /\ outcome # "usage" =>
    /\ DOMAIN c = Exposed(plugin)
    /\ \A f \in DOMAIN c \cap NumberFlags : c[f] \in Int
    /\ \A f \in DOMAIN c \cap Lists : c[f] \in Seq(DOMAIN Lower)

\* A configuration that passed the validation.
Valid == RPListsValid /\ ThresholdsValid /\ HardwareValid /\ AttributesValid /\ SharedValid

\* Only a valid configuration gets beyond the validation and is returned.
Validated ==
  /\ step \in {"logging", "statuses"} \/ outcome = "config" => Valid
  /\ outcome = "config" => step = "return"

IInv == TypeOK /\ Bound /\ Validated /\ StatusKeywordsKept

LEMMA DefaultTypes ==
  ASSUME NEW p, NEW f
  PROVE  /\ f \in NumberFlags => Default(p, f) \in Int
         /\ f \in Lists => Default(p, f) \in Seq(DOMAIN Lower)
<1>1. DefaultThresholds(p)[1] \in Int /\ DefaultThresholds(p)[2] \in Int
  BY DEF DefaultThresholds
<1>2. Unset \in Int /\ << >> \in Seq(DOMAIN Lower)
  BY DEF Unset
<1>3. CASE f \in Lists
  <2>1. Default(p, f) = << >>
    BY <1>3 DEF Default, Lists, RPFlags, AttributeFlags
  <2>2. QED
    BY <1>2, <1>3, <2>1 DEF Lists, NumberFlags
<1>4. CASE f \in {"warning", "critical"}
  <2>1. Default(p, f) = DefaultThresholds(p)[1] \/ Default(p, f) = DefaultThresholds(p)[2]
    BY <1>4 DEF Default, RPFlags, AttributeFlags
  <2>2. QED
    BY <1>1, <1>4, <2>1 DEF Lists
<1>5. CASE f \in {"max-allowed", "minimum-version", "outdated-by-warning",
                  "outdated-by-critical", "timeout"}
  <2>1. Default(p, f) \in {0, Unset, 10}
    BY <1>5 DEF Default, RPFlags, AttributeFlags
  <2>2. QED
    BY <1>2, <1>5, <2>1 DEF Lists
<1>6. QED
  BY <1>3, <1>4, <1>5 DEF NumberFlags

-----------------------------------------------------------------------------
(* One lemma per step.                                                      *)

LEMMA InitInv == Init => IInv
BY ConfigAssumption DEF Init, IInv, TypeOK, Bound, Validated, StatusKeywordsKept, Accepted

LEMMA UndefinedFlagInv == IInv /\ UndefinedFlag => IInv'
BY DEF IInv, UndefinedFlag, Return, TypeOK, Bound, Validated, StatusKeywordsKept, Accepted

LEMMA FlagsInv == IInv /\ handleFlagsConfig => IInv'
<1> SUFFICES ASSUME IInv, handleFlagsConfig PROVE IInv'
  OBVIOUS
<1>1. /\ plugin' = plugin /\ given' = given /\ outcome' = outcome /\ step' = "version"
      /\ outcome = "none"
  BY DEF handleFlagsConfig, IInv, TypeOK
<1>2. DOMAIN c' = Exposed(plugin)
  BY DEF handleFlagsConfig
<1>3. ASSUME NEW f \in Exposed(plugin)
      PROVE  c'[f] = IF f \in DOMAIN given THEN given[f] ELSE Default(plugin, f)
  BY DEF handleFlagsConfig
<1>4. /\ plugin \in Plugins /\ given \in CommandLines[plugin]
  BY DEF IInv, TypeOK
<1>5. ASSUME NEW f \in Exposed(plugin) \cap NumberFlags PROVE c'[f] \in Int
  BY <1>3, <1>4, DefaultTypes, ConfigAssumption
<1>6. ASSUME NEW f \in Exposed(plugin) \cap Lists PROVE c'[f] \in Seq(DOMAIN Lower)
  BY <1>3, <1>4, DefaultTypes, ConfigAssumption DEF Lists
<1>7. Bound'
  BY <1>1, <1>2, <1>5, <1>6 DEF Bound
<1>8. TypeOK'
  BY <1>1, <1>2, <1>4 DEF TypeOK
<1>9. QED
  BY <1>1, <1>7, <1>8 DEF IInv, Validated, StatusKeywordsKept, Accepted

LEMMA ShowVersionInv == IInv /\ ShowVersion => IInv'
BY DEF IInv, ShowVersion, Return, Continue, TypeOK, Bound, Validated, StatusKeywordsKept,
       Accepted

\* What the validity of a configuration speaks of stays as it is.
LEMMA SameConfiguration ==
  ASSUME plugin' = plugin, c' = c
  PROVE  Valid' <=> Valid
BY DEF Valid, RPListsValid, ThresholdsValid, LowestThreshold, HardwareValid, AttributesValid,
       SharedValid, MinGiven, WarnGiven, CritGiven, DefaultIsMin, OutdatedByValid, SharedOrBoth

LEMMA ValidateInv == IInv /\ validate => IInv'
<1> SUFFICES ASSUME IInv, validate PROVE IInv'
  OBVIOUS
<1>1. Valid' <=> Valid
  BY SameConfiguration DEF validate, Return, Continue
<1>2. QED
  BY <1>1 DEF IInv, validate, Valid, Return, Continue, TypeOK, Bound, Validated,
              StatusKeywordsKept, Accepted

LEMMA LoggingInv == IInv /\ setupLogging => IInv'
<1> SUFFICES ASSUME IInv, setupLogging PROVE IInv'
  OBVIOUS
<1>1. Valid' <=> Valid
  BY SameConfiguration DEF setupLogging, Return, Continue
<1>2. QED
  BY <1>1 DEF IInv, setupLogging, Return, Continue, TypeOK, Bound, Validated,
              StatusKeywordsKept, Accepted

LEMMA InvalidStatusInv == IInv /\ InvalidStatus => IInv'
<1> SUFFICES ASSUME IInv, InvalidStatus PROVE IInv'
  OBVIOUS
<1>1. Valid' <=> Valid
  BY SameConfiguration DEF InvalidStatus, Return
<1>2. QED
  BY <1>1 DEF IInv, InvalidStatus, Return, TypeOK, Bound, Validated, StatusKeywordsKept,
              Accepted

-----------------------------------------------------------------------------
(* The status lists.                                                        *)

\* The keys of a map are listed once each: a sequence as long as the finite set whose
\* elements it lists repeats none of them.
LEMMA KeysOnce ==
  ASSUME NEW S, IsFiniteSet(S), NEW s \in KeysInAnyOrder(S)
  PROVE  \A i, j \in DOMAIN s : s[i] = s[j] => i = j
<1> DEFINE D == 1..Cardinality(S)
<1>1. Cardinality(S) \in Nat
  BY FS_CardinalityType
<1>2. IsFiniteSet(D) /\ Cardinality(D) = Cardinality(S)
  BY <1>1, FS_Interval
<1>3. s \in [D -> S] /\ {s[i] : i \in D} = S
  BY DEF KeysInAnyOrder
<1>4. s \in Surjection(D, S)
  BY <1>3 DEF Surjection
<1>5. s \in Injection(D, S)
  BY <1>2, <1>4, FS_SurjSameCardinalityImpliesInj
<1>6. QED
  BY <1>3, <1>5 DEF Injection, IsInjective

LEMMA FoldedFinite ==
  ASSUME NEW k \in Seq(DOMAIN Lower)
  PROVE  IsFiniteSet({Lower[k[i]] : i \in DOMAIN k})
<1> DEFINE T == {Lower[k[i]] : i \in 1..Len(k)}
           f == [i \in 1..Len(k) |-> Lower[k[i]]]
<1>1. DOMAIN k = 1..Len(k) /\ Len(k) \in Nat
  OBVIOUS
<1>2. IsFiniteSet(1..Len(k))
  BY <1>1, FS_Interval
<1>3. f \in Surjection(1..Len(k), T)
  BY DEF Surjection
<1>4. IsFiniteSet(T)
  BY <1>2, <1>3, FS_Surjection
<1>5. QED
  BY <1>1, <1>4

\* A list filled from the keys of a map holds the keywords given, each once.
LEMMA ListFilled ==
  ASSUME NEW k \in Seq(DOMAIN Lower), NEW s,
         s \in KeysInAnyOrder({Lower[k[i]] : i \in DOMAIN k}),
         \A x \in {Lower[k[i]] : i \in DOMAIN k} : KnownStatus(x)
  PROVE  /\ {s[i] : i \in DOMAIN s} = {Lower[k[i]] : i \in DOMAIN k}
         /\ \A i, j \in DOMAIN s : s[i] = s[j] => i = j
         /\ \A i \in DOMAIN s : s[i] \in DOMAIN getTriggeredAlarmStatuses
<1> DEFINE S == {Lower[k[i]] : i \in DOMAIN k}
<1>1. {s[i] : i \in DOMAIN s} = S
  BY DEF KeysInAnyOrder
<1>2. \A i, j \in DOMAIN s : s[i] = s[j] => i = j
  BY FoldedFinite, KeysOnce
<1>3. ASSUME NEW i \in DOMAIN s PROVE s[i] \in DOMAIN getTriggeredAlarmStatuses
  <2>1. s[i] \in S
    BY <1>1
  <2>2. PICK n \in DOMAIN k : s[i] = Lower[k[n]]
    BY <2>1
  <2>3. k[n] \in DOMAIN Lower
    OBVIOUS
  <2>4. Lower[s[i]] = s[i]
    BY <2>2, <2>3, ConfigAssumption
  <2>5. QED
    BY <2>1, <2>4 DEF KnownStatus
<1>4. QED
  BY <1>1, <1>2, <1>3

LEMMA StatusesInv == IInv /\ setAlarmStatuses => IInv'
<1> SUFFICES ASSUME IInv, setAlarmStatuses PROVE IInv'
  OBVIOUS
<1>1. /\ plugin' = plugin /\ given' = given /\ c' = c
      /\ step' = "return" /\ outcome' = "config"
  BY DEF setAlarmStatuses
<1>2. Valid'
  BY <1>1, SameConfiguration DEF IInv, Validated, setAlarmStatuses
<1>3. step = "statuses" /\ outcome # "usage"
  BY DEF IInv, TypeOK, setAlarmStatuses
<1>4. TypeOK' /\ Bound' /\ Validated'
  BY <1>1, <1>2, <1>3 DEF IInv, TypeOK, Bound, Validated
<1>5. CASE plugin = "Alarms"
  <2>1. Lists \subseteq DOMAIN c
    BY <1>3, <1>5 DEF IInv, Bound, Exposed, AlarmFlags, Lists
  <2>2. c["include-status"] \in Seq(DOMAIN Lower) /\ c["exclude-status"] \in Seq(DOMAIN Lower)
    BY <1>3, <2>1 DEF IInv, Bound, Lists
  <2>3. /\ IncludedAlarmStatuses' \in KeysInAnyOrder(Folded("include-status"))
        /\ ExcludedAlarmStatuses' \in KeysInAnyOrder(Folded("exclude-status"))
        /\ \A k \in Folded("include-status") \cup Folded("exclude-status") : KnownStatus(k)
    BY DEF setAlarmStatuses
  <2>4. ASSUME NEW list PROVE Folded(list) = {Lower[c[list][i]] : i \in DOMAIN c[list]}
    BY <1>5 DEF Folded, Keywords
  <2>5. ASSUME NEW pair \in { <<IncludedAlarmStatuses', c["include-status"]>>,
                               <<ExcludedAlarmStatuses', c["exclude-status"]>> }
        PROVE  /\ {pair[1][i] : i \in DOMAIN pair[1]} = {Lower[pair[2][i]] : i \in DOMAIN pair[2]}
               /\ \A i, j \in DOMAIN pair[1] : pair[1][i] = pair[1][j] => i = j
               /\ \A i \in DOMAIN pair[1] : pair[1][i] \in DOMAIN getTriggeredAlarmStatuses
    <3>1. /\ pair[2] \in Seq(DOMAIN Lower)
          /\ pair[1] \in KeysInAnyOrder({Lower[pair[2][i]] : i \in DOMAIN pair[2]})
          /\ \A x \in {Lower[pair[2][i]] : i \in DOMAIN pair[2]} : KnownStatus(x)
      <4>1. CASE pair = <<IncludedAlarmStatuses', c["include-status"]>>
        <5>1. pair[1] = IncludedAlarmStatuses' /\ pair[2] = c["include-status"]
          BY <4>1
        <5>2. Folded("include-status") = {Lower[pair[2][i]] : i \in DOMAIN pair[2]}
          BY <2>4, <5>1
        <5>3. QED
          BY <2>2, <2>3, <5>1, <5>2
      <4>2. CASE pair = <<ExcludedAlarmStatuses', c["exclude-status"]>>
        <5>1. pair[1] = ExcludedAlarmStatuses' /\ pair[2] = c["exclude-status"]
          BY <4>2
        <5>2. Folded("exclude-status") = {Lower[pair[2][i]] : i \in DOMAIN pair[2]}
          BY <2>4, <5>1
        <5>3. QED
          BY <2>2, <2>3, <5>1, <5>2
      <4>3. QED
        BY <4>1, <4>2
    <3>2. QED
      BY <3>1, ListFilled
  <2>6. QED
    BY <1>1, <1>4, <2>5 DEF IInv, StatusKeywordsKept
<1>6. CASE plugin # "Alarms"
  BY <1>1, <1>4, <1>6 DEF IInv, StatusKeywordsKept, Accepted
<1>7. QED
  BY <1>5, <1>6

LEMMA StutterInv == IInv /\ UNCHANGED vars => IInv'
<1> SUFFICES ASSUME IInv, UNCHANGED vars PROVE IInv'
  OBVIOUS
<1>1. Valid' <=> Valid
  BY SameConfiguration DEF vars
<1>2. QED
  BY <1>1 DEF IInv, vars, TypeOK, Bound, Validated, StatusKeywordsKept, Accepted

LEMMA InductiveInv == Spec => []IInv
<1>1. IInv /\ [Next]_vars => IInv'
  BY UndefinedFlagInv, FlagsInv, ShowVersionInv, ValidateInv, LoggingInv, StatusesInv,
     InvalidStatusInv, StutterInv DEF Next
<1>2. QED
  BY InitInv, <1>1, PTL DEF Spec

-----------------------------------------------------------------------------
(* Theorems.                                                                *)

\* config.New keeps its types: a result is there exactly when it has returned.
THEOREM TypeCorrect == Spec => []TypeOK
<1>1. IInv => TypeOK
  BY DEF IInv
<1>2. QED
  BY InductiveInv, <1>1, PTL

\* The status lists the filter uses hold the keywords of the command line, each once,
\* whatever keywords are given (setAlarmStatuses fills them from the keys of a map).
THEOREM StatusListsComplete == Spec => []StatusKeywordsKept
<1>1. IInv => StatusKeywordsKept
  BY DEF IInv
<1>2. QED
  BY InductiveInv, <1>1, PTL

LEMMA ExactlyOne ==
  ASSUME NEW m \in [1..4 -> BOOLEAN],
         NEW k \in 1..4, m[k], \A i \in 1..4 : m[i] => i = k
  PROVE  Cardinality({i \in 1..4 : m[i]}) = 1
<1>1. {i \in 1..4 : m[i]} = {k}
  OBVIOUS
<1>2. QED
  BY <1>1, FS_Singleton

\* Of four conditions of which exactly one holds.
LEMMA OneOfFour ==
  ASSUME NEW A \in BOOLEAN, NEW B \in BOOLEAN, NEW C \in BOOLEAN, NEW D \in BOOLEAN,
         A \/ B \/ C \/ D,
         A => ~ B /\ ~ C /\ ~ D, B => ~ C /\ ~ D, C => ~ D
  PROVE  Cardinality({i \in 1..4 : <<A, B, C, D>>[i]}) = 1
<1> DEFINE m == <<A, B, C, D>>
<1>1. m \in [1..4 -> BOOLEAN]
  OBVIOUS
<1>2. m[1] = A /\ m[2] = B /\ m[3] = C /\ m[4] = D
  OBVIOUS
<1> HIDE DEF m
<1>3. 1..4 = {1, 2, 3, 4}
  OBVIOUS
<1>4. \E k \in 1..4 : m[k] /\ \A i \in 1..4 : m[i] => i = k
  <2>1. CASE A
    BY <1>2, <1>3, <2>1
  <2>2. CASE B
    BY <1>2, <1>3, <2>2
  <2>3. CASE C
    BY <1>2, <1>3, <2>3
  <2>4. CASE D
    BY <1>2, <1>3, <2>4
  <2>5. QED
    BY <2>1, <2>2, <2>3, <2>4
<1>5. Cardinality({i \in 1..4 : m[i]}) = 1
  BY <1>1, <1>4, ExactlyOne
<1>6. QED
  BY <1>5 DEF m

\* Every accepted configuration of check_vmware_vhw selects exactly one of the four
\* blocks of its main, the outdated-by one with usable thresholds.
THEOREM HardwareModeUnique == Spec => []OneHardwareMode
<1>1. ASSUME IInv PROVE OneHardwareMode
  <2> SUFFICES ASSUME Accepted("VirtualHardwareVersion") PROVE OneHardwareMode
    BY DEF OneHardwareMode
  <2>1. HardwareValid /\ plugin = "VirtualHardwareVersion"
    BY <1>1 DEF IInv, Validated, Valid, Accepted
  <2>2. step # "flags" /\ outcome # "usage"
    BY <1>1 DEF IInv, Validated, Accepted
  <2>3. HardwareFlags \subseteq DOMAIN c
    BY <1>1, <2>1, <2>2 DEF IInv, Bound, Exposed
  <2>4. c["outdated-by-warning"] \in Int /\ c["outdated-by-critical"] \in Int
    BY <1>1, <2>2, <2>3 DEF IInv, Bound, HardwareFlags, NumberFlags
  <2>5. ApplyOutdatedByVersionCheck =>
          0 < c["outdated-by-warning"] /\ c["outdated-by-warning"] < c["outdated-by-critical"]
    BY <2>1, <2>4 DEF HardwareValid, OutdatedByValid, ApplyOutdatedByVersionCheck
  <2>6. /\ ApplyMinVersionCheck \in BOOLEAN /\ ApplyDefaultIsMinVersionCheck \in BOOLEAN
        /\ ApplyOutdatedByVersionCheck \in BOOLEAN /\ ApplyHomogeneousVersionCheck \in BOOLEAN
    BY DEF ApplyMinVersionCheck, ApplyDefaultIsMinVersionCheck, ApplyOutdatedByVersionCheck,
           ApplyHomogeneousVersionCheck
  <2>7. /\ \/ ApplyMinVersionCheck \/ ApplyDefaultIsMinVersionCheck
           \/ ApplyOutdatedByVersionCheck \/ ApplyHomogeneousVersionCheck
        /\ ApplyMinVersionCheck =>
             /\ ~ ApplyDefaultIsMinVersionCheck /\ ~ ApplyOutdatedByVersionCheck
             /\ ~ ApplyHomogeneousVersionCheck
        /\ ApplyDefaultIsMinVersionCheck =>
             ~ ApplyOutdatedByVersionCheck /\ ~ ApplyHomogeneousVersionCheck
        /\ ApplyOutdatedByVersionCheck => ~ ApplyHomogeneousVersionCheck
    BY <2>1 DEF HardwareValid, ApplyMinVersionCheck, ApplyDefaultIsMinVersionCheck,
                ApplyOutdatedByVersionCheck, ApplyHomogeneousVersionCheck
  <2>8. QED
    BY <2>5, <2>6, <2>7, OneOfFour DEF OneHardwareMode
<1>2. QED
  BY InductiveInv, <1>1, PTL

\* An accepted configuration fits together: a WARNING band that is neither empty nor
\* negative, and two Custom Attributes with separators for both or for neither.
THEOREM AcceptedFitsTogether == Spec => []AcceptedIsConsistent
<1>1. ASSUME IInv PROVE WarningBandExists
  <2> SUFFICES ASSUME outcome = "config", ThresholdFlags \subseteq Exposed(plugin)
               PROVE  0 <= c["warning"] /\ c["warning"] < c["critical"]
    BY DEF WarningBandExists
  <2>1. ThresholdsValid /\ step # "flags" /\ outcome # "usage"
    BY <1>1 DEF IInv, Validated, Valid
  <2>2. c["warning"] \in Int /\ c["critical"] \in Int
    BY <1>1, <2>1 DEF IInv, Bound, ThresholdFlags, NumberFlags
  <2>3. LowestThreshold \in {0, 1}
    BY DEF LowestThreshold
  <2>4. QED
    BY <2>1, <2>2, <2>3 DEF ThresholdsValid
<1>2. ASSUME IInv PROVE AttributesPairUp
  <2> SUFFICES ASSUME Accepted("Host2Datastores2VMs") PROVE AttributesPairUp
    BY DEF AttributesPairUp
  <2>1. AttributesValid /\ plugin = "Host2Datastores2VMs"
    BY <1>2 DEF IInv, Validated, Valid, Accepted
  <2>2. HostCAName # NoText /\ DatastoreCAName # NoText
    BY <2>1 DEF AttributesValid, SharedOrBoth, HostCAName, DatastoreCAName
  <2>3. UsingSharedCA => HostCAName = DatastoreCAName
    BY <2>1 DEF AttributesValid, SharedOrBoth, HostCAName, DatastoreCAName, UsingSharedCA
  <2>4. (UsingCAPrefixes <=> HostCASep # NoText) /\ (UsingCAPrefixes <=> DatastoreCASep # NoText)
    BY <2>1 DEF AttributesValid, SharedOrBoth, UsingCAPrefixes, HostCASep, DatastoreCASep
  <2>5. QED
    BY <2>2, <2>3, <2>4 DEF AttributesPairUp
<1>3. IInv => AcceptedIsConsistent
  BY <1>1, <1>2 DEF AcceptedIsConsistent
<1>4. QED
  BY InductiveInv, <1>3, PTL
=============================================================================
