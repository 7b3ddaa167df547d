---------------------------- MODULE AlarmVerdict ----------------------------
(***************************************************************************)
(* What check_vmware_alarms promises: which of the triggered alarms it     *)
(* reports for given filter flags, and its exit state, with no pipeline,   *)
(* no stage order and no marks.                                            *)
(***************************************************************************)
EXTENDS AlarmMatching

VARIABLES alarm,       \* the properties of each triggered alarm
          filters,     \* the filter flags
          phase,       \* "triggered", "decided" or "failed"
          reported,    \* the alarms reported as in need of attention
          exitState    \* the Nagios state of the service, "none" before

vars == <<alarm, filters, phase, reported, exitState>>

\* The state an alarm asks for.
NagiosState(status) ==
  CASE status = "gray"   -> "UNKNOWN"
    [] status = "green"  -> "OK"
    [] status = "yellow" -> "WARNING"
    [] OTHER             -> "CRITICAL"

\* "Explicit exclusions have precedence over inclusions": an exclude list is in
\* force when its stage has no include list.
ExplicitlyExcluded(a) ==
  \/ alarm[a].acknowledged /\ ~ filters.evalAcknowledged
  \/ \E l \in Lists : /\ filters.include[l] = << >>
                      /\ filters.exclude[l] # << >>
                      /\ AnyMatch(l, alarm[a], filters.exclude[l])

IncludeLists == {l \in Lists : filters.include[l] # << >>}

\* Inclusions add up: one matching include list is enough.
Wanted(a) ==
  /\ ~ ExplicitlyExcluded(a)
  /\ \/ IncludeLists = {}
     \/ \E l \in IncludeLists : AnyMatch(l, alarm[a], filters.include[l])

\* The most severe of the states the alarms in S ask for.
Severest(S) ==
  CASE \E a \in S : NagiosState(alarm[a].status) = "CRITICAL" -> "CRITICAL"
    [] ~ (\E a \in S : NagiosState(alarm[a].status) = "CRITICAL")
       /\ (\E a \in S : NagiosState(alarm[a].status) = "WARNING") -> "WARNING"
    [] ~ (\E a \in S : NagiosState(alarm[a].status) \in {"CRITICAL", "WARNING"})
       /\ (\E a \in S : NagiosState(alarm[a].status) = "UNKNOWN") -> "UNKNOWN"
    [] OTHER -> "OK"

Init == /\ phase = "triggered"
        /\ reported = {}
        /\ exitState = "none"

Decide == /\ phase = "triggered"
          /\ phase' = "decided"
          /\ reported' = {a \in DOMAIN alarm : Wanted(a)}
          /\ exitState' = Severest({a \in DOMAIN alarm : Wanted(a)})
          /\ UNCHANGED <<alarm, filters>>

\* The alarms could not be retrieved: nothing is reported as OK.
Fail == /\ phase = "triggered"
        /\ phase' = "failed"
        /\ exitState' = "CRITICAL"
        /\ UNCHANGED <<alarm, filters, reported>>

Next == Decide \/ Fail

Spec == Init /\ [][Next]_vars
=============================================================================
