--------------------------- MODULE MCAlarmFilter ---------------------------
(***************************************************************************)
(* Small populations of alarms and filter flags for AlarmFilter.           *)
(***************************************************************************)
EXTENDS AlarmFilter

CONSTANTS a1, a2

\* Texts: a few properties, their folded forms, and substrings of them.
MCTexts == {"VirtualMachine", "ResourcePool", "Datastore", "datastore",
            "CPU usage", "cpu usage", "CPU", "cpu", "disk usage",
            "default", "vm1", "VM1", "vm", "Prod", "prod", "Infra", "infra",
            "virtualmachine", "resourcepool",
            "red", "RED", "yellow", "gray"}

MCFold ==
  [t \in MCTexts |->
     CASE t = "VirtualMachine" -> "virtualmachine"
       [] t = "ResourcePool"   -> "resourcepool"
       [] t = "Datastore"      -> "datastore"
       [] t = "CPU usage"      -> "cpu usage"
       [] t = "CPU"            -> "cpu"
       [] t = "VM1"            -> "vm1"
       [] t = "Prod"           -> "prod"
       [] t = "Infra"          -> "infra"
       [] t = "RED"            -> "red"
       [] OTHER                -> t]

MCContains == {<<t, t>> : t \in MCTexts} \cup
              {<<"CPU usage", "CPU">>, <<"cpu usage", "cpu">>, <<"vm1", "vm">>}

MCReasons == Lists \cup {AckReason}

Alarm(t, n, s, e, ack, p) ==
  [type |-> t, name |-> n, description |-> "default", status |-> s,
   entityName |-> e, acknowledged |-> ack, pool |-> p]

\* A virtual machine in a pool, a pool in another, a datastore in none; acknowledged
\* or not; and a virtual machine whose pool cannot be seen.
MCAlarmStates ==
  {Alarm("VirtualMachine", "CPU usage", "red", "vm1", FALSE, "Prod"),
   Alarm("VirtualMachine", "disk usage", "yellow", "vm1", FALSE, "Prod"),
   Alarm("ResourcePool", "CPU usage", "yellow", "Infra", TRUE, "Prod"),
   Alarm("ResourcePool", "disk usage", "gray", "Infra", FALSE, "Prod"),
   Alarm("VirtualMachine", "CPU usage", "red", "vm1", TRUE, "Prod"),
   Alarm("Datastore", "disk usage", "red", "vm", FALSE, NoPool),
   Alarm("Datastore", "CPU usage", "gray", "vm", FALSE, NoPool),
   Alarm("VirtualMachine", "disk usage", "red", "VM1", FALSE, NoPool)}

\* The keyword lists tried for each stage: the first matches some of the alarms,
\* the second has a keyword that misses them before or after one that matches.
MCKeywords ==
  [type        |-> << <<"virtualmachine">>, <<"Datastore", "ResourcePool">> >>,
   name        |-> << <<"CPU">>, <<"vm", "disk usage">> >>,
   description |-> << <<"default">>, <<"cpu">> >>,
   status      |-> << <<"RED">>, <<"gray", "yellow">> >>,
   entityName  |-> << <<"vm">>, <<"Infra", "vm1">> >>,
   pool        |-> << <<"prod">>, <<"infra", "Prod">> >>]

\* The flags that give stage l1 its k1-th list, and stage l2 its k2-th; modes say
\* which of the two are include lists.
FlagsOf(ack, l1, k1, l2, k2, modes) ==
  LET lists(mode) == [l \in Lists |->
                        IF l = l1 /\ modes[1] = mode THEN MCKeywords[l1][k1]
                        ELSE IF l = l2 /\ (l1 # l2 \/ l = "status") /\ modes[2] = mode THEN MCKeywords[l2][k2]
                        ELSE << >>]
  IN [evalAcknowledged |-> ack, include |-> lists("include"), exclude |-> lists("exclude")]

\* Every pair of stages, every choice of lists, and both of the status lists.
MCAllFlags ==
  {FlagsOf(ack, l1, k1, l2, k2, modes) :
     ack \in BOOLEAN, l1 \in Lists, l2 \in Lists, k1 \in 1..2, k2 \in 1..2,
     modes \in {"include", "exclude"} \X {"include", "exclude"}}
=============================================================================
