---------------------------- MODULE MCVMSelection ----------------------------
(***************************************************************************)
(* Two pools below the hidden one, side by side or nested, two virtual     *)
(* machines.                                                               *)
(***************************************************************************)
EXTENDS VMSelection

CONSTANTS v1, v2, p1, p2, r

MCNames == {"Resources", "Desktops", "desktops", "Prod", "web"}
MCRank == [n \in MCNames |-> CASE n = "Desktops" -> 1 [] n = "desktops" -> 1
                               [] n = "Prod" -> 2 [] n = "Resources" -> 3 [] OTHER -> 4]
MCVMName == [v \in VMs |-> IF v = v1 THEN "web" ELSE "Prod"]

\* v1 is in p1; v2 anywhere; p2 beside or below p1.
MCInventories ==
  {[pool     |-> [v \in VMs |-> IF v = v1 THEN p1 ELSE p],
    parent   |-> [q \in Pools |-> IF q = p2 THEN up ELSE Root],
    poolName |-> [q \in Pools |-> IF q = p1 THEN "Desktops" ELSE IF q = p2 THEN "Prod" ELSE "Resources"],
    power    |-> [v \in VMs |-> IF v = v2 THEN s ELSE "poweredOn"],
    tools    |-> [v \in VMs |-> IF v = v1 THEN t ELSE "toolsOld"]] :
      p \in {p2, Root}, up \in {p1, Root}, s \in {"poweredOn", "poweredOff"},
      t \in {"toolsOk", "toolsNotRunning"}}

MCSettings ==
  {[include |-> rp[1], exclude |-> rp[2], ignored |-> ign, poweredOff |-> off] :
     rp \in { <<{}, {}>>, <<{"desktops"}, {}>>, <<{"Prod", "Desktops"}, {}>>,
              <<{"Resources"}, {}>>, <<{}, {"desktops"}>>, <<{}, {"web"}>>,
              <<{}, {"Resources"}>>, <<{"Prod", "Resources"}, {}>> },
     ign \in {{}, {"web"}}, off \in BOOLEAN}
=============================================================================
