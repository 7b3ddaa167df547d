----------------------- MODULE MCHostDatastorePairing -----------------------
(***************************************************************************)
(* Two hosts in one or two locations, three datastores of which one may be *)
(* local, two virtual machines with different names or with the same.      *)
(***************************************************************************)
EXTENDS HostDatastorePairing, TLC

CONSTANTS v1, v2, h1, h2, d1, d2, d3

MCValues == {"NotSet", "notset", "DC1-rack", "dc1-rack", "DC1", "dc1", "DC1_a", "dc1_a",
             "DC2", "dc2", "db", "web", "ds1", "ds2", "DS2", "local"}

MCFold == [t \in MCValues |->
             CASE t = "NotSet" -> "notset" [] t = "DC1-rack" -> "dc1-rack" [] t = "DC1" -> "dc1"
               [] t = "DC1_a" -> "dc1_a" [] t = "DC2" -> "dc2" [] t = "DS2" -> "ds2"
               [] OTHER -> t]

\* Hosts split at "-", datastores at "_".
MCHostPrefix == [t \in MCValues |->
                   CASE t = "DC1-rack" -> "DC1" [] t = "dc1-rack" -> "dc1" [] OTHER -> t]
MCDatastorePrefix == [t \in MCValues |->
                        CASE t = "DC1_a" -> "DC1" [] t = "dc1_a" -> "dc1" [] OTHER -> t]

MCDatastoreName == d1 :> "ds1" @@ d2 :> "ds2" @@ d3 :> "local"

MCInventories ==
  {[vmName |-> v1 :> "web" @@ v2 :> name2,
    host |-> v1 :> h1 @@ v2 :> h2, on |-> v1 :> on1 @@ v2 :> on2,
    hostCA |-> h1 :> "DC1-rack" @@ h2 :> ca2,
    dsCA |-> d1 :> "DC1_a" @@ d2 :> dsca2 @@ d3 :> dsca3, destroyed |-> {}] :
      name2 \in {"web", "db"}, on1 \in {{d1}, {d1, d2}}, on2 \in {{d2}, {d1, d3}},
      ca2 \in {"dc1", "DC2", NoneSet}, dsca2 \in {"dc2", "dc1-rack"},
      dsca3 \in {"DC1", NoneSet, OthersSet}}

MCRetags == {"DC1", "DC2", NoneSet}

MCSettings ==
  {[ignoredDatastores |-> S, ignoreMissing |-> m, usingPrefixes |-> p] :
     S \in {{}, {"local"}, {"DS2"}}, m \in BOOLEAN, p \in BOOLEAN}
=============================================================================
