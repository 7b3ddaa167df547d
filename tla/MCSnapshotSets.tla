--------------------------- MODULE MCSnapshotSets ---------------------------
(***************************************************************************)
(* Sizes in halves of a GB: a base counts for more than all the rest.      *)
(***************************************************************************)
EXTENDS SnapshotSets, TLC

CONSTANTS v1, v2

Symmetry == Permutations(Snaps)

MCMaxOps == [v \in VMs |-> IF v = v1 THEN 5 ELSE 1]

MCRank == [v \in VMs |-> IF v = v1 THEN 1 ELSE 2]

MCSizeOf == [k \in Files \cup Snaps |-> IF k \in Snaps THEN 1 ELSE IF k[2] = 0 THEN 9 ELSE 1]
=============================================================================
