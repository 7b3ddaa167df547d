---------------------------- MODULE MCThresholds ----------------------------
(***************************************************************************)
(* Two nested pools and one beside them; amounts below, at and above both  *)
(* thresholds.                                                             *)
(***************************************************************************)
EXTENDS Thresholds, TLC

CONSTANTS p1, p2, p3

Symmetry == Permutations(VMs)

MCWithin == [c \in Containers |-> IF c = p1 THEN {p1, p2} ELSE {c}]
=============================================================================
