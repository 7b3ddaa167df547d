------------------------- MODULE MCHardwareVersions -------------------------
(***************************************************************************)
(* Versions on both sides of the step from one digit to two.               *)
(***************************************************************************)
EXTENDS HardwareVersions

CONSTANTS v1, v2, c1, c2, h1

Plain == [mode |-> "homogeneous", min |-> -1, warn |-> -1, crit |-> -1, host |-> None, cluster |-> None]

MCSettings == {Plain, [Plain EXCEPT !.cluster = c1], [Plain EXCEPT !.host = h1],
               [Plain EXCEPT !.mode = "minimum", !.min = 13],
               [Plain EXCEPT !.mode = "default", !.cluster = c1],
               [Plain EXCEPT !.mode = "default", !.host = h1],
               [Plain EXCEPT !.mode = "outdated", !.warn = 1, !.crit = 3]}
=============================================================================
