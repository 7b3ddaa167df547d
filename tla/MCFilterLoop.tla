---------------------------- MODULE MCFilterLoop ----------------------------
(* The loop of one stage with up to four keywords. *)
EXTENDS FilterLoop
MCReasons == {"acknowledged", "status"}
=============================================================================
