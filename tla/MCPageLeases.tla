------------------------------ MODULE MCPageLeases ------------------------------
(* Small instances of PageLeases. *)
EXTENDS PageLeases
CONSTANTS c1, c2, r1, t1, t2
=============================================================================
