------------------------------ MODULE MCLfuKmdt ------------------------------
(* A two-slot ring, three objects, batches of two, no filter or any one;    *)
(* lfind with and without a limit at the reading end.                      *)
EXTENDS LfuKmdt
=============================================================================
