----------------------------- MODULE MCLfuRing -----------------------------
(***************************************************************************)
(* Instances of LfuRing for model checking.                                *)
(***************************************************************************)
EXTENDS LfuRing

Unfiltered == {}

=============================================================================
