----------------------------- MODULE MCRsSystem -----------------------------
(* Instances of the Reed-Solomon data path for TLC. *)
EXTENDS RsSystem

True == {TRUE}
=============================================================================
