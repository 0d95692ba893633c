----------------------------- MODULE MCRqSystem -----------------------------
(* Instances of the RaptorQ data path for TLC. *)
EXTENDS RqSystem

Silent == {NoMetrics}
True == {TRUE}
=============================================================================
