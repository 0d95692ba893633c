----------------------------- MODULE MCRqGateway ----------------------------
(* Instances of the RaptorQ gateway for TLC. *)
EXTENDS RqGateway

\* No reading, and one average loss for each interval between the thresholds
\* of the quality policy; either path is the better one.
Feed == {[lossA |-> l[1], lossB |-> l[2]] :
           l \in {<<0, 0>>, <<30, 0>>, <<0, 300>>, <<200, 300>>}}
True == {TRUE}
=============================================================================
