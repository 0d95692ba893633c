--------------------------- MODULE MCApplication ---------------------------
(* Instances of the application for TLC. *)
EXTENDS Application

Old(q) == [run |-> "old", seq |-> q]
OldTail == {Old(0), Runt}
AllOrHalf == {Sources, {"voluntary"}}

\* A reduction.  The server reads nothing of the generator's but net, where
\* a datagram may stay for any time: every order of deliveries, stops and
\* time-outs remains when the server runs after the generator has ended.
GeneratorFirst == tgPc = "done" \/ ~UNCHANGED tgVars
=============================================================================
