---------------------------- MODULE MCRqReceiver ----------------------------
(* Instances of the RaptorQ receiver for TLC. *)
EXTENDS RqReceiver

\* The symbols of gateway block o sent under id: K originals, R repairs.
BlockSymbols(o, id, K, R) ==
  {[origin |-> o, id |-> id, k |-> K, esi |-> e, src |-> e < K, fits |-> TRUE] :
     e \in 0 .. K + R - 1}

\* Blocks 1 and 3 share a slot of a table of two, block 2 has the other.
ThreeBlocks == UNION {BlockSymbols(o, o, 2, 1) : o \in 1 .. 3}

\* Block 1 has a repair.  Block 2 is longer than the receiver's block size
\* and one of its datagrams is truncated.
TwoBlocks ==
  BlockSymbols(1, 1, 2, 1) \cup BlockSymbols(2, 2, 3, 0) \cup
  {[origin |-> 2, id |-> 2, k |-> 3, esi |-> 0, src |-> TRUE, fits |-> FALSE]}

True == {TRUE}
=============================================================================
