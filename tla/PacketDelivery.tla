--------------------------- MODULE PacketDelivery ---------------------------
(***************************************************************************)
(* What OpenMC promises the destination application, without codes, paths  *)
(* or blocks: packets are offered once, and each offered packet is         *)
(* delivered at most once, in any order, possibly several at a time.       *)
(* Nothing else is delivered.  (External view of the data path: gateway,   *)
(* paths and edge receiver taken together.)                                *)
(***************************************************************************)
EXTENDS Naturals

CONSTANT Packets   \* the packets that may be offered

VARIABLES offered,    \* the packets the gateway has taken over
          copies,     \* how often each packet has been delivered
          foreign     \* something that is no offered packet was delivered

pdVars == <<offered, copies, foreign>>

PdInit ==
  /\ offered = {}
  /\ copies = [p \in Packets |-> 0]
  /\ foreign = FALSE

Offer(p) ==
  /\ p \notin offered
  /\ offered' = offered \cup {p}
  /\ UNCHANGED <<copies, foreign>>

Deliver(S) ==
  /\ \A p \in S : p \in offered /\ copies[p] = 0
  /\ copies' = [p \in Packets |-> IF p \in S THEN 1 ELSE copies[p]]
  /\ UNCHANGED <<offered, foreign>>

PdNext == \/ \E p \in Packets : Offer(p)
          \/ \E S \in SUBSET Packets : Deliver(S)

PdSpec == PdInit /\ [][PdNext]_pdVars
=============================================================================
