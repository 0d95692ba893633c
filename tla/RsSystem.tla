------------------------------ MODULE RsSystem ------------------------------
(***************************************************************************)
(* The Reed-Solomon data path: gateway, the two paths and edge receiver.   *)
(* As in RqSystem the oldest fragment of a path is delivered, lost, or     *)
(* delivered and left in place.  The receiver reads one datagram per round *)
(* of select, from path A if it has one; a path may be arbitrarily slow,   *)
(* so any interleaving of the two may result.                              *)
(***************************************************************************)
EXTENDS RsGateway

CONSTANTS
  MaxGens,         \* slots of the receiver
  RxSendOutcomes,  \* results of sendto on the receiver's raw socket
  MaxLosses,       \* bound on the fragments lost
  MaxDups          \* bound on the fragments duplicated

ASSUME RsSystemAssumption ==
  /\ MaxGens \in Nat \ {0}
  /\ RxSendOutcomes \subseteq BOOLEAN
  /\ MaxLosses \in Nat /\ MaxDups \in Nat

VARIABLES gens, stats, copies, garbled, arrived,  \* RsReceiver's
          losses, dups

rxVars == <<gens, stats, copies, garbled, arrived>>
sysVars == <<gwVars, rxVars, losses, dups>>

AllFragments ==
  [origin : 1 .. MaxIntercepts, id : 0 .. IdSpace - 1,
   len : Lengths \cap 1 .. MaxPktLen, index : 0 .. K + Repairs - 1,
   type : {"data", "parity"}, fits : {TRUE}]

Rx == INSTANCE RsReceiver WITH
        Origins <- 1 .. MaxIntercepts, Fragments <- AllFragments,
        SendOutcomes <- RxSendOutcomes,
        MaxArrivals <- MaxIntercepts * (K + Repairs) + MaxDups

SysInit == GwInit /\ Rx!RsInit /\ losses = 0 /\ dups = 0

GatewayStep == GwNext /\ UNCHANGED <<rxVars, losses, dups>>

TakeHead(p) == wire' = [wire EXCEPT ![p] = Tail(@)]
GatewayIdle == UNCHANGED <<cur, running, gwStats, packets>>

Deliver(p) ==
  /\ wire[p] # <<>>
  /\ Rx!HandleFragment(Head(wire[p]))
  /\ TakeHead(p)
  /\ GatewayIdle /\ UNCHANGED <<losses, dups>>

Duplicate(p) ==
  /\ wire[p] # <<>>
  /\ dups < MaxDups
  /\ Rx!HandleFragment(Head(wire[p]))
  /\ dups' = dups + 1
  /\ UNCHANGED <<wire, losses>> /\ GatewayIdle

Lose(p) ==
  /\ wire[p] # <<>>
  /\ losses < MaxLosses
  /\ TakeHead(p)
  /\ losses' = losses + 1
  /\ GatewayIdle /\ UNCHANGED <<rxVars, dups>>

SysNext ==
  \/ GatewayStep
  \/ \E p \in Ifaces : Deliver(p)
  \/ \E p \in Ifaces : Duplicate(p)
  \/ \E p \in Ifaces : Lose(p)

\* A path forwards what it does not lose, and the receiver reads path A
\* whenever there is a fragment and path B whenever A is empty, which it is in
\* the end, as the application sends finitely much in these instances.
SysSpec == SysInit /\ [][SysNext]_sysVars
FairSpec == SysSpec /\ \A p \in Ifaces : WF_sysVars(Deliver(p))

-----------------------------------------------------------------------------
(* Properties *)

\* Duplicates and losses notwithstanding, every packet is handed to the
\* destination at most once and nothing else is.  This takes as many parities
\* as packets in a generation and fewer generations than slots.
PD == INSTANCE PacketDelivery WITH
        Packets <- Rx!Packets, offered <- packets, foreign <- garbled
ImplementsDelivery == PD!PdSpec

\* "For every data fragment received, forwards the original IP packet
\* immediately" (header of edge_receiver_rs.c): a packet whose data fragment
\* arrived has been delivered, then or before.
DataReaches ==
  \A f \in arrived : f.type = "data" => copies[<<f.origin, f.index>>] >= 1

\* With at most one loss and no failing call every packet of a full generation
\* is delivered in the end: a lost parity is not needed, and for a lost packet
\* there are all parities.  Both sides stay true once they are, so "again and
\* again" means that each full generation is followed by its delivery.
IsFull(o) == <<o, K - 1>> \in packets
IsDelivered(o) == \A i \in 0 .. K - 1 : copies[<<o, i>>] >= 1
FullIsDelivered ==
  []<>(\A o \in 1 .. cur.origin : IsFull(o) => IsDelivered(o))
=============================================================================
