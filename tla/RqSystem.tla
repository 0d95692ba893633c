------------------------------ MODULE RqSystem ------------------------------
(***************************************************************************)
(* The RaptorQ data path: the gateway, the two external paths and the edge *)
(* receiver.  The paths are FIFO queues (wire of RqGateway) from which the *)
(* oldest symbol is handed to the receiver, lost, or handed over and left  *)
(* in place (duplicated).  Loss also stands for a socket buffer that       *)
(* overflows.  A path may be arbitrarily slower than the other.            *)
(*                                                                         *)
(* The receiver reads path A and then path B in each round of select, one  *)
(* datagram each; as datagrams become available at any time, any           *)
(* interleaving of the two paths may result.                               *)
(***************************************************************************)
EXTENDS RqGateway

CONSTANTS
  RxBlockSize,     \* --block-size of the receiver
  MaxSyms,         \* symbols the receiver keeps per block
  RxSendOutcomes, DecodeOutcomes, InitOutcomes,  \* as in RqReceiver
  MaxLosses,       \* bound on the symbols lost
  MaxDups          \* bound on the symbols duplicated

ASSUME SystemAssumption ==
  /\ RxBlockSize \in Nat \ {0}
  /\ MaxSyms \in Nat /\ RxBlockSize <= MaxSyms
  /\ RxSendOutcomes \subseteq BOOLEAN
  /\ DecodeOutcomes \subseteq BOOLEAN
  /\ InitOutcomes \subseteq BOOLEAN
  /\ MaxLosses \in Nat /\ MaxDups \in Nat

VARIABLES slots, completed, stats, copies, garbled, arrived,  \* RqReceiver's
          losses, dups

rxVars == <<slots, completed, stats, copies, garbled, arrived>>
sysVars == <<gwVars, rxVars, losses, dups>>

AllSymbols ==
  [origin : 1 .. MaxIntercepts, id : 0 .. IdSpace - 1, k : {BlockSize},
   esi : 0 .. BlockSize - 1, src : {TRUE}, fits : {TRUE}]
  \cup
  [origin : 1 .. MaxIntercepts, id : 0 .. IdSpace - 1, k : {BlockSize},
   esi : RepairEsis, src : {FALSE}, fits : {TRUE}]

Rx == INSTANCE RqReceiver WITH
        Symbols <- AllSymbols, BlockSize <- RxBlockSize,
        Duplication <- MaxDups > 0, SendOutcomes <- RxSendOutcomes,
        MaxArrivals <- MaxIntercepts

SysInit == GwInit /\ Rx!Init /\ losses = 0 /\ dups = 0

GatewayStep == GwNext /\ UNCHANGED <<rxVars, losses, dups>>

TakeHead(p) == wire' = [wire EXCEPT ![p] = Tail(@)]
GatewayIdle == UNCHANGED <<blocks, current, nextId, origin, metrics, rr,
                           running, gwStats, packets>>

Deliver(p) ==
  /\ wire[p] # <<>>
  /\ Rx!HandleRqSymbol(Head(wire[p]))
  /\ TakeHead(p)
  /\ GatewayIdle /\ UNCHANGED <<losses, dups>>

Duplicate(p) ==
  /\ wire[p] # <<>>
  /\ dups < MaxDups
  /\ Rx!HandleRqSymbol(Head(wire[p]))
  /\ dups' = dups + 1
  /\ UNCHANGED <<wire, losses>> /\ GatewayIdle

Lose(p) ==
  /\ wire[p] # <<>>
  /\ losses < MaxLosses
  /\ TakeHead(p)
  /\ losses' = losses + 1
  /\ GatewayIdle /\ UNCHANGED <<rxVars, dups>>

SysNext ==
  \/ GatewayStep
  \/ \E p \in Ifaces : Deliver(p)
  \/ \E p \in Ifaces : Duplicate(p)
  \/ \E p \in Ifaces : Lose(p)

\* The paths forward what they do not lose and the receiver reads both
\* sockets in every round of select.  Nothing obliges the network to lose or
\* duplicate, or the application to send.
SysSpec == SysInit /\ [][SysNext]_sysVars
FairSpec == SysSpec /\ \A p \in Ifaces : WF_sysVars(Deliver(p))

-----------------------------------------------------------------------------
(* Properties *)

\* "For every ORIG received, forwards the original IP packet immediately"
\* (edge_receiver_rq.c): a packet whose ORIG symbol arrived has been delivered,
\* then or before.
OriginalsReach ==
  \A s \in arrived : s.src => copies[<<s.origin, s.esi>>] >= 1

\* A block of which K different symbols arrived has been delivered in full,
\* whichever paths they took and whatever arrived of other blocks meanwhile.
ArrivedOf(o) == {s \in arrived : s.origin = o}
EnoughArrivedDelivers ==
  \A o \in 1 .. MaxIntercepts :
    Cardinality(ArrivedOf(o)) >= BlockSize =>
      \A i \in 0 .. BlockSize - 1 : copies[<<o, i>>] >= 1

\* The data path implements PacketDelivery: no packet is handed to the
\* destination twice although it may arrive as an ORIG symbol on one path and
\* be decoded from symbols of the other, and nothing else is handed to it.
PD == INSTANCE PacketDelivery WITH
        Packets <- Rx!Packets, offered <- packets, foreign <- garbled
ImplementsDelivery == PD!PdSpec

\* If no more symbols are lost than a block has repairs, every packet of every
\* block that got its repairs is eventually delivered.
Protected(o) == \E s \in arrived \cup UNION {{wire[p][i] : i \in DOMAIN wire[p]}
                                              : p \in Ifaces} :
                  s.origin = o /\ ~s.src
ProtectedIsDelivered ==
  \A o \in 1 .. MaxIntercepts :
    Protected(o) ~> \A i \in 0 .. BlockSize - 1 : copies[<<o, i>>] >= 1
=============================================================================
