----------------------------- MODULE RsGateway ------------------------------
(***************************************************************************)
(* The Reed-Solomon processing host (src/processing_host/openmc_rs.c).     *)
(* Packets of one length form generations of K; each is sent at once as a  *)
(* data fragment, and a generation that is full is followed by its parity  *)
(* fragments.  Fragments alternate between the paths by index.             *)
(*                                                                         *)
(* One step is one pass of the main loop, which takes one packet from the  *)
(* queue and then flushes the generation that packet completed.  So        *)
(* pending_gen is empty between the steps and is not part of the state.    *)
(***************************************************************************)
EXTENDS Integers, Sequences, FiniteSets

CONSTANTS
  K,             \* K_DATA, packets per generation (8)
  Repairs,       \* --repairs, parity fragments per generation (0..32)
  IdSpace,       \* generation ids before they wrap (2^16)
  MaxPktLen,     \* longest packet accepted (1500)
  Lengths,       \* lengths of the packets the kernel may queue
  SendOutcomes,  \* results of sendto on a path socket
  MaxIntercepts  \* bound on the packets taken from the queue

ASSUME RsGatewayAssumption ==
  /\ K \in Nat \ {0}
  /\ Repairs \in Nat
  /\ IdSpace \in Nat \ {0}
  /\ MaxPktLen \in Nat
  /\ Lengths \subseteq Nat
  /\ SendOutcomes \subseteq BOOLEAN
  /\ MaxIntercepts \in Nat

VARIABLES
  cur,      \* cur_gen; origin is a ghost, the number of generations begun
  wire,     \* fragments in flight on each path, oldest first
  running,  \* the main loop has not been left
  gwStats,  \* counters
  packets   \* history: the packets put in a generation, as <<origin, index>>

gwVars == <<cur, wire, running, gwStats, packets>>

Ifaces == {"A", "B"}
Generation == [id : Nat, origin : Nat, count : Nat, len : Nat]
GwStats == [intercepted : Nat, forwarded : Nat, original : Nat,
            completed : Nat]

GwInit ==
  /\ cur = [id |-> 0, origin |-> 0, count |-> 0, len |-> 0]
  /\ wire = [p \in Ifaces |-> <<>>]
  /\ running = TRUE
  /\ gwStats = [intercepted |-> 0, forwarded |-> 0, original |-> 0,
                completed |-> 0]
  /\ packets = {}

-----------------------------------------------------------------------------
DataFragment(g, i) ==
  [origin |-> g.origin, id |-> g.id, len |-> g.len, index |-> i,
   type |-> "data", fits |-> TRUE]
ParityFragment(g, p) ==
  [DataFragment(g, K + p) EXCEPT !.type = "parity"]

\* send_fragment: even indices on path A, odd ones on B; parities count anew.
PathOf(f) ==
  LET n == IF f.type = "data" THEN f.index ELSE f.index - K
  IN  IF n % 2 = 1 THEN "B" ELSE "A"

\* The sets of fragments of S that may get out when each is sent once.
SendSets(S) ==
  {sent \in SUBSET S : /\ sent # S => FALSE \in SendOutcomes
                       /\ sent # {} => TRUE \in SendOutcomes}

\* A packet begins a generation if there is none, or one of another length,
\* whose packets then remain without parity.
BeginsGeneration(len) == cur.count = 0 \/ len # cur.len \/ cur.count >= K

NextId_kept(len) == cur.id
NextId(len) == (cur.id + 1) % IdSpace

GenerationFor(len) ==
  IF BeginsGeneration(len)
  THEN [id |-> NextId(len), origin |-> cur.origin + 1, count |-> 0,
        len |-> len]
  ELSE cur

\* The fragments a packet put in g at index i gives rise to, in order: its own
\* and, if it is the last one of the generation, the parities.
Emitted_parityFirst(g, i) ==
  (IF i = 0 THEN [p \in 1 .. Repairs |-> ParityFragment(g, p - 1)] ELSE <<>>)
    \o <<DataFragment(g, i)>>
Emitted(g, i) ==
  <<DataFragment(g, i)>> \o
    (IF i + 1 = K THEN [p \in 1 .. Repairs |-> ParityFragment(g, p - 1)]
                  ELSE <<>>)

\* send_fragment for each of frs in turn; the fragments of sent get out.
Send(ws, f, sent) ==
  IF f \in sent THEN [ws EXCEPT ![PathOf(f)] = Append(@, f)] ELSE ws
SendEach(frs, sent) ==
  LET After[n \in 0 .. Len(frs)] ==
        IF n = 0 THEN wire ELSE Send(After[n - 1], frs[n], sent)
  IN  After[Len(frs)]

\* The hand-over to pending_gen empties cur_gen, the id apart.
AfterPacket_notReset(g) == [g EXCEPT !.count = @ + 1]
AfterPacket(g) ==
  IF g.count + 1 = K THEN [g EXCEPT !.count = 0, !.len = 0]
                     ELSE [g EXCEPT !.count = @ + 1]

IgnorePacket(len) ==
  /\ len = 0 \/ len > MaxPktLen
  /\ gwStats' = [gwStats EXCEPT !.intercepted = @ + 1]
  /\ UNCHANGED <<cur, wire, packets>>

TakePacket(len) ==
  /\ len \in 1 .. MaxPktLen
  /\ LET g    == GenerationFor(len)
         i    == g.count
         frs  == Emitted(g, i)
     IN  \E sent \in SendSets({frs[n] : n \in DOMAIN frs}) :
           /\ wire' = SendEach(frs, sent)
           /\ cur' = AfterPacket(g)
           /\ packets' = packets \cup {<<g.origin, i>>}
           /\ gwStats' =
                [intercepted |-> gwStats.intercepted + 1,
                 forwarded |-> gwStats.forwarded + Cardinality(sent),
                 original |-> gwStats.original +
                     (IF DataFragment(g, i) \in sent THEN 1 ELSE 0),
                 completed |-> gwStats.completed + IF i + 1 = K THEN 1 ELSE 0]

InterceptPacket(len) ==
  /\ running
  /\ gwStats.intercepted < MaxIntercepts
  /\ IgnorePacket(len) \/ TakePacket(len)
  /\ UNCHANGED running

\* A signal or a recv error ends the loop; a generation that is not full
\* stays without parity.
StopGateway ==
  /\ running
  /\ running' = FALSE
  /\ UNCHANGED <<cur, wire, gwStats, packets>>

GwNext == StopGateway \/ \E len \in Lengths : InterceptPacket(len)

GwSpec == GwInit /\ [][GwNext]_gwVars
-----------------------------------------------------------------------------
(* Properties *)

\* The generation that takes packets always has room, so the branch of
\* handle_ip_packet that forces a flush on overflow is never taken, and a
\* generation counts as completed exactly if it got K packets.
RoomInGeneration ==
  /\ cur.count < K
  /\ gwStats.completed =
       Cardinality({o \in 1 .. cur.origin : <<o, K - 1>> \in packets})

\* On each path the fragments keep the order of generations and, in a
\* generation, of indices, none is there twice, and parities are computed of
\* full generations only, also when lengths change from packet to packet.
FragmentsInOrder ==
  \A p \in Ifaces :
    /\ \A n \in DOMAIN wire[p] : \A m \in 1 .. n - 1 :
         LET f == wire[p][m]
             h == wire[p][n]
         IN  f.origin < h.origin \/ (f.origin = h.origin /\ f.index < h.index)
    /\ \A n \in DOMAIN wire[p] : wire[p][n].type = "parity" =>
         {wire[p][n].origin} \X (0 .. K - 1) \subseteq packets
=============================================================================
