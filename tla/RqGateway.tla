----------------------------- MODULE RqGateway ------------------------------
(***************************************************************************)
(* The RaptorQ processing host (src/processing_host/openmc_rq.c): packets  *)
(* taken from NFQUEUE are grouped into blocks, each is sent at once as an  *)
(* ORIG symbol, and a block that is full gets its repair symbols.  The     *)
(* kernel's copy of a packet is dropped in every case.                     *)
(*                                                                         *)
(* One step is one pass of the main loop: refresh the metrics, hand them   *)
(* to the Decision Engine, handle the packet.  wire holds the symbols sent *)
(* on each path and not yet taken from it.                                 *)
(***************************************************************************)
EXTENDS DecisionEngine, Sequences, FiniteSets

CONSTANTS
  MaxBlocks,       \* block slots (1024 in the code)
  IdSpace,         \* block ids before next_block_id wraps (2^16)
  MaxPktLen,       \* longest packet accepted (1500)
  Lengths,         \* lengths of the packets the kernel may queue
  MetricsFeed,     \* loss figures a read of the metrics may return
  RepairEsis,      \* ESIs rq_symbol may draw for a repair
  OpenOutcomes,    \* results of calloc and rq_init for a new block
  EncodeOutcomes,  \* results of rq_encode
  SendOutcomes,    \* results of sendto on a path socket
  MaxIntercepts    \* bound on the packets taken from the queue

ASSUME GatewayAssumption ==
  /\ MaxBlocks \in Nat \ {0}
  /\ IdSpace \in Nat \ {0}
  /\ MaxPktLen \in Nat
  /\ Lengths \subseteq Nat
  /\ MetricsFeed \subseteq Metrics
  /\ RepairEsis \subseteq Nat
  /\ OpenOutcomes \subseteq BOOLEAN
  /\ EncodeOutcomes \subseteq BOOLEAN
  /\ SendOutcomes \subseteq BOOLEAN
  /\ MaxIntercepts \in Nat

VARIABLES
  blocks,    \* blocks[]
  current,   \* slot of current_block, or NoBlock
  nextId,    \* next_block_id
  origin,    \* ghost: blocks opened so far, over all uses of an id
  metrics,   \* g_current_metrics and the engine's copy of it
  rr,        \* parity of rr_counter
  wire,      \* symbols in flight on each path, oldest first
  running,   \* the main loop has not been left
  gwStats,   \* counters
  packets    \* history: the packets put in a block, as <<origin, index>>

gwVars == <<blocks, current, nextId, origin, metrics, rr, wire, running,
            gwStats, packets>>

Slots == 0 .. MaxBlocks - 1
NoBlock == -1

FreeSlot == [inUse |-> FALSE, id |-> 0, origin |-> 0, K |-> 0, T |-> 0,
             num |-> 0, reps |-> 0]
SlotState == [inUse : BOOLEAN, id : Nat, origin : Nat, K : Nat, T : Nat,
              num : Nat, reps : Nat]

GwStats == [intercepted : Nat, forwarded : Nat, original : Nat,
            completed : Nat, overwritten : Nat]

GwInit ==
  /\ blocks = [i \in Slots |-> FreeSlot]
  /\ current = NoBlock
  /\ nextId = 1 % IdSpace
  /\ origin = 0
  /\ metrics = NoMetrics
  /\ rr = 0
  /\ wire = [p \in Ifaces |-> <<>>]
  /\ running = TRUE
  /\ gwStats = [intercepted |-> 0, forwarded |-> 0, original |-> 0,
                completed |-> 0, overwritten |-> 0]
  /\ packets = {}

-----------------------------------------------------------------------------
(* Sending *)

SourceSymbol(b, i) ==
  [origin |-> b.origin, id |-> b.id, k |-> b.K, esi |-> i, src |-> TRUE,
   fits |-> TRUE]
RepairSymbol_noEsi(b, e) == [SourceSymbol(b, 0) EXCEPT !.src = FALSE]
RepairSymbol(b, e) == [SourceSymbol(b, e) EXCEPT !.src = FALSE]

\* What sending symbol s may make of w = [wire, rr, sent]: the engine picks a
\* path, and a symbol whose sendto fails is gone.
SendSymbol(w, s) ==
  {[wire |-> IF ok THEN [w.wire EXCEPT ![p] = Append(@, s)] ELSE w.wire,
    rr   |-> NextRr(metrics', w.rr),
    sent |-> IF ok THEN w.sent + 1 ELSE w.sent] :
     p \in ChooseIface(metrics', w.rr, s.esi), ok \in SendOutcomes}

SendRepairs_oneMore(w, b) ==
  LET After[n \in 0 .. b.reps + 1] ==
        IF n = 0 THEN {w}
        ELSE UNION {SendSymbol(v, RepairSymbol(b, e)) :
                      v \in After[n - 1], e \in RepairEsis}
  IN  After[b.reps + 1]

\* The repair symbols of block b, one rq_symbol and one send after the other.
SendRepairs(w, b) ==
  LET After[n \in 0 .. b.reps] ==
        IF n = 0 THEN {w}
        ELSE UNION {SendSymbol(v, RepairSymbol(b, e)) :
                      v \in After[n - 1], e \in RepairEsis}
  IN  After[b.reps]

\* A block that is not full sends nothing more; rq_encode may fail.
SendTail_early(w, b) == SendRepairs(w, b)
SendTail(w, b) ==
  IF b.num < b.K THEN {w}
  ELSE (IF TRUE \in EncodeOutcomes THEN SendRepairs(w, b) ELSE {})
       \cup (IF FALSE \in EncodeOutcomes THEN {w} ELSE {})

-----------------------------------------------------------------------------
(* Blocks *)

Full(b) == b.num >= b.K

\* A packet of another length closes the current block without FEC.
KeepsCurrent(len) ==
  current # NoBlock /\ ~Full(blocks[current]) /\ blocks[current].T = len

CloseOnLengthChange_leak(len) == blocks
CloseOnLengthChange(len) ==
  IF current # NoBlock /\ ~Full(blocks[current]) /\ blocks[current].T # len
  THEN [blocks EXCEPT ![current] = FreeSlot]
  ELSE blocks

\* alloc_new_block takes the id's slot from whoever has it.
NewSlot == nextId % MaxBlocks
NewBlock(len) ==
  [inUse |-> TRUE, id |-> nextId, origin |-> origin + 1,
   K |-> DecideBlockSize(metrics'), T |-> len, num |-> 0,
   reps |-> DecideRepairs(metrics')]

ConsumeId_noWrap == nextId' = nextId + 1 /\ origin' = origin + 1
ConsumeId ==
  /\ nextId' = (nextId + 1) % IdSpace
  /\ origin' = origin + 1

CountOverwrite(bs) ==
  IF bs[NewSlot].inUse THEN gwStats.overwritten + 1 ELSE gwStats.overwritten

-----------------------------------------------------------------------------
(* handle_ip_packet, one action per way through it *)

RefreshMetrics ==
  metrics' \in MetricsFeed \cup {metrics}

Intercepted(orig, n, done, over) ==
  gwStats' = [intercepted |-> gwStats.intercepted + 1,
              forwarded   |-> gwStats.forwarded + n,
              original    |-> gwStats.original + orig,
              completed   |-> gwStats.completed + done,
              overwritten |-> over]

IgnorePacket(len) ==
  /\ len = 0 \/ len > MaxPktLen
  /\ RefreshMetrics
  /\ Intercepted(0, 0, 0, gwStats.overwritten)
  /\ UNCHANGED <<blocks, current, nextId, origin, rr, wire, packets>>

\* calloc or rq_init fails: the packet is gone and so is the block id.
FailToOpen(len) ==
  /\ len \in 1 .. MaxPktLen
  /\ ~KeepsCurrent(len)
  /\ FALSE \in OpenOutcomes
  /\ RefreshMetrics
  /\ LET bs == CloseOnLengthChange(len)
     IN  /\ blocks' = [bs EXCEPT ![NewSlot] = FreeSlot]
         /\ Intercepted(0, 0, 0, CountOverwrite(bs))
  /\ current' = NoBlock
  /\ ConsumeId
  /\ UNCHANGED <<rr, wire, packets>>

\* Put the packet in block b0 of slot i, send it, and send the repairs and
\* release the block if that filled it.
TakePacket(bs, i, b0, over) ==
  LET b == [b0 EXCEPT !.num = @ + 1]
      w == [wire |-> wire, rr |-> rr, sent |-> 0]
  IN  \E v \in SendSymbol(w, SourceSymbol(b, b0.num)) :
      \E u \in SendTail(v, b) :
        /\ wire' = u.wire
        /\ rr' = u.rr
        /\ packets' = packets \cup {<<b.origin, b0.num>>}
        /\ blocks' = [bs EXCEPT ![i] = IF Full(b) THEN FreeSlot ELSE b]
        /\ current' = IF Full(b) THEN NoBlock ELSE i
        /\ Intercepted(v.sent, u.sent, IF Full(b) THEN 1 ELSE 0, over)

ContinueBlock(len) ==
  /\ len \in 1 .. MaxPktLen
  /\ KeepsCurrent(len)
  /\ RefreshMetrics
  /\ TakePacket(blocks, current, blocks[current], gwStats.overwritten)
  /\ UNCHANGED <<nextId, origin>>

StartBlock(len) ==
  /\ len \in 1 .. MaxPktLen
  /\ ~KeepsCurrent(len)
  /\ TRUE \in OpenOutcomes
  /\ RefreshMetrics
  /\ LET bs == CloseOnLengthChange(len)
     IN  TakePacket(bs, NewSlot, NewBlock(len), CountOverwrite(bs))
  /\ ConsumeId

InterceptPacket(len) ==
  /\ running
  /\ gwStats.intercepted < MaxIntercepts
  /\ \/ IgnorePacket(len)
     \/ FailToOpen(len)
     \/ ContinueBlock(len)
     \/ StartBlock(len)
  /\ UNCHANGED running

\* SIGINT, SIGTERM or a recv error, an overflow of the queue (ENOBUFS) among
\* them, ends the loop.  A block that is not full stays without repairs.
StopGateway ==
  /\ running
  /\ running' = FALSE
  /\ UNCHANGED <<blocks, current, nextId, origin, metrics, rr, wire, gwStats,
                 packets>>

GwNext == StopGateway \/ \E len \in Lengths : InterceptPacket(len)

GwSpec == GwInit /\ [][GwNext]_gwVars
-----------------------------------------------------------------------------
(* Properties *)

GwTypeOK ==
  /\ blocks \in [Slots -> SlotState]
  /\ current \in Slots \cup {NoBlock}
  /\ nextId \in 0 .. IdSpace - 1
  /\ origin \in Nat
  /\ metrics \in Metrics
  /\ rr \in {0, 1}
  /\ \A p \in Ifaces : \A i \in DOMAIN wire[p] :
       wire[p][i].origin \in 1 .. origin /\ wire[p][i].k \in 1 .. BlockSize
  /\ running \in BOOLEAN
  /\ gwStats \in GwStats
  /\ \A p \in packets : p[1] \in 1 .. origin /\ p[2] \in 0 .. BlockSize - 1

\* The table of slots is never more than current_block: closing a block in
\* any way (full, change of length, failed allocation) releases its slot, so
\* alloc_new_block never overwrites an active block, however ids wrap, and
\* the block packets are put into always has room.
OnlyCurrentInUse ==
  /\ \A i \in Slots : blocks[i].inUse <=> i = current
  /\ current # NoBlock => blocks[current].num < blocks[current].K
  /\ gwStats.overwritten = 0

\* On each path blocks leave in order, and within a block the ORIG symbols in
\* order of index, then the repairs: what a receiver that assumes FIFO paths
\* may rely on, across both ways of closing a block.
Precedes(s, t) ==
  \/ s.origin < t.origin
  \/ /\ s.origin = t.origin
     /\ IF t.src THEN s.src /\ s.esi < t.esi ELSE TRUE
WireInOrder ==
  \A p \in Ifaces : \A i, j \in DOMAIN wire[p] :
    i < j => Precedes(wire[p][i], wire[p][j])

\* Repairs protect complete blocks: there is no repair on the wire of a block
\* some of whose packets have yet to come, and none exceeds the number the
\* Decision Engine may ask for.
RepairsOf(o) ==
  LET sent(p) == {i \in DOMAIN wire[p] :
                    ~wire[p][i].src /\ wire[p][i].origin = o}
  IN  UNION {{p} \X sent(p) : p \in Ifaces}
RepairsForFullBlocks ==
  \A o \in 1 .. origin : RepairsOf(o) # {} =>
    /\ current # NoBlock => blocks[current].origin # o
    /\ \A p \in Ifaces : \A i \in DOMAIN wire[p] :
         wire[p][i].origin = o => Cardinality({q \in packets : q[1] = o})
                                    = wire[p][i].k

\* "max_rep=repairs_per_block" (main): a block has at most --repairs repairs.
WithinConfiguredRepairs ==
  \A o \in 1 .. origin : Cardinality(RepairsOf(o)) <= Repairs

=============================================================================
