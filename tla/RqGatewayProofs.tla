--------------------------- MODULE RqGatewayProofs --------------------------
(***************************************************************************)
(* Theorems about the RaptorQ gateway and its Decision Engine, for every   *)
(* policy, table size, id space and packet length.                         *)
(***************************************************************************)
EXTENDS RqGateway, FiniteSetTheorems, WellFoundedInduction, TLAPS

-----------------------------------------------------------------------------
(* The Decision Engine *)

\* The block length never adapts: "quality" and "adaptive" ask for twice the
\* configured length on a calm network, and the guardrail of handle_ip_packet
\* turns that into the configured length for every loss figure.
THEOREM BlockSizeNeverAdapts == \A m \in Metrics : DecideBlockSize(m) = BlockSize
<1> SUFFICES ASSUME NEW m \in Metrics
             PROVE  DecideBlockSize(m) = BlockSize
  OBVIOUS
<1>1. AskedBlockSize(m) = BlockSize \/ AskedBlockSize(m) = 2 * BlockSize
  BY PolicyAssumption
  DEF AskedBlockSize, DefaultBlockSize, QualityBlockSize, AdaptiveBlockSize,
      Policies
<1>2. 2 * BlockSize \notin 1 .. BlockSize
  BY EngineSizesAssumption
<1> QED  BY <1>1, <1>2 DEF DecideBlockSize

LEMMA RepairBounds ==
  /\ MinRepairs \in Nat /\ MaxRepairs \in Nat \ {0}
  /\ Repairs > 0 => MaxRepairs = Repairs
  /\ Policy = "adaptive" => MinRepairs = 1
  BY PolicyAssumption, EngineSizesAssumption DEF MinRepairs, MaxRepairs, Policies

LEMMA DecideRepairsType == \A m \in Metrics : DecideRepairs(m) \in Nat
<1> SUFFICES ASSUME NEW m \in Metrics
             PROVE  DecideRepairs(m) \in Nat
  OBVIOUS
<1>1. /\ MinRepairs \in Nat /\ MaxRepairs \in Nat
      /\ (MinRepairs + MaxRepairs) \div 2 \in Nat
      /\ (MaxRepairs + MinRepairs) \div 2 \in Nat
  BY RepairBounds
<1>2. QualityRepairs(m) \in Nat
  BY <1>1 DEF QualityRepairs
<1>3. AdaptiveRepairs(m) \in Nat
  BY <1>1 DEF AdaptiveRepairs
<1>4. CASE Policy = "default"
  BY <1>4, EngineSizesAssumption DEF DecideRepairs
<1>5. CASE Policy = "quality"
  BY <1>2, <1>5 DEF DecideRepairs
<1>6. CASE Policy = "adaptive"
  BY <1>3, <1>6 DEF DecideRepairs
<1> QED  BY <1>4, <1>5, <1>6, PolicyAssumption DEF Policies

\* More loss never means fewer repairs under "adaptive", and never more than
\* --repairs when that is positive.
THEOREM AdaptiveMonotone ==
  ASSUME NEW m \in Metrics, NEW n \in Metrics,
         Policy = "adaptive", TwiceAverage(m) <= TwiceAverage(n)
  PROVE  /\ AdaptiveRepairs(m) <= AdaptiveRepairs(n)
         /\ Repairs > 0 => AdaptiveRepairs(n) <= Repairs
<1>1. /\ MinRepairs = 1 /\ MaxRepairs \in Nat \ {0}
      /\ Repairs > 0 => MaxRepairs = Repairs
  BY RepairBounds
<1>2. ~(MaxRepairs < MinRepairs)
  BY <1>1
<1> DEFINE mid == (MinRepairs + MaxRepairs) \div 2
<1>3. mid \in Nat /\ MinRepairs <= mid /\ mid <= MaxRepairs
  BY <1>1
<1>4. \A l \in Metrics :
        AdaptiveRepairs(l) = IF TwiceAverage(l) <= 20 THEN MinRepairs
                             ELSE IF TwiceAverage(l) <= 200 THEN mid
                             ELSE MaxRepairs
  BY <1>2 DEF AdaptiveRepairs
<1>5. TwiceAverage(m) \in Nat /\ TwiceAverage(n) \in Nat
  BY DEF TwiceAverage, Metrics
<1> HIDE DEF mid
<1> QED  BY <1>1, <1>3, <1>4, <1>5

-----------------------------------------------------------------------------
(* The table of slots *)

\* OnlyCurrentInUse with the types it needs.
SlotsInv ==
  /\ blocks \in [Slots -> SlotState]
  /\ current \in Slots \cup {NoBlock}
  /\ nextId \in Nat
  /\ origin \in Nat
  /\ metrics \in Metrics
  /\ OnlyCurrentInUse

LEMMA FreeSlotType == FreeSlot \in SlotState
  BY DEF FreeSlot, SlotState

LEMMA NewSlotType == nextId \in Nat => NewSlot \in Slots
  BY GatewayAssumption DEF NewSlot, Slots

LEMMA NoBlockIsNoSlot == NoBlock \notin Slots
  BY DEF NoBlock, Slots

LEMMA MetricsType == metrics \in Metrics /\ RefreshMetrics => metrics' \in Metrics
  BY GatewayAssumption DEF RefreshMetrics

LEMMA NewBlockType ==
  ASSUME nextId \in Nat, origin \in Nat, metrics' \in Metrics, NEW len \in Nat
  PROVE  /\ NewBlock(len) \in SlotState
         /\ NewBlock(len).inUse
         /\ NewBlock(len).num = 0
         /\ NewBlock(len).K \in Nat \ {0}
<1>1. DecideBlockSize(metrics') \in Nat \ {0} /\ DecideRepairs(metrics') \in Nat
  BY BlockSizeNeverAdapts, DecideRepairsType, EngineSizesAssumption
<1> QED  BY <1>1 DEF NewBlock, SlotState

\* When a block is needed, closing what the length requires leaves no slot in
\* use: the current block is never full between packets.
LEMMA NothingInUseAfterClose ==
  ASSUME SlotsInv, NEW len \in Nat, ~KeepsCurrent(len)
  PROVE  /\ CloseOnLengthChange(len) \in [Slots -> SlotState]
         /\ \A i \in Slots : ~CloseOnLengthChange(len)[i].inUse
<1>1. CASE current = NoBlock
  BY <1>1, NoBlockIsNoSlot DEF CloseOnLengthChange, SlotsInv, OnlyCurrentInUse
<1>2. CASE current # NoBlock
  <2>1. current \in Slots /\ ~Full(blocks[current])
    BY <1>2 DEF SlotsInv, OnlyCurrentInUse, Full, SlotState
  <2>2. CloseOnLengthChange(len) = [blocks EXCEPT ![current] = FreeSlot]
    BY <1>2, <2>1 DEF CloseOnLengthChange, KeepsCurrent
  <2> QED
    BY <2>1, <2>2, FreeSlotType DEF SlotsInv, OnlyCurrentInUse, FreeSlot
<1> QED  BY <1>1, <1>2

\* Putting a packet in the only slot in use, which has room, leaves that slot
\* the only one in use and with room, or none.
LEMMA TakePacketKeeps ==
  ASSUME NEW bs \in [Slots -> SlotState], NEW i \in Slots,
         NEW b0 \in SlotState, b0.inUse, b0.num < b0.K,
         \A j \in Slots \ {i} : ~bs[j].inUse,
         TakePacket(bs, i, b0, 0)
  PROVE  /\ blocks' \in [Slots -> SlotState]
         /\ current' \in Slots \cup {NoBlock}
         /\ OnlyCurrentInUse'
<1> DEFINE b == [b0 EXCEPT !.num = @ + 1]
<1>1. /\ b \in SlotState
      /\ b.inUse /\ b.K = b0.K /\ b.num = b0.num + 1
  BY DEF SlotState
<1>2. /\ blocks' = [bs EXCEPT ![i] = IF Full(b) THEN FreeSlot ELSE b]
      /\ current' = IF Full(b) THEN NoBlock ELSE i
      /\ gwStats'.overwritten = 0
  BY DEF TakePacket, Intercepted
<1>3. b.K \in Nat /\ b.num \in Nat /\ (Full(b) <=> ~(b.num < b.K))
  BY <1>1 DEF SlotState, Full
<1> HIDE DEF b
<1>4. CASE Full(b)
  <2>1. blocks' = [bs EXCEPT ![i] = FreeSlot] /\ current' = NoBlock
    BY <1>2, <1>4
  <2>2. \A j \in Slots : ~blocks'[j].inUse
    BY <2>1 DEF FreeSlot
  <2> QED
    BY <1>2, <2>1, <2>2, FreeSlotType, NoBlockIsNoSlot DEF OnlyCurrentInUse
<1>5. CASE ~Full(b)
  <2>1. blocks' = [bs EXCEPT ![i] = b] /\ current' = i
    BY <1>2, <1>5
  <2>2. \A j \in Slots : blocks'[j].inUse <=> j = i
    BY <1>1, <2>1
  <2>3. blocks'[i].num < blocks'[i].K
    BY <1>3, <1>5, <2>1
  <2> QED
    BY <1>1, <1>2, <2>1, <2>2, <2>3 DEF OnlyCurrentInUse
<1> QED  BY <1>4, <1>5

LEMMA ConsumeIdType ==
  nextId \in Nat /\ origin \in Nat /\ ConsumeId => nextId' \in Nat /\ origin' \in Nat
  BY GatewayAssumption DEF ConsumeId

LEMMA ContinueBlockKeeps ==
  ASSUME SlotsInv, NEW len \in Nat, ContinueBlock(len)
  PROVE  SlotsInv'
<1>1. /\ current \in Slots
      /\ blocks \in [Slots -> SlotState]
      /\ blocks[current] \in SlotState
      /\ blocks[current].inUse
      /\ blocks[current].num < blocks[current].K
      /\ \A j \in Slots \ {current} : ~blocks[j].inUse
      /\ gwStats.overwritten = 0
  BY DEF SlotsInv, OnlyCurrentInUse, ContinueBlock, KeepsCurrent
<1>2. TakePacket(blocks, current, blocks[current], 0)
  BY <1>1 DEF ContinueBlock
<1>3. /\ blocks' \in [Slots -> SlotState]
      /\ current' \in Slots \cup {NoBlock}
      /\ OnlyCurrentInUse'
  BY <1>1, <1>2, TakePacketKeeps
<1>4. metrics' \in Metrics
  BY MetricsType DEF SlotsInv, ContinueBlock
<1>5. nextId' \in Nat /\ origin' \in Nat
  BY DEF SlotsInv, ContinueBlock
<1> QED  BY <1>3, <1>4, <1>5 DEF SlotsInv

LEMMA StartBlockKeeps ==
  ASSUME SlotsInv, NEW len \in Nat, StartBlock(len)
  PROVE  SlotsInv'
<1> DEFINE bs == CloseOnLengthChange(len)
<1>1. /\ bs \in [Slots -> SlotState]
      /\ \A j \in Slots : ~bs[j].inUse
  BY NothingInUseAfterClose DEF StartBlock
<1>2. nextId \in Nat /\ origin \in Nat /\ NewSlot \in Slots
      /\ gwStats.overwritten = 0
  BY NewSlotType DEF SlotsInv, OnlyCurrentInUse
<1>3. metrics' \in Metrics
  BY MetricsType DEF SlotsInv, StartBlock
<1>4. /\ NewBlock(len) \in SlotState
      /\ NewBlock(len).inUse
      /\ NewBlock(len).num < NewBlock(len).K
  BY <1>2, <1>3, NewBlockType
<1>5. CountOverwrite(bs) = 0
  BY <1>1, <1>2 DEF CountOverwrite
<1>6. TakePacket(bs, NewSlot, NewBlock(len), 0)
  BY <1>5 DEF StartBlock
<1> HIDE DEF bs
<1>7. /\ blocks' \in [Slots -> SlotState]
      /\ current' \in Slots \cup {NoBlock}
      /\ OnlyCurrentInUse'
  BY <1>1, <1>2, <1>4, <1>6, TakePacketKeeps
<1>8. nextId' \in Nat /\ origin' \in Nat
  BY <1>2, ConsumeIdType DEF StartBlock
<1> QED  BY <1>3, <1>7, <1>8 DEF SlotsInv

LEMMA FailToOpenKeeps ==
  ASSUME SlotsInv, NEW len \in Nat, FailToOpen(len)
  PROVE  SlotsInv'
<1> DEFINE bs == CloseOnLengthChange(len)
<1>1. /\ bs \in [Slots -> SlotState]
      /\ \A j \in Slots : ~bs[j].inUse
  BY NothingInUseAfterClose DEF FailToOpen
<1>2. nextId \in Nat /\ origin \in Nat /\ NewSlot \in Slots
      /\ gwStats.overwritten = 0
  BY NewSlotType DEF SlotsInv, OnlyCurrentInUse
<1>3. gwStats'.overwritten = 0
  BY <1>1, <1>2 DEF FailToOpen, Intercepted, CountOverwrite
<1>4. blocks' = [bs EXCEPT ![NewSlot] = FreeSlot] /\ current' = NoBlock
  BY DEF FailToOpen
<1> HIDE DEF bs
<1>5. /\ blocks' \in [Slots -> SlotState]
      /\ \A j \in Slots : ~blocks'[j].inUse
  BY <1>1, <1>2, <1>4, FreeSlotType DEF FreeSlot
<1>6. OnlyCurrentInUse'
  BY <1>3, <1>4, <1>5, NoBlockIsNoSlot DEF OnlyCurrentInUse
<1>7. metrics' \in Metrics
  BY MetricsType DEF SlotsInv, FailToOpen
<1>8. nextId' \in Nat /\ origin' \in Nat
  BY <1>2, ConsumeIdType DEF FailToOpen
<1> QED  BY <1>4, <1>5, <1>6, <1>7, <1>8 DEF SlotsInv

LEMMA IgnorePacketKeeps ==
  ASSUME SlotsInv, NEW len \in Nat, IgnorePacket(len)
  PROVE  SlotsInv'
<1>1. gwStats'.overwritten = gwStats.overwritten
  BY DEF IgnorePacket, Intercepted
<1>2. metrics' \in Metrics
  BY MetricsType DEF SlotsInv, IgnorePacket
<1> QED  BY <1>1, <1>2 DEF SlotsInv, IgnorePacket, OnlyCurrentInUse

LEMMA StepKeeps == SlotsInv /\ [GwNext]_gwVars => SlotsInv'
<1> SUFFICES ASSUME SlotsInv, [GwNext]_gwVars
             PROVE  SlotsInv'
  OBVIOUS
<1>1. ASSUME NEW len \in Lengths, InterceptPacket(len)
      PROVE  SlotsInv'
  <2> len \in Nat
    BY GatewayAssumption
  <2>1. CASE IgnorePacket(len)
    BY <2>1, IgnorePacketKeeps
  <2>2. CASE FailToOpen(len)
    BY <2>2, FailToOpenKeeps
  <2>3. CASE ContinueBlock(len)
    BY <2>3, ContinueBlockKeeps
  <2>4. CASE StartBlock(len)
    BY <2>4, StartBlockKeeps
  <2> QED  BY <1>1, <2>1, <2>2, <2>3, <2>4 DEF InterceptPacket
<1>2. CASE StopGateway
  BY <1>2 DEF StopGateway, SlotsInv, OnlyCurrentInUse
<1>3. CASE UNCHANGED gwVars
  BY <1>3 DEF gwVars, SlotsInv, OnlyCurrentInUse
<1> QED  BY <1>1, <1>2, <1>3 DEF GwNext

LEMMA InitSlots == GwInit => SlotsInv
<1> SUFFICES ASSUME GwInit
             PROVE  SlotsInv
  OBVIOUS
<1>1. blocks \in [Slots -> SlotState] /\ \A i \in Slots : ~blocks[i].inUse
  BY FreeSlotType DEF GwInit, FreeSlot
<1>2. current = NoBlock /\ gwStats.overwritten = 0 /\ origin \in Nat
  BY DEF GwInit
<1>3. nextId \in Nat
  BY GatewayAssumption DEF GwInit
<1>4. metrics \in Metrics
  BY DEF GwInit, NoMetrics, Metrics
<1> QED
  BY <1>1, <1>2, <1>3, <1>4, NoBlockIsNoSlot DEF SlotsInv, OnlyCurrentInUse

\* alloc_new_block, which takes the slot of the next id whoever holds it,
\* never takes it from an active block, for every size of the table and of the
\* id space (also if ids wrap within the table), policy and packet length.
THEOREM NoActiveBlockOverwritten == GwSpec => []OnlyCurrentInUse
<1>1. SlotsInv => OnlyCurrentInUse
  BY DEF SlotsInv
<1> QED  BY <1>1, InitSlots, StepKeeps, PTL DEF GwSpec

-----------------------------------------------------------------------------
(* The wires.  What is on them is described for a sending block: its       *)
(* origin o, the number n of its packets sent so far, a bound c on its     *)
(* repairs, and the set P of packets that have been put in a block.        *)

GwSymbol == [origin : Nat, id : Nat, k : Nat, esi : Nat, src : BOOLEAN,
             fits : BOOLEAN]

\* The most repairs the Decision Engine asks for.
MostRepairs ==
  IF Policy = "default" THEN Repairs
  ELSE IF MinRepairs <= MaxRepairs THEN MaxRepairs ELSE MinRepairs

\* What a symbol on the wire is: of a block no later than the newest; if it
\* is a repair, all the packets of its block have come.
OnWire(s, o, n, P) ==
  /\ s.origin \in 1 .. o /\ s.k = BlockSize /\ s.id = s.origin % IdSpace
  /\ s.fits
  /\ s.src => /\ s.esi \in 0 .. BlockSize - 1 /\ <<s.origin, s.esi>> \in P
              /\ s.origin = o => s.esi < n
  /\ ~s.src => /\ s.esi \in RepairEsis
               /\ \A j \in 0 .. BlockSize - 1 : <<s.origin, j>> \in P

\* RepairsOf, of any wires.
RepairsIn(ws, o) ==
  LET sent(p) == {i \in DOMAIN ws[p] : ~ws[p][i].src /\ ws[p][i].origin = o}
  IN  UNION {{p} \X sent(p) : p \in Ifaces}

FewRepairs(ws, o, c) ==
  \A x \in Nat : /\ IsFiniteSet(RepairsIn(ws, x))
                 /\ Cardinality(RepairsIn(ws, x)) <=
                      IF x = o THEN c ELSE MostRepairs

Ordered(ws) ==
  \A p \in Ifaces : \A i, j \in 1 .. Len(ws[p]) :
    i < j => Precedes(ws[p][i], ws[p][j])

Carries(ws, o, n, P) ==
  /\ ws \in [Ifaces -> Seq(GwSymbol)]
  /\ \A p \in Ifaces : \A i \in 1 .. Len(ws[p]) : OnWire(ws[p][i], o, n, P)

Mid(ws, o, n, c, P) ==
  Carries(ws, o, n, P) /\ Ordered(ws) /\ FewRepairs(ws, o, c)

LEMMA MostRepairsBound ==
  /\ MostRepairs \in Nat
  /\ \A m \in Metrics : DecideRepairs(m) <= MostRepairs
<1>1. MostRepairs \in Nat
  BY RepairBounds, EngineSizesAssumption DEF MostRepairs
<1>2. ASSUME NEW m \in Metrics
      PROVE  DecideRepairs(m) <= MostRepairs
  <2>1. /\ MinRepairs \in Nat /\ MaxRepairs \in Nat
        /\ (MinRepairs + MaxRepairs) \div 2 \in Nat
        /\ (MaxRepairs + MinRepairs) \div 2 \in Nat
        /\ MinRepairs <= MaxRepairs =>
             (MinRepairs + MaxRepairs) \div 2 <= MaxRepairs
        /\ MaxRepairs <= MinRepairs =>
             (MinRepairs + MaxRepairs) \div 2 <= MinRepairs
        /\ (MaxRepairs + MinRepairs) \div 2 = (MinRepairs + MaxRepairs) \div 2
    BY RepairBounds
  <2> DEFINE mid == (MinRepairs + MaxRepairs) \div 2
  <2>2. QualityRepairs(m) \in {MinRepairs, mid, MaxRepairs}
    BY DEF QualityRepairs
  <2>3. AdaptiveRepairs(m) \in {MinRepairs, mid, MaxRepairs}
    BY <2>1 DEF AdaptiveRepairs
  <2> HIDE DEF mid
  <2>4. CASE Policy = "default"
    BY <2>4, EngineSizesAssumption DEF DecideRepairs, MostRepairs
  <2>5. CASE Policy = "quality"
    <3>1. DecideRepairs(m) \in {MinRepairs, mid, MaxRepairs}
      BY <2>2, <2>5 DEF DecideRepairs
    <3> QED  BY <2>1, <2>5, <3>1 DEF MostRepairs, mid
  <2>6. CASE Policy = "adaptive"
    <3>1. DecideRepairs(m) \in {MinRepairs, mid, MaxRepairs}
      BY <2>3, <2>6 DEF DecideRepairs
    <3> QED  BY <2>1, <2>6, <3>1 DEF MostRepairs, mid
  <2> QED  BY <2>4, <2>5, <2>6, PolicyAssumption DEF Policies
<1> QED  BY <1>1, <1>2

LEMMA RepairsInIs ==
  ASSUME NEW ws \in [Ifaces -> Seq(GwSymbol)], NEW o
  PROVE  \A x : x \in RepairsIn(ws, o) <=>
           \E p \in Ifaces : \E i \in 1 .. Len(ws[p]) :
             x = <<p, i>> /\ ~ws[p][i].src /\ ws[p][i].origin = o
<1>1. \A p \in Ifaces : DOMAIN ws[p] = 1 .. Len(ws[p])
  OBVIOUS
<1> QED  BY <1>1 DEF RepairsIn

\* One symbol more on a path.
Put(ws, p, s) == [ws EXCEPT ![p] = Append(@, s)]

Grown(vs, ws, p, s) ==
  \A q \in Ifaces :
    /\ Len(ws[q]) \in Nat
    /\ Len(vs[q]) = IF q = p THEN Len(ws[q]) + 1 ELSE Len(ws[q])
    /\ \A i \in 1 .. Len(ws[q]) : vs[q][i] = ws[q][i]
    /\ q = p => vs[q][Len(ws[q]) + 1] = s

LEMMA WireAppend ==
  ASSUME NEW ws \in [Ifaces -> Seq(GwSymbol)], NEW p \in Ifaces,
         NEW s \in GwSymbol
  PROVE  Put(ws, p, s) \in [Ifaces -> Seq(GwSymbol)]
         /\ Grown(Put(ws, p, s), ws, p, s)
<1> DEFINE vs == Put(ws, p, s)
<1> USE DEF Put
<1>1. ws[p] \in Seq(GwSymbol) /\ vs[p] = Append(ws[p], s)
  OBVIOUS
<1>2. /\ Append(ws[p], s) \in Seq(GwSymbol)
      /\ Len(ws[p]) \in Nat /\ Len(Append(ws[p], s)) = Len(ws[p]) + 1
      /\ \A i \in 1 .. Len(ws[p]) : Append(ws[p], s)[i] = ws[p][i]
      /\ Append(ws[p], s)[Len(ws[p]) + 1] = s
  BY <1>1
<1>3. ASSUME NEW q \in Ifaces, q # p
      PROVE  vs[q] = ws[q] /\ ws[q] \in Seq(GwSymbol) /\ Len(ws[q]) \in Nat
  BY <1>3
<1>4. vs \in [Ifaces -> Seq(GwSymbol)]
  BY <1>2
<1> HIDE DEF vs
<1>5. Grown(vs, ws, p, s)
  BY <1>1, <1>2, <1>3 DEF Grown
<1> QED  BY <1>4, <1>5 DEF vs

LEMMA NewIndices ==
  ASSUME NEW n \in Nat
  PROVE  /\ \A i \in 1 .. n + 1 : i \in 1 .. n \/ i = n + 1
         /\ 1 .. n \subseteq 1 .. n + 1 /\ n + 1 \in 1 .. n + 1
         /\ \A i \in 1 .. n : i < n + 1
         /\ \A i \in 1 .. n : ~(n + 1 < i)
  OBVIOUS

\* Sending a symbol of the newest block keeps the wires in order: an ORIG
\* symbol while there is no repair of the block, with the next index, or a
\* repair.
LEMMA PutOrdered ==
  ASSUME NEW o \in Nat, NEW n \in Nat, NEW P, NEW ws, Carries(ws, o, n, P),
         Ordered(ws), NEW p \in Ifaces, NEW s \in GwSymbol, s.origin = o,
         s.src => s.esi = n /\ RepairsIn(ws, o) = {}
  PROVE  Ordered(Put(ws, p, s))
<1> DEFINE vs == Put(ws, p, s)
<1>1. /\ ws \in [Ifaces -> Seq(GwSymbol)]
      /\ \A q \in Ifaces : \A i \in 1 .. Len(ws[q]) : OnWire(ws[q][i], o, n, P)
  BY DEF Carries
<1>2. \A q \in Ifaces :
        /\ Len(ws[q]) \in Nat
        /\ Len(vs[q]) = IF q = p THEN Len(ws[q]) + 1 ELSE Len(ws[q])
        /\ \A i \in 1 .. Len(ws[q]) : vs[q][i] = ws[q][i]
        /\ q = p => vs[q][Len(ws[q]) + 1] = s
  <2>1. vs \in [Ifaces -> Seq(GwSymbol)] /\ Grown(vs, ws, p, s)
    BY <1>1, WireAppend
  <2> HIDE DEF vs
  <2> QED  BY <2>1 DEF Grown
<1> HIDE DEF vs
<1>3. ASSUME NEW i \in 1 .. Len(ws[p])
      PROVE  Precedes(ws[p][i], s)
  <2>1. OnWire(ws[p][i], o, n, P) /\ ws[p][i] \in GwSymbol
    BY <1>1
  <2>2. ws[p][i].origin \in 1 .. o /\ ws[p][i].esi \in Nat
    BY <2>1 DEF OnWire, GwSymbol
  <2>3. CASE ws[p][i].origin < o
    BY <2>3 DEF Precedes
  <2>4. CASE ws[p][i].origin = o /\ ~s.src
    BY <2>4 DEF Precedes
  <2>5. CASE ws[p][i].origin = o /\ s.src
    <3>1. ws[p][i].src
      <4>1. <<p, i>> \notin RepairsIn(ws, o)
        BY <2>5
      <4> QED  BY <1>1, <2>5, <4>1, RepairsInIs
    <3>2. ws[p][i].esi < n
      BY <2>1, <2>5, <3>1 DEF OnWire
    <3> QED  BY <2>5, <3>1, <3>2 DEF Precedes
  <2> QED  BY <2>2, <2>3, <2>4, <2>5
<1>4. ASSUME NEW q \in Ifaces, NEW i \in 1 .. Len(vs[q]),
             NEW j \in 1 .. Len(vs[q]), i < j
      PROVE  Precedes(vs[q][i], vs[q][j])
  <2>1. CASE j \in 1 .. Len(ws[q])
    <3>1. i \in 1 .. Len(ws[q])
      BY <1>2, <1>4, <2>1
    <3> QED  BY <1>2, <1>4, <2>1, <3>1 DEF Ordered
  <2>2. CASE j \notin 1 .. Len(ws[q])
    <3>1. q = p /\ j = Len(ws[p]) + 1
      BY <1>2, <2>2
    <3>2. i \in 1 .. Len(ws[p])
      BY <1>2, <1>4, <3>1
    <3> QED  BY <1>2, <1>3, <3>1, <3>2
  <2> QED  BY <2>1, <2>2
<1> QED  BY <1>4 DEF Ordered, vs

LEMMA PutCarried ==
  ASSUME NEW o \in Nat, NEW n \in Nat, NEW m \in Nat, n <= m,
         NEW P, NEW R, P \subseteq R, NEW ws, Carries(ws, o, n, P),
         NEW p \in Ifaces, NEW s \in GwSymbol, OnWire(s, o, m, R)
  PROVE  Carries(Put(ws, p, s), o, m, R)
<1> DEFINE vs == Put(ws, p, s)
<1>1. /\ ws \in [Ifaces -> Seq(GwSymbol)]
      /\ \A q \in Ifaces : \A i \in 1 .. Len(ws[q]) : OnWire(ws[q][i], o, n, P)
  BY DEF Carries
<1>2. /\ vs \in [Ifaces -> Seq(GwSymbol)]
      /\ \A q \in Ifaces :
           /\ Len(ws[q]) \in Nat
           /\ Len(vs[q]) = IF q = p THEN Len(ws[q]) + 1 ELSE Len(ws[q])
           /\ \A i \in 1 .. Len(ws[q]) : vs[q][i] = ws[q][i]
           /\ q = p => vs[q][Len(ws[q]) + 1] = s
  <2>1. vs \in [Ifaces -> Seq(GwSymbol)] /\ Grown(vs, ws, p, s)
    BY <1>1, WireAppend
  <2> HIDE DEF vs
  <2> QED  BY <2>1 DEF Grown
<1> HIDE DEF vs
<1>3. ASSUME NEW t \in GwSymbol, OnWire(t, o, n, P)
      PROVE  OnWire(t, o, m, R)
  BY <1>3 DEF OnWire, GwSymbol
<1>4. ASSUME NEW q \in Ifaces, NEW i \in 1 .. Len(vs[q])
      PROVE  OnWire(vs[q][i], o, m, R)
  <2>1. CASE i \in 1 .. Len(ws[q])
    BY <1>1, <1>2, <1>3, <2>1
  <2>2. CASE i \notin 1 .. Len(ws[q])
    <3>1. q = p /\ i = Len(ws[p]) + 1
      BY <1>2, <2>2
    <3> QED  BY <1>2, <3>1
  <2> QED  BY <2>1, <2>2
<1> QED  BY <1>2, <1>4 DEF Carries, vs

\* It adds a repair of the newest block, if it is one, and no other.
LEMMA PutRepairs ==
  ASSUME NEW o \in Nat, NEW c \in Nat, NEW d \in Nat,
         NEW ws \in [Ifaces -> Seq(GwSymbol)],
         FewRepairs(ws, o, c), NEW p \in Ifaces, NEW s \in GwSymbol,
         s.origin = o, d = IF s.src THEN c ELSE c + 1
  PROVE  FewRepairs(Put(ws, p, s), o, d)
<1> DEFINE vs == Put(ws, p, s)
<1>1. /\ vs \in [Ifaces -> Seq(GwSymbol)]
      /\ \A q \in Ifaces :
           /\ Len(ws[q]) \in Nat
           /\ Len(vs[q]) = IF q = p THEN Len(ws[q]) + 1 ELSE Len(ws[q])
           /\ \A i \in 1 .. Len(ws[q]) : vs[q][i] = ws[q][i]
           /\ q = p => vs[q][Len(ws[q]) + 1] = s
  <2>1. vs \in [Ifaces -> Seq(GwSymbol)] /\ Grown(vs, ws, p, s)
    BY WireAppend
  <2> HIDE DEF vs
  <2> QED  BY <2>1 DEF Grown
<1> HIDE DEF vs
<1> DEFINE last == <<p, Len(ws[p]) + 1>>
<1>2. ASSUME NEW x \in Nat
      PROVE  RepairsIn(vs, x) = IF x = o /\ ~s.src
                                THEN RepairsIn(ws, x) \cup {last}
                                ELSE RepairsIn(ws, x)
  <2>1. ASSUME NEW y \in RepairsIn(vs, x)
        PROVE  y \in RepairsIn(ws, x) \/ (x = o /\ ~s.src /\ y = last)
    <3>0. PICK q \in Ifaces : \E i \in 1 .. Len(vs[q]) :
            y = <<q, i>> /\ ~vs[q][i].src /\ vs[q][i].origin = x
      BY <1>1, RepairsInIs
    <3>1. PICK i \in 1 .. Len(vs[q]) :
            y = <<q, i>> /\ ~vs[q][i].src /\ vs[q][i].origin = x
      BY <3>0
    <3>2. CASE i \in 1 .. Len(ws[q])
      <4>1. y = <<q, i>> /\ ~ws[q][i].src /\ ws[q][i].origin = x
        BY <1>1, <3>1, <3>2
      <4> QED  BY <3>2, <4>1, RepairsInIs
    <3>3. CASE i \notin 1 .. Len(ws[q])
      <4>1. q = p /\ i = Len(ws[p]) + 1
        BY <1>1, <3>3
      <4> QED  BY <1>1, <3>1, <4>1
    <3> QED  BY <3>2, <3>3
  <2>2. ASSUME NEW y \in RepairsIn(ws, x)
        PROVE  y \in RepairsIn(vs, x)
    <3>0. PICK q \in Ifaces : \E i \in 1 .. Len(ws[q]) :
            y = <<q, i>> /\ ~ws[q][i].src /\ ws[q][i].origin = x
      BY RepairsInIs
    <3>1. PICK i \in 1 .. Len(ws[q]) :
            y = <<q, i>> /\ ~ws[q][i].src /\ ws[q][i].origin = x
      BY <3>0
    <3>2. i \in 1 .. Len(vs[q]) /\ vs[q][i] = ws[q][i]
      BY <1>1, NewIndices
    <3> QED  BY <1>1, <3>1, <3>2, RepairsInIs
  <2>3. ASSUME x = o, ~s.src
        PROVE  last \in RepairsIn(vs, x)
    <3>1. Len(ws[p]) + 1 \in 1 .. Len(vs[p]) /\ vs[p][Len(ws[p]) + 1] = s
      BY <1>1, NewIndices
    <3> QED  BY <1>1, <2>3, <3>1, RepairsInIs
  <2> HIDE DEF last
  <2> QED  BY <2>1, <2>2, <2>3
<1> HIDE DEF last
<1>3. ASSUME NEW x \in Nat
      PROVE  /\ IsFiniteSet(RepairsIn(vs, x))
             /\ Cardinality(RepairsIn(vs, x)) <=
                  IF x = o THEN d ELSE MostRepairs
  <2>1. /\ IsFiniteSet(RepairsIn(ws, x))
        /\ Cardinality(RepairsIn(ws, x)) \in Nat
        /\ Cardinality(RepairsIn(ws, x)) <= IF x = o THEN c ELSE MostRepairs
    BY FS_CardinalityType DEF FewRepairs
  <2>2. CASE x = o /\ ~s.src
    <3>1. /\ IsFiniteSet(RepairsIn(ws, x) \cup {last})
          /\ Cardinality(RepairsIn(ws, x) \cup {last})
               <= Cardinality(RepairsIn(ws, x)) + 1
      <4>1. /\ IsFiniteSet(RepairsIn(ws, x) \cup {last})
            /\ Cardinality(RepairsIn(ws, x) \cup {last}) =
                 IF last \in RepairsIn(ws, x)
                 THEN Cardinality(RepairsIn(ws, x))
                 ELSE Cardinality(RepairsIn(ws, x)) + 1
        BY <2>1, FS_AddElement
      <4> QED  BY <2>1, <4>1
    <3>2. Cardinality(RepairsIn(ws, x) \cup {last}) \in Nat
      BY <3>1, FS_CardinalityType
    <3>3. RepairsIn(vs, x) = RepairsIn(ws, x) \cup {last}
      BY <1>2, <2>2
    <3> QED  BY <2>1, <2>2, <3>1, <3>2, <3>3
  <2>3. CASE ~(x = o /\ ~s.src)
    <3>1. RepairsIn(vs, x) = RepairsIn(ws, x)
      BY <1>2, <2>3
    <3>2. x = o => d = c
      BY <2>3
    <3> QED  BY <2>1, <3>1, <3>2
  <2> QED  BY <2>2, <2>3
<1> QED  BY <1>3 DEF FewRepairs, vs

-----------------------------------------------------------------------------
(* Sending.  An outcome of sending is a record of the wires, the parity of *)
(* rr_counter and the number of symbols sent.                              *)

OutcomeOK(v, o, n, c, P) ==
  v.rr \in {0, 1} /\ v.sent \in Nat /\ Mid(v.wire, o, n, c, P)

LEMMA PathsOfSymbols ==
  ASSUME NEW m, NEW r \in {0, 1}, NEW e \in Nat
  PROVE  ChooseIface(m, r, e) \subseteq Ifaces /\ NextRr(m, r) \in {0, 1}
  BY PolicyAssumption DEF ChooseIface, Ifaces, Policies, DefaultIface,
     QualityIface, AdaptiveIfaces, NextRr

LEMMA SendsOne ==
  ASSUME NEW w, w.rr \in {0, 1}, w.sent \in Nat, NEW s \in GwSymbol,
         NEW v \in SendSymbol(w, s)
  PROVE  /\ v.rr \in {0, 1} /\ v.sent \in Nat
         /\ \/ v.wire = w.wire
            \/ \E p \in Ifaces : v.wire = Put(w.wire, p, s)
<1>1. s.esi \in Nat
  BY DEF GwSymbol
<1>2. /\ ChooseIface(metrics', w.rr, s.esi) \subseteq Ifaces
      /\ NextRr(metrics', w.rr) \in {0, 1}
  BY <1>1, PathsOfSymbols
<1>3. PICK p \in ChooseIface(metrics', w.rr, s.esi), ok \in SendOutcomes :
        v = [wire |-> IF ok THEN [w.wire EXCEPT ![p] = Append(@, s)]
                      ELSE w.wire,
             rr   |-> NextRr(metrics', w.rr),
             sent |-> IF ok THEN w.sent + 1 ELSE w.sent]
  BY DEF SendSymbol
<1>4. /\ v.rr = NextRr(metrics', w.rr)
      /\ v.sent = IF ok THEN w.sent + 1 ELSE w.sent
      /\ v.wire = IF ok THEN [w.wire EXCEPT ![p] = Append(@, s)] ELSE w.wire
  BY <1>3
<1>0. ok \in BOOLEAN
  BY GatewayAssumption
<1>5. CASE ok = TRUE
  <2>1. p \in Ifaces /\ v.wire = Put(w.wire, p, s)
    BY <1>2, <1>4, <1>5 DEF Put
  <2>2. v.sent \in Nat /\ v.rr \in {0, 1}
    BY <1>2, <1>4, <1>5
  <2> QED  BY <2>1, <2>2
<1>6. CASE ok = FALSE
  <2>1. v.wire = w.wire
    BY <1>4, <1>6
  <2> QED  BY <1>2, <1>4, <1>6, <2>1
<1> QED  BY <1>0, <1>5, <1>6

\* The block that sends.
SendingBlock(b, o) ==
  /\ b \in SlotState /\ b.origin = o /\ o \in Nat \ {0} /\ b.K = BlockSize
  /\ b.id = o % IdSpace

LEMMA SymbolsOfBlock ==
  ASSUME NEW b, NEW o, SendingBlock(b, o), NEW e \in Nat
  PROVE  /\ SourceSymbol(b, e) \in GwSymbol /\ RepairSymbol(b, e) \in GwSymbol
         /\ SourceSymbol(b, e).src /\ ~RepairSymbol(b, e).src
         /\ \A s \in {SourceSymbol(b, e), RepairSymbol(b, e)} :
              /\ s.origin = o /\ s.id = o % IdSpace /\ s.k = BlockSize
              /\ s.esi = e /\ s.fits
<1>1. /\ b.id \in Nat /\ b.origin = o /\ o \in Nat /\ b.K = BlockSize
      /\ BlockSize \in Nat /\ b.id = o % IdSpace
  BY EngineSizesAssumption DEF SendingBlock, SlotState
<1> DEFINE s == SourceSymbol(b, e)
<1>2. /\ s \in GwSymbol /\ s.src /\ s.origin = o /\ s.id = o % IdSpace
      /\ s.k = BlockSize /\ s.esi = e /\ s.fits
  BY <1>1 DEF SourceSymbol, GwSymbol
<1>3. RepairSymbol(b, e) = [s EXCEPT !.src = FALSE]
  BY DEF RepairSymbol
<1> HIDE DEF s
<1>4. /\ RepairSymbol(b, e) \in GwSymbol /\ ~RepairSymbol(b, e).src
      /\ RepairSymbol(b, e).origin = o /\ RepairSymbol(b, e).id = o % IdSpace
      /\ RepairSymbol(b, e).k = BlockSize /\ RepairSymbol(b, e).esi = e
      /\ RepairSymbol(b, e).fits
  BY <1>2, <1>3 DEF GwSymbol
<1> QED  BY <1>2, <1>4 DEF s

\* The wires of a block without repairs carry no repair of it.
LEMMA NoRepairYet ==
  ASSUME NEW ws, NEW o \in Nat, FewRepairs(ws, o, 0)
  PROVE  RepairsIn(ws, o) = {}
<1>1. IsFiniteSet(RepairsIn(ws, o)) /\ Cardinality(RepairsIn(ws, o)) <= 0
  BY DEF FewRepairs
<1>2. Cardinality(RepairsIn(ws, o)) = 0
  BY <1>1, FS_CardinalityType
<1> QED  BY <1>1, <1>2, FS_EmptySet

\* An ORIG symbol.
LEMMA SendsSource ==
  ASSUME NEW o \in Nat, NEW n \in 0 .. BlockSize - 1, NEW P,
         NEW w, OutcomeOK(w, o, n, 0, P), NEW b, SendingBlock(b, o),
         NEW v \in SendSymbol(w, SourceSymbol(b, n))
  PROVE  OutcomeOK(v, o, n + 1, 0, P \cup {<<o, n>>})
<1> DEFINE s == SourceSymbol(b, n)
           R == P \cup {<<o, n>>}
<1>1. n \in Nat /\ n + 1 \in Nat /\ n <= n + 1 /\ BlockSize \in Nat
  BY EngineSizesAssumption
<1>2. /\ s \in GwSymbol /\ s.src /\ s.origin = o /\ s.id = o % IdSpace
      /\ s.k = BlockSize /\ s.esi = n /\ s.fits
  BY <1>1, SymbolsOfBlock
<1>3. Carries(w.wire, o, n, P) /\ Ordered(w.wire) /\ FewRepairs(w.wire, o, 0)
      /\ w.wire \in [Ifaces -> Seq(GwSymbol)]
  BY DEF OutcomeOK, Mid, Carries
<1>4. /\ v.rr \in {0, 1} /\ v.sent \in Nat
      /\ \/ v.wire = w.wire
         \/ \E p \in Ifaces : v.wire = Put(w.wire, p, s)
  BY <1>2, SendsOne DEF OutcomeOK
<1>5. CASE v.wire = w.wire
  <2>1. ASSUME NEW t \in GwSymbol, OnWire(t, o, n, P)
        PROVE  OnWire(t, o, n + 1, R)
    BY <1>1, <2>1 DEF OnWire, GwSymbol
  <2>0. \A p \in Ifaces : \A i \in 1 .. Len(w.wire[p]) :
          w.wire[p][i] \in GwSymbol /\ OnWire(w.wire[p][i], o, n, P)
    BY <1>3 DEF Carries
  <2> HIDE DEF R
  <2>2. Carries(w.wire, o, n + 1, R)
    BY <1>3, <2>0, <2>1 DEF Carries
  <2> QED  BY <1>3, <1>4, <1>5, <2>2 DEF OutcomeOK, Mid, R
<1>6. ASSUME NEW p \in Ifaces, v.wire = Put(w.wire, p, s)
      PROVE  OutcomeOK(v, o, n + 1, 0, R)
  <2>1. OnWire(s, o, n + 1, R)
    BY <1>1, <1>2 DEF OnWire, SendingBlock
  <2>2. s.origin = o /\ s.src /\ s.esi = n
    BY <1>2
  <2> HIDE DEF s, R
  <2>3. P \subseteq R
    BY DEF R
  <2>4. Carries(v.wire, o, n + 1, R)
    BY <1>1, <1>2, <1>3, <1>6, <2>1, <2>3, PutCarried
  <2>5. RepairsIn(w.wire, o) = {}
    BY <1>3, NoRepairYet
  <2>6. Ordered(v.wire)
    BY <1>1, <1>2, <1>3, <1>6, <2>2, <2>5, PutOrdered
  <2>7. FewRepairs(v.wire, o, 0)
    BY <1>2, <1>3, <1>6, <2>2, PutRepairs
  <2> QED  BY <1>4, <2>4, <2>6, <2>7 DEF OutcomeOK, Mid
<1> QED  BY <1>4, <1>5, <1>6

\* A repair, once all packets of the block have been taken.
LEMMA SendsRepair ==
  ASSUME NEW o \in Nat, NEW n \in Nat, NEW c \in Nat, NEW P,
         \A j \in 0 .. BlockSize - 1 : <<o, j>> \in P,
         NEW w, OutcomeOK(w, o, n, c, P), NEW b, SendingBlock(b, o),
         NEW e \in RepairEsis, NEW v \in SendSymbol(w, RepairSymbol(b, e))
  PROVE  OutcomeOK(v, o, n, c + 1, P)
<1> DEFINE s == RepairSymbol(b, e)
<1>1. e \in Nat /\ c + 1 \in Nat
  BY GatewayAssumption
<1>2. /\ s \in GwSymbol /\ ~s.src /\ s.origin = o /\ s.id = o % IdSpace
      /\ s.k = BlockSize /\ s.esi = e /\ s.fits
  BY <1>1, SymbolsOfBlock
<1>3. Carries(w.wire, o, n, P) /\ Ordered(w.wire) /\ FewRepairs(w.wire, o, c)
      /\ w.wire \in [Ifaces -> Seq(GwSymbol)]
  BY DEF OutcomeOK, Mid, Carries
<1>4. /\ v.rr \in {0, 1} /\ v.sent \in Nat
      /\ \/ v.wire = w.wire
         \/ \E p \in Ifaces : v.wire = Put(w.wire, p, s)
  BY <1>2, SendsOne DEF OutcomeOK
<1>5. CASE v.wire = w.wire
  <2>1. FewRepairs(w.wire, o, c + 1)
    <3>1. ASSUME NEW x \in Nat
          PROVE  /\ IsFiniteSet(RepairsIn(w.wire, x))
                 /\ Cardinality(RepairsIn(w.wire, x))
                      <= IF x = o THEN c + 1 ELSE MostRepairs
      <4>1. /\ IsFiniteSet(RepairsIn(w.wire, x))
            /\ Cardinality(RepairsIn(w.wire, x))
                 <= IF x = o THEN c ELSE MostRepairs
        BY <1>3 DEF FewRepairs
      <4>2. Cardinality(RepairsIn(w.wire, x)) \in Nat
        BY <4>1, FS_CardinalityType
      <4> QED  BY <4>1, <4>2
    <3> QED  BY <3>1 DEF FewRepairs
  <2> QED  BY <1>3, <1>4, <1>5, <2>1 DEF OutcomeOK, Mid
<1>6. ASSUME NEW p \in Ifaces, v.wire = Put(w.wire, p, s)
      PROVE  OutcomeOK(v, o, n, c + 1, P)
  <2>1. OnWire(s, o, n, P)
    BY <1>1, <1>2 DEF OnWire, SendingBlock
  <2>2. s.origin = o /\ ~s.src
    BY <1>2
  <2> HIDE DEF s
  <2>4. Carries(v.wire, o, n, P)
    BY <1>2, <1>3, <1>6, <2>1, PutCarried
  <2>6. Ordered(v.wire)
    BY <1>2, <1>3, <1>6, <2>2, PutOrdered
  <2>7. FewRepairs(v.wire, o, c + 1)
    BY <1>1, <1>2, <1>3, <1>6, <2>2, PutRepairs
  <2> QED  BY <1>4, <2>4, <2>6, <2>7 DEF OutcomeOK, Mid
<1> QED  BY <1>4, <1>5, <1>6

\* Induction: a set of naturals with zero and all successors has them all.
LEMMA NatSetInduction ==
  ASSUME NEW S, 0 \in S, \A n \in Nat : n \in S => n + 1 \in S
  PROVE  Nat \subseteq S
<1> SUFFICES ASSUME Nat \ S # {}
             PROVE  FALSE
  OBVIOUS
<1> DEFINE T == Nat \ S
<1>1. PICK x \in T : \A y \in T : ~(<<y, x>> \in OpToRel(<, Nat))
  BY NatLessThanWellFounded, WFMin, Zenon
<1>2. x # 0 /\ x \in Nat
  OBVIOUS
<1>3. x - 1 \in T
  BY <1>2
<1>4. <<x - 1, x>> \in OpToRel(<, Nat)
  <2>1. x - 1 \in Nat /\ x - 1 < x
    BY <1>2
  <2> QED BY <1>2, <2>1 DEF OpToRel
<1> QED  BY <1>1, <1>3, <1>4

\* One more repair after any of the outcomes V, and the recursion of
\* SendRepairs.
SendAll(V, b) ==
  UNION {SendSymbol(v, RepairSymbol(b, e)) : v \in V, e \in RepairEsis}
AfterStep(A, w, b, n) == IF n = 0 THEN {w} ELSE SendAll(A[n - 1], b)
After(w, b) ==
  CHOOSE A : A = [n \in 0 .. b.reps |-> AfterStep(A, w, b, n)]

LEMMA SendRepairsIsAfter ==
  ASSUME NEW w, NEW b
  PROVE  SendRepairs(w, b) = After(w, b)[b.reps]
  BY DEF SendRepairs, After, AfterStep, SendAll

\* The recursion has a solution.
LEMMA AfterExists ==
  ASSUME NEW w, NEW b, b.reps \in Nat
  PROVE  After(w, b) = [n \in 0 .. b.reps |-> AfterStep(After(w, b), w, b, n)]
<1> DEFINE Solves(A, m) == A = [n \in 0 .. m |-> AfterStep(A, w, b, n)]
           M == {m \in Nat : \E A : Solves(A, m)}
<1>1. 0 \in M
  <2> DEFINE A == [n \in 0 .. 0 |-> {w}]
  <2>1. Solves(A, 0)
    BY DEF AfterStep
  <2> QED  BY <2>1
<1>2. ASSUME NEW m \in Nat, m \in M
      PROVE  m + 1 \in M
  <2>1. PICK A : Solves(A, m)
    BY <1>2
  <2> DEFINE B == [n \in 0 .. m + 1 |-> AfterStep(A, w, b, n)]
  <2>2. \A n \in 0 .. m : A[n] = B[n]
    <3>1. \A n \in 0 .. m : A[n] = AfterStep(A, w, b, n)
      BY <2>1, Zenon
    <3>2. \A n \in 0 .. m : n \in 0 .. m + 1
      OBVIOUS
    <3> QED  BY <3>1, <3>2
  <2>3. ASSUME NEW n \in 0 .. m + 1
        PROVE  AfterStep(A, w, b, n) = AfterStep(B, w, b, n)
    <3>1. CASE n = 0
      BY <3>1 DEF AfterStep
    <3>2. CASE n # 0
      <4>1. n - 1 \in 0 .. m
        BY <3>2
      <4>2. A[n - 1] = B[n - 1]
        BY <2>2, <4>1
      <4> HIDE DEF B
      <4> QED  BY <3>2, <4>2 DEF AfterStep
    <3> QED  BY <3>1, <3>2
  <2>4. Solves(B, m + 1)
    <3>1. B = [n \in 0 .. m + 1 |-> AfterStep(B, w, b, n)]
      BY <2>3, Zenon
    <3> QED  BY <3>1
  <2> HIDE DEF B
  <2>5. m + 1 \in Nat
    OBVIOUS
  <2> QED  BY <2>4, <2>5
<1>3. Nat \subseteq M
  <2> HIDE DEF M
  <2> QED  BY <1>1, <1>2, NatSetInduction
<1>4. PICK A : Solves(A, b.reps)
  BY <1>3
<1>5. A = [n \in 0 .. b.reps |-> AfterStep(A, w, b, n)]
  BY <1>4
<1> QED  BY <1>5, Zenon DEF After

LEMMA AfterUnfolds ==
  ASSUME NEW w, NEW b, b.reps \in Nat
  PROVE  \A n \in 0 .. b.reps :
           After(w, b)[n] = AfterStep(After(w, b), w, b, n)
<1>1. ASSUME NEW A, NEW N, A = [n \in N |-> AfterStep(A, w, b, n)]
      PROVE  \A n \in N : A[n] = AfterStep(A, w, b, n)
  BY <1>1, Zenon
<1> DEFINE A == After(w, b)
<1>2. A = [n \in 0 .. b.reps |-> AfterStep(A, w, b, n)]
  BY AfterExists
<1> HIDE DEF A
<1>3. \A n \in 0 .. b.reps : A[n] = AfterStep(A, w, b, n)
  BY <1>1, <1>2, Zenon
<1> QED  BY <1>3 DEF A

\* All the repairs of a block.
LEMMA SendsRepairs ==
  ASSUME NEW o \in Nat, NEW n \in Nat, NEW P,
         \A j \in 0 .. BlockSize - 1 : <<o, j>> \in P,
         NEW w, OutcomeOK(w, o, n, 0, P), NEW b, SendingBlock(b, o),
         NEW u \in SendRepairs(w, b)
  PROVE  OutcomeOK(u, o, n, b.reps, P)
<1>1. b.reps \in Nat
  BY DEF SendingBlock, SlotState
<1> DEFINE A == After(w, b)
           M == {m \in Nat : m \in 0 .. b.reps =>
                               \A v \in A[m] : OutcomeOK(v, o, n, m, P)}
<1>2. \A m \in 0 .. b.reps : A[m] = AfterStep(A, w, b, m)
  BY <1>1, AfterUnfolds
<1> HIDE DEF A
<1>3. 0 \in M
  <2>1. A[0] = {w}
    BY <1>1, <1>2 DEF AfterStep
  <2> QED  BY <2>1
<1>4. ASSUME NEW m \in Nat, m \in M
      PROVE  m + 1 \in M
  <2>0. m + 1 \in Nat
    OBVIOUS
  <2> SUFFICES ASSUME m + 1 \in 0 .. b.reps, NEW v \in A[m + 1]
               PROVE  OutcomeOK(v, o, n, m + 1, P)
    BY <2>0
  <2>1. m \in 0 .. b.reps /\ m + 1 # 0 /\ (m + 1) - 1 = m
    BY <1>1
  <2>2. A[m + 1] = SendAll(A[m], b)
    BY <1>2, <2>1 DEF AfterStep
  <2>3. PICK x \in A[m], e \in RepairEsis :
          v \in SendSymbol(x, RepairSymbol(b, e))
    BY <2>2 DEF SendAll
  <2>4. OutcomeOK(x, o, n, m, P)
    BY <1>4, <2>1
  <2> QED  BY <2>3, <2>4, SendsRepair
<1>5. Nat \subseteq M
  <2> HIDE DEF M
  <2> QED  BY <1>3, <1>4, NatSetInduction
<1>6. u \in A[b.reps]
  BY SendRepairsIsAfter DEF A
<1> QED  BY <1>1, <1>5, <1>6

LEMMA MidWeakens ==
  ASSUME NEW ws, NEW o \in Nat, NEW n \in Nat, NEW m \in Nat, n <= m,
         NEW c \in Nat, NEW d \in Nat, c <= d, NEW P, Mid(ws, o, n, c, P)
  PROVE  Mid(ws, o, m, d, P)
<1>1. Carries(ws, o, n, P) /\ Ordered(ws) /\ FewRepairs(ws, o, c)
  BY DEF Mid
<1>2. Carries(ws, o, m, P)
  <2>1. ASSUME NEW t \in GwSymbol, OnWire(t, o, n, P)
        PROVE  OnWire(t, o, m, P)
    BY <2>1 DEF OnWire, GwSymbol
  <2>2. /\ ws \in [Ifaces -> Seq(GwSymbol)]
        /\ \A p \in Ifaces : \A i \in 1 .. Len(ws[p]) :
             ws[p][i] \in GwSymbol /\ OnWire(ws[p][i], o, n, P)
    BY <1>1 DEF Carries
  <2> QED  BY <2>1, <2>2 DEF Carries
<1>3. ASSUME NEW x \in Nat
      PROVE  /\ IsFiniteSet(RepairsIn(ws, x))
             /\ Cardinality(RepairsIn(ws, x)) <= IF x = o THEN d ELSE MostRepairs
  <2>1. /\ IsFiniteSet(RepairsIn(ws, x))
        /\ Cardinality(RepairsIn(ws, x)) <= IF x = o THEN c ELSE MostRepairs
    BY <1>1 DEF FewRepairs
  <2>2. Cardinality(RepairsIn(ws, x)) \in Nat
    BY <2>1, FS_CardinalityType
  <2> QED  BY <2>1, <2>2
<1> QED  BY <1>1, <1>2, <1>3 DEF Mid, FewRepairs

\* Nothing of a block that has yet to be opened is on the wires.
LEMMA NextBlockMid ==
  ASSUME NEW ws, NEW o \in Nat, NEW n \in Nat, NEW c \in Nat,
         c <= MostRepairs, NEW P, Mid(ws, o, n, c, P)
  PROVE  Mid(ws, o + 1, 0, 0, P)
<1>1. Carries(ws, o, n, P) /\ Ordered(ws) /\ FewRepairs(ws, o, c)
  BY DEF Mid
<1>2. /\ ws \in [Ifaces -> Seq(GwSymbol)]
      /\ \A p \in Ifaces : \A i \in 1 .. Len(ws[p]) :
           ws[p][i] \in GwSymbol /\ OnWire(ws[p][i], o, n, P)
  BY <1>1 DEF Carries
<1>3. \A p \in Ifaces : \A i \in 1 .. Len(ws[p]) : ws[p][i].origin # o + 1
  <2>1. ASSUME NEW t, OnWire(t, o, n, P)
        PROVE  t.origin # o + 1
    BY <2>1 DEF OnWire
  <2> QED  BY <1>2, <2>1
<1>4. ASSUME NEW t \in GwSymbol, OnWire(t, o, n, P)
      PROVE  OnWire(t, o + 1, 0, P)
  BY <1>4 DEF OnWire, GwSymbol
<1>5. Carries(ws, o + 1, 0, P)
  BY <1>2, <1>4 DEF Carries
<1>6. RepairsIn(ws, o + 1) = {}
  BY <1>2, <1>3, RepairsInIs
<1>7. ASSUME NEW x \in Nat
      PROVE  /\ IsFiniteSet(RepairsIn(ws, x))
             /\ Cardinality(RepairsIn(ws, x))
                  <= IF x = o + 1 THEN 0 ELSE MostRepairs
  <2>1. CASE x = o + 1
    BY <1>6, <2>1, FS_EmptySet
  <2>2. CASE x # o + 1
    <3>1. /\ IsFiniteSet(RepairsIn(ws, x))
          /\ Cardinality(RepairsIn(ws, x)) <= IF x = o THEN c ELSE MostRepairs
      BY <1>1 DEF FewRepairs
    <3>2. Cardinality(RepairsIn(ws, x)) \in Nat
      BY <3>1, FS_CardinalityType
    <3> QED  BY <2>2, <3>1, <3>2, MostRepairsBound
  <2> QED  BY <2>1, <2>2
<1> QED  BY <1>1, <1>5, <1>7 DEF Mid, FewRepairs

-----------------------------------------------------------------------------
(* The inductive invariant of the gateway                                  *)

\* The block packets are put into is the newest; the packets it has had are
\* those of its first indices.
CurrentIsNewest ==
  current # NoBlock =>
    LET b == blocks[current]
    IN  /\ SendingBlock(b, origin) /\ b.reps <= MostRepairs
        /\ \A i \in 0 .. b.num - 1 : <<origin, i>> \in packets

WiresInv ==
  /\ current # NoBlock => Mid(wire, origin, blocks[current].num, 0, packets)
  /\ Mid(wire, origin, BlockSize, MostRepairs, packets)

GateInv ==
  /\ SlotsInv
  /\ nextId = (origin + 1) % IdSpace
  /\ rr \in {0, 1}
  /\ running \in BOOLEAN
  /\ gwStats \in GwStats
  /\ packets \subseteq (1 .. origin) \X (0 .. BlockSize - 1)
  /\ CurrentIsNewest
  /\ WiresInv

\* Putting a packet in a block with room, and sending what that asks for.
LEMMA TakePacketSends ==
  ASSUME NEW bs, NEW i \in Slots, NEW o \in Nat, NEW b0, NEW over \in Nat,
         SendingBlock(b0, o), b0.reps <= MostRepairs, b0.num < BlockSize,
         \A j \in 0 .. b0.num - 1 : <<o, j>> \in packets,
         Mid(wire, o, b0.num, 0, packets), rr \in {0, 1}, gwStats \in GwStats,
         packets \subseteq (1 .. o) \X (0 .. BlockSize - 1),
         bs \in [Slots -> SlotState],
         TakePacket(bs, i, b0, over), origin' = o
  PROVE  /\ rr' \in {0, 1} /\ gwStats' \in GwStats
         /\ packets' \subseteq (1 .. o) \X (0 .. BlockSize - 1)
         /\ CurrentIsNewest' /\ WiresInv'
<1> DEFINE b == [b0 EXCEPT !.num = @ + 1]
           w == [wire |-> wire, rr |-> rr, sent |-> 0]
           n == b0.num
           R == packets \cup {<<o, n>>}
<1>1. PICK v \in SendSymbol(w, SourceSymbol(b, n)) :
           \E u \in SendTail(v, b) :
             /\ wire' = u.wire
             /\ rr' = u.rr
             /\ packets' = packets \cup {<<b.origin, n>>}
             /\ blocks' = [bs EXCEPT ![i] = IF Full(b) THEN FreeSlot ELSE b]
             /\ current' = IF Full(b) THEN NoBlock ELSE i
             /\ Intercepted(v.sent, u.sent, IF Full(b) THEN 1 ELSE 0, over)
  BY DEF TakePacket
<1>2. PICK u \in SendTail(v, b) :
             /\ wire' = u.wire
             /\ rr' = u.rr
             /\ packets' = packets \cup {<<b.origin, n>>}
             /\ blocks' = [bs EXCEPT ![i] = IF Full(b) THEN FreeSlot ELSE b]
             /\ current' = IF Full(b) THEN NoBlock ELSE i
             /\ Intercepted(v.sent, u.sent, IF Full(b) THEN 1 ELSE 0, over)
  BY <1>1
<1>3. /\ b \in SlotState /\ b.origin = o /\ b.K = BlockSize
      /\ b.id = o % IdSpace /\ b.num = n + 1 /\ b.reps = b0.reps
      /\ n \in Nat /\ n \in 0 .. BlockSize - 1 /\ b.reps \in Nat
      /\ o \in Nat \ {0} /\ BlockSize \in Nat \ {0}
  BY EngineSizesAssumption DEF SendingBlock, SlotState
<1>4. SendingBlock(b, o)
  BY <1>3 DEF SendingBlock
<1>5. OutcomeOK(w, o, n, 0, packets)
  BY DEF OutcomeOK
<1> HIDE DEF w, b
<1>6. OutcomeOK(v, o, n + 1, 0, R)
  BY <1>1, <1>3, <1>4, <1>5, SendsSource
<1>7. packets' = R /\ R \subseteq (1 .. o) \X (0 .. BlockSize - 1)
  BY <1>2, <1>3
<1>8. \A j \in 0 .. n : <<o, j>> \in R
  BY <1>3
<1>9. Full(b) <=> n + 1 = BlockSize
  BY <1>3 DEF Full
<1>9a. ~Full(b) => u = v
  <2>0. ~Full(b) => b.num < b.K
    BY <1>3 DEF Full
  <2>1. ~Full(b) => SendTail(v, b) = {v}
    BY <2>0 DEF SendTail
  <2> QED  BY <2>1
<1>10. gwStats' \in GwStats
  <2>1. u.sent \in Nat /\ v.sent \in Nat
    <3>1. v.sent \in Nat
      BY <1>6 DEF OutcomeOK
    <3>2. CASE ~Full(b)
      <4>1. u = v
        BY <1>9a, <3>2
      <4> QED  BY <3>1, <4>1
    <3>3. CASE Full(b)
      <4>1. u = v \/ u \in SendRepairs(v, b)
        BY <1>3, <1>9, <3>3 DEF SendTail
      <4>2. \A j \in 0 .. BlockSize - 1 : <<o, j>> \in R
        BY <1>3, <1>8, <1>9, <3>3
      <4>3. u \in SendRepairs(v, b) => OutcomeOK(u, o, n + 1, b.reps, R)
        BY <1>3, <1>4, <1>6, <4>2, SendsRepairs
      <4> QED  BY <3>1, <4>1, <4>3 DEF OutcomeOK
    <3> QED  BY <3>2, <3>3
  <2>2. (IF Full(b) THEN 1 ELSE 0) \in Nat
    OBVIOUS
  <2> QED  BY <1>2, <2>1, <2>2 DEF Intercepted, GwStats
<1>11. CASE ~Full(b)
  <2>1. u = v
    BY <1>9a, <1>11
  <2>2. rr' \in {0, 1} /\ Mid(wire', o, n + 1, 0, packets')
    BY <1>2, <1>6, <1>7, <2>1 DEF OutcomeOK
  <2>3. blocks' = [bs EXCEPT ![i] = b] /\ current' = i /\ blocks'[i] = b
    BY <1>2, <1>11
  <2>4. CurrentIsNewest'
    BY <1>3, <1>4, <1>7, <1>8, <2>3 DEF CurrentIsNewest
  <2>5. Mid(wire', o, BlockSize, MostRepairs, packets')
    <3>1. n + 1 \in Nat /\ n + 1 <= BlockSize /\ 0 <= MostRepairs
          /\ MostRepairs \in Nat
      BY <1>3, MostRepairsBound
    <3> QED  BY <1>3, <2>2, <3>1, MidWeakens
  <2>6. WiresInv'
    BY <1>3, <2>2, <2>3, <2>5 DEF WiresInv
  <2> QED  BY <1>7, <1>10, <2>2, <2>4, <2>6
<1>12. CASE Full(b)
  <2>1. current' = NoBlock
    BY <1>2, <1>12
  <2>2. \A j \in 0 .. BlockSize - 1 : <<o, j>> \in R
    BY <1>3, <1>8, <1>9, <1>12
  <2>3. u = v \/ u \in SendRepairs(v, b)
    BY <1>3, <1>9, <1>12 DEF SendTail
  <2>4. u \in SendRepairs(v, b) => OutcomeOK(u, o, n + 1, b.reps, R)
    BY <1>3, <1>4, <1>6, <2>2, SendsRepairs
  <2>5. rr' \in {0, 1} /\ (\/ Mid(wire', o, n + 1, b.reps, R)
                           \/ Mid(wire', o, n + 1, 0, R))
    BY <1>2, <1>6, <2>3, <2>4 DEF OutcomeOK
  <2>6. /\ n + 1 \in Nat /\ n + 1 <= BlockSize /\ MostRepairs \in Nat
        /\ 0 <= MostRepairs /\ b.reps <= MostRepairs /\ n + 1 = BlockSize
    BY <1>3, <1>9, <1>12, MostRepairsBound
  <2>7. Mid(wire', o, BlockSize, MostRepairs, R)
    BY <1>3, <2>5, <2>6, MidWeakens
  <2>8. CurrentIsNewest' /\ WiresInv'
    BY <1>7, <2>1, <2>7 DEF CurrentIsNewest, WiresInv
  <2> QED  BY <1>7, <1>10, <2>5, <2>8
<1> QED  BY <1>11, <1>12

\* The successor may be taken before or after the remainder.
LEMMA DivMod ==
  ASSUME NEW x \in Nat, NEW M \in Nat \ {0}
  PROVE  /\ x = (M * (x \div M)) + (x % M)
         /\ x % M \in 0 .. M - 1 /\ x \div M \in Nat
  OBVIOUS

LEMMA ModUnique ==
  ASSUME NEW r \in Nat, NEW M \in Nat \ {0}, NEW q \in Nat, r < M
  PROVE  ((M * q) + r) % M = r
  OBVIOUS

LEMMA ModSuccessor ==
  ASSUME NEW x \in Nat, NEW M \in Nat \ {0}
  PROVE  ((x % M) + 1) % M = (x + 1) % M
<1> DEFINE r == x % M
           q == x \div M
<1>1. x = (M * q) + r /\ r \in 0 .. M - 1 /\ q \in Nat
  BY DivMod
<1> HIDE DEF r, q
<1>2. CASE r + 1 < M
  <2>1. x + 1 = (M * q) + (r + 1)
    BY <1>1
  <2>2. (x + 1) % M = r + 1 /\ (r + 1) % M = r + 1
    BY <1>1, <1>2, <2>1, ModUnique
  <2> QED  BY <2>2 DEF r
<1>3. CASE r + 1 = M
  <2>1. x + 1 = (M * (q + 1)) + 0
    BY <1>1, <1>3
  <2>2. (x + 1) % M = 0
    BY <1>1, <1>3, <2>1, ModUnique
  <2>3. (r + 1) % M = 0
    BY <1>1, <1>3
  <2> QED  BY <2>2, <2>3 DEF r
<1> QED  BY <1>1, <1>2, <1>3


LEMMA ContinueBlockSends ==
  ASSUME GateInv, NEW len \in Nat, ContinueBlock(len), running' = running
  PROVE  GateInv'
<1>1. SlotsInv /\ SlotsInv'
  BY ContinueBlockKeeps DEF GateInv
<1>2. /\ current \in Slots /\ current # NoBlock
      /\ blocks \in [Slots -> SlotState]
      /\ blocks[current].num < blocks[current].K
      /\ gwStats.overwritten = 0 /\ origin \in Nat
  BY <1>1, NoBlockIsNoSlot DEF SlotsInv, OnlyCurrentInUse, ContinueBlock, KeepsCurrent
<1> DEFINE b0 == blocks[current]
<1>3. /\ SendingBlock(b0, origin) /\ b0.reps <= MostRepairs
      /\ \A i \in 0 .. b0.num - 1 : <<origin, i>> \in packets
      /\ Mid(wire, origin, b0.num, 0, packets)
  BY <1>2 DEF GateInv, CurrentIsNewest, WiresInv
<1>4. b0.num < BlockSize
  BY <1>2, <1>3 DEF SendingBlock
<1>5. TakePacket(blocks, current, b0, 0) /\ origin' = origin /\ nextId' = nextId
  BY <1>2 DEF ContinueBlock
<1>6. rr \in {0, 1} /\ gwStats \in GwStats
      /\ packets \subseteq (1 .. origin) \X (0 .. BlockSize - 1)
  BY DEF GateInv
<1> HIDE DEF b0
<1>7. /\ rr' \in {0, 1} /\ gwStats' \in GwStats
      /\ packets' \subseteq (1 .. origin) \X (0 .. BlockSize - 1)
      /\ CurrentIsNewest' /\ WiresInv'
  BY <1>2, <1>3, <1>4, <1>5, <1>6, TakePacketSends
<1> QED  BY <1>1, <1>5, <1>7 DEF GateInv

LEMMA StartBlockSends ==
  ASSUME GateInv, NEW len \in Nat, StartBlock(len), running' = running
  PROVE  GateInv'
<1> DEFINE bs == CloseOnLengthChange(len)
           b0 == NewBlock(len)
           o == origin + 1
<1>1. SlotsInv /\ SlotsInv'
  BY StartBlockKeeps DEF GateInv
<1>2. /\ bs \in [Slots -> SlotState]
      /\ \A j \in Slots : ~bs[j].inUse
  BY <1>1, NothingInUseAfterClose DEF StartBlock
<1>3. /\ nextId \in Nat /\ origin \in Nat /\ NewSlot \in Slots
      /\ gwStats.overwritten = 0 /\ nextId = o % IdSpace
  BY <1>1, NewSlotType DEF SlotsInv, OnlyCurrentInUse, GateInv
<1>4. metrics' \in Metrics
  BY <1>1, MetricsType DEF SlotsInv, StartBlock
<1>5. /\ b0 \in SlotState /\ b0.num = 0 /\ b0.origin = o /\ b0.id = nextId
      /\ b0.K = BlockSize /\ b0.reps = DecideRepairs(metrics')
  BY <1>3, <1>4, NewBlockType, BlockSizeNeverAdapts DEF NewBlock
<1>6. SendingBlock(b0, o) /\ b0.reps <= MostRepairs /\ b0.num < BlockSize
  BY <1>3, <1>4, <1>5, MostRepairsBound, EngineSizesAssumption DEF SendingBlock
<1>7. CountOverwrite(bs) = 0
  BY <1>2, <1>3 DEF CountOverwrite
<1>8. /\ TakePacket(bs, NewSlot, b0, 0) /\ origin' = o
      /\ nextId' = (nextId + 1) % IdSpace
  BY <1>7 DEF StartBlock, ConsumeId
<1>9. Mid(wire, o, 0, 0, packets)
  <2>1. Mid(wire, origin, BlockSize, MostRepairs, packets)
    BY DEF GateInv, WiresInv
  <2>2. BlockSize \in Nat /\ MostRepairs \in Nat /\ MostRepairs <= MostRepairs
    BY MostRepairsBound, EngineSizesAssumption
  <2> QED  BY <1>3, <2>1, <2>2, NextBlockMid
<1>10. /\ rr \in {0, 1} /\ gwStats \in GwStats /\ running' \in BOOLEAN
       /\ packets \subseteq (1 .. o) \X (0 .. BlockSize - 1)
  <2>1. packets \subseteq (1 .. origin) \X (0 .. BlockSize - 1)
        /\ rr \in {0, 1} /\ gwStats \in GwStats /\ running \in BOOLEAN
    BY DEF GateInv
  <2>2. 1 .. origin \subseteq 1 .. o
    BY <1>3
  <2> QED  BY <2>1, <2>2
<1>11. o \in Nat
  BY <1>3
<1> HIDE DEF bs, b0
<1>12. /\ rr' \in {0, 1} /\ gwStats' \in GwStats
       /\ packets' \subseteq (1 .. o) \X (0 .. BlockSize - 1)
       /\ CurrentIsNewest' /\ WiresInv'
  <2>1. \A j \in 0 .. b0.num - 1 : <<o, j>> \in packets
    BY <1>5
  <2>2. Mid(wire, o, b0.num, 0, packets)
    BY <1>5, <1>9
  <2> HIDE DEF o
  <2> QED
    BY <1>2, <1>3, <1>6, <1>8, <1>10, <1>11, <2>1, <2>2, TakePacketSends
<1>13. nextId' = (origin' + 1) % IdSpace
  BY <1>3, <1>8, <1>11, ModSuccessor, GatewayAssumption
<1> QED  BY <1>1, <1>8, <1>10, <1>12, <1>13 DEF GateInv

LEMMA FailToOpenSends ==
  ASSUME GateInv, NEW len \in Nat, FailToOpen(len), running' = running
  PROVE  GateInv'
<1>1. SlotsInv /\ SlotsInv'
  BY FailToOpenKeeps DEF GateInv
<1>2. /\ current' = NoBlock /\ rr' = rr /\ wire' = wire /\ packets' = packets
      /\ nextId' = (nextId + 1) % IdSpace /\ origin' = origin + 1
      /\ origin \in Nat
  BY <1>1 DEF FailToOpen, ConsumeId, SlotsInv
<1>3. gwStats' \in GwStats
  <2>1. gwStats \in GwStats
    BY DEF GateInv
  <2>2. CountOverwrite(CloseOnLengthChange(len)) \in Nat
    BY <2>1 DEF CountOverwrite, GwStats
  <2>3. Intercepted(0, 0, 0, CountOverwrite(CloseOnLengthChange(len)))
    BY DEF FailToOpen
  <2> QED  BY <2>1, <2>2, <2>3 DEF Intercepted, GwStats
<1>4. WiresInv'
  <2>1. Mid(wire, origin, BlockSize, MostRepairs, packets)
    BY DEF GateInv, WiresInv
  <2>2. BlockSize \in Nat /\ MostRepairs \in Nat /\ MostRepairs <= MostRepairs
        /\ 0 <= BlockSize /\ 0 <= MostRepairs
    BY MostRepairsBound, EngineSizesAssumption
  <2>3. Mid(wire, origin + 1, 0, 0, packets)
    BY <1>2, <2>1, <2>2, NextBlockMid
  <2>4. Mid(wire, origin + 1, BlockSize, MostRepairs, packets)
    BY <1>2, <2>2, <2>3, MidWeakens
  <2> QED  BY <1>2, <2>4 DEF WiresInv
<1>5. nextId' = (origin' + 1) % IdSpace
  <2>1. nextId = (origin + 1) % IdSpace /\ origin + 1 \in Nat
    BY <1>2 DEF GateInv
  <2> QED  BY <1>2, <2>1, ModSuccessor, GatewayAssumption
<1>6. packets' \subseteq (1 .. origin') \X (0 .. BlockSize - 1)
  BY <1>2 DEF GateInv
<1> QED
  BY <1>1, <1>2, <1>3, <1>4, <1>5, <1>6 DEF GateInv, CurrentIsNewest

LEMMA GateKeeps == GateInv /\ [GwNext]_gwVars => GateInv'
<1> SUFFICES ASSUME GateInv, [GwNext]_gwVars
             PROVE  GateInv'
  OBVIOUS
<1>1. ASSUME NEW len \in Lengths, InterceptPacket(len)
      PROVE  GateInv'
  <2> len \in Nat
    BY GatewayAssumption
  <2>0. running' = running
    BY <1>1 DEF InterceptPacket
  <2>1. CASE IgnorePacket(len)
    <3>1. SlotsInv'
      BY <2>1, IgnorePacketKeeps DEF GateInv
    <3>2. gwStats' \in GwStats
      BY <2>1 DEF GateInv, IgnorePacket, Intercepted, GwStats
    <3> QED
      BY <2>0, <2>1, <3>1, <3>2
      DEF IgnorePacket, GateInv, CurrentIsNewest, WiresInv
  <2>2. CASE FailToOpen(len)
    BY <2>0, <2>2, FailToOpenSends
  <2>3. CASE ContinueBlock(len)
    BY <2>0, <2>3, ContinueBlockSends
  <2>4. CASE StartBlock(len)
    BY <2>0, <2>4, StartBlockSends
  <2> QED  BY <1>1, <2>1, <2>2, <2>3, <2>4 DEF InterceptPacket
<1>2. CASE StopGateway
  <2>1. SlotsInv'
    BY <1>2, StepKeeps DEF GateInv, GwNext
  <2> QED
    BY <1>2, <2>1 DEF StopGateway, GateInv, CurrentIsNewest, WiresInv
<1>3. CASE UNCHANGED gwVars
  <2>1. SlotsInv'
    BY <1>3, StepKeeps DEF GateInv
  <2> QED  BY <1>3, <2>1 DEF gwVars, GateInv, CurrentIsNewest, WiresInv
<1> QED  BY <1>1, <1>2, <1>3 DEF GwNext

LEMMA InitGate == GwInit => GateInv
<1> SUFFICES ASSUME GwInit
             PROVE  GateInv
  OBVIOUS
<1>1. SlotsInv
  BY InitSlots
<1>2. /\ current = NoBlock /\ origin = 0 /\ nextId = 1 % IdSpace
      /\ rr \in {0, 1} /\ running \in BOOLEAN /\ packets = {}
      /\ wire = [p \in Ifaces |-> <<>>]
  BY DEF GwInit
<1>3. gwStats \in GwStats
  BY DEF GwInit, GwStats
<1>4. /\ wire \in [Ifaces -> Seq(GwSymbol)]
      /\ \A p \in Ifaces : Len(wire[p]) = 0
  BY <1>2
<1>5. \A x \in Nat : RepairsIn(wire, x) = {}
  BY <1>4, RepairsInIs
<1>6. Mid(wire, origin, BlockSize, MostRepairs, packets)
  <2>1. Carries(wire, origin, BlockSize, packets) /\ Ordered(wire)
    BY <1>4 DEF Carries, Ordered
  <2>2. FewRepairs(wire, origin, MostRepairs)
    BY <1>5, FS_EmptySet, MostRepairsBound DEF FewRepairs
  <2> QED  BY <2>1, <2>2 DEF Mid
<1>7. nextId = (origin + 1) % IdSpace
  BY <1>2
<1> QED
  BY <1>1, <1>2, <1>3, <1>6, <1>7 DEF GateInv, CurrentIsNewest, WiresInv

-----------------------------------------------------------------------------
(* What the invariant says of the properties                               *)

\* The types of the gateway's state: whatever is on the wires is of a block
\* that was opened, with the configured number of packets, and the history
\* has only packets of opened blocks.
THEOREM GatewayTypes == GwSpec => []GwTypeOK
<1>1. ASSUME GateInv
      PROVE  GwTypeOK
  <2>1. /\ blocks \in [Slots -> SlotState] /\ current \in Slots \cup {NoBlock}
        /\ origin \in Nat /\ metrics \in Metrics /\ rr \in {0, 1}
        /\ running \in BOOLEAN /\ gwStats \in GwStats
    BY <1>1 DEF GateInv, SlotsInv
  <2>2. nextId \in 0 .. IdSpace - 1
    <3>1. nextId = (origin + 1) % IdSpace /\ origin + 1 \in Nat
      BY <1>1, <2>1 DEF GateInv
    <3> QED  BY <3>1, DivMod, GatewayAssumption
  <2>3. ASSUME NEW p \in Ifaces, NEW i \in DOMAIN wire[p]
        PROVE  wire[p][i].origin \in 1 .. origin /\ wire[p][i].k \in 1 .. BlockSize
    <3>1. Carries(wire, origin, BlockSize, packets)
      BY <1>1 DEF GateInv, WiresInv, Mid
    <3>2. i \in 1 .. Len(wire[p])
      BY <3>1 DEF Carries
    <3>3. OnWire(wire[p][i], origin, BlockSize, packets)
      BY <3>1, <3>2 DEF Carries
    <3> QED  BY <3>3, EngineSizesAssumption DEF OnWire
  <2>4. \A p \in packets : p[1] \in 1 .. origin /\ p[2] \in 0 .. BlockSize - 1
    BY <1>1 DEF GateInv
  <2> QED  BY <2>1, <2>2, <2>3, <2>4 DEF GwTypeOK
<1> QED  BY <1>1, InitGate, GateKeeps, PTL DEF GwSpec

\* On each path the blocks leave one after the other, and of each the packets
\* in order and then the repairs, for every mix of policies, lost sends,
\* packet lengths, and failures to open a block or to encode.
THEOREM SymbolsLeaveInOrder == GwSpec => []WireInOrder
<1>1. ASSUME GateInv
      PROVE  WireInOrder
  <2>1. Ordered(wire) /\ wire \in [Ifaces -> Seq(GwSymbol)]
    BY <1>1 DEF GateInv, WiresInv, Mid, Carries
  <2>2. \A p \in Ifaces : DOMAIN wire[p] = 1 .. Len(wire[p])
    BY <2>1
  <2> QED  BY <2>1, <2>2 DEF WireInOrder, Ordered
<1> QED  BY <1>1, InitGate, GateKeeps, PTL DEF GwSpec

\* A repair on the wire is of a block all of whose packets have come, and the
\* number of packets it gives is the number the block had.
THEOREM RepairsProtectFullBlocks == GwSpec => []RepairsForFullBlocks
<1>1. ASSUME GateInv
      PROVE  RepairsForFullBlocks
  <2> SUFFICES ASSUME NEW o \in 1 .. origin, RepairsOf(o) # {}
               PROVE  /\ current # NoBlock => blocks[current].origin # o
                      /\ \A p \in Ifaces : \A i \in DOMAIN wire[p] :
                           wire[p][i].origin = o =>
                             Cardinality({q \in packets : q[1] = o})
                               = wire[p][i].k
    BY DEF RepairsForFullBlocks
  <2>1. RepairsIn(wire, o) # {}
    BY DEF RepairsOf, RepairsIn
  <2>2. /\ Carries(wire, origin, BlockSize, packets) /\ origin \in Nat
        /\ wire \in [Ifaces -> Seq(GwSymbol)] /\ o \in Nat
    BY <1>1 DEF GateInv, SlotsInv, WiresInv, Mid, Carries
  <2>3. ASSUME current # NoBlock
        PROVE  blocks[current].origin # o
    <3>1. FewRepairs(wire, origin, 0)
      BY <1>1, <2>3 DEF GateInv, WiresInv, Mid
    <3>2. RepairsIn(wire, origin) = {}
      BY <2>2, <3>1, NoRepairYet
    <3>3. blocks[current].origin = origin
      BY <1>1, <2>3 DEF GateInv, CurrentIsNewest, SendingBlock
    <3> QED  BY <2>1, <3>2, <3>3
  <2>4. \A j \in 0 .. BlockSize - 1 : <<o, j>> \in packets
    <3>1. PICK x : x \in RepairsIn(wire, o)
      BY <2>1
    <3>2. PICK p \in Ifaces : \E i \in 1 .. Len(wire[p]) :
            x = <<p, i>> /\ ~wire[p][i].src /\ wire[p][i].origin = o
      BY <2>2, <3>1, RepairsInIs
    <3>3. PICK i \in 1 .. Len(wire[p]) :
            ~wire[p][i].src /\ wire[p][i].origin = o
      BY <3>2
    <3>4. OnWire(wire[p][i], origin, BlockSize, packets)
      BY <2>2, <3>3 DEF Carries
    <3> QED  BY <3>3, <3>4 DEF OnWire
  <2>5. {q \in packets : q[1] = o} = {o} \X (0 .. BlockSize - 1)
    <3>1. packets \subseteq (1 .. origin) \X (0 .. BlockSize - 1)
      BY <1>1 DEF GateInv
    <3> QED  BY <2>4, <3>1
  <2>6. Cardinality({o} \X (0 .. BlockSize - 1)) = BlockSize
    <3>1. /\ IsFiniteSet(0 .. BlockSize - 1)
          /\ Cardinality(0 .. BlockSize - 1) = BlockSize
      BY FS_Interval, EngineSizesAssumption
    <3>2. IsFiniteSet({o}) /\ Cardinality({o}) = 1
      BY FS_Singleton
    <3>3. Cardinality({o} \X (0 .. BlockSize - 1))
            = Cardinality({o}) * Cardinality(0 .. BlockSize - 1)
      BY <3>1, <3>2, FS_Product, Zenon
    <3>4. BlockSize \in Nat
      BY EngineSizesAssumption
    <3> QED  BY <3>1, <3>2, <3>3, <3>4
  <2>7. ASSUME NEW p \in Ifaces, NEW i \in DOMAIN wire[p]
        PROVE  wire[p][i].k = BlockSize
    <3>1. i \in 1 .. Len(wire[p])
      BY <2>2
    <3>2. OnWire(wire[p][i], origin, BlockSize, packets)
      BY <2>2, <3>1 DEF Carries
    <3> QED  BY <3>2 DEF OnWire
  <2> QED  BY <2>3, <2>5, <2>6, <2>7
<1> QED  BY <1>1, InitGate, GateKeeps, PTL DEF GwSpec

\* No block ever has more repairs than the Decision Engine's own maximum; that
\* is what was configured under every policy that honours --repairs: all but
\* "quality" with fewer than two and "adaptive" with none.
LEMMA RepairsBounded == GwSpec => [](\A o \in 1 .. origin :
                                       Cardinality(RepairsOf(o)) <= MostRepairs)
<1>1. ASSUME GateInv
      PROVE  \A o \in 1 .. origin : Cardinality(RepairsOf(o)) <= MostRepairs
  <2>1. FewRepairs(wire, origin, MostRepairs)
    BY <1>1 DEF GateInv, WiresInv, Mid
  <2>2. \A o : RepairsOf(o) = RepairsIn(wire, o)
    BY DEF RepairsOf, RepairsIn
  <2>3. 1 .. origin \subseteq Nat
    BY <1>1 DEF GateInv, SlotsInv
  <2> QED  BY <2>1, <2>2, <2>3 DEF FewRepairs
<1> QED  BY <1>1, InitGate, GateKeeps, PTL DEF GwSpec

THEOREM RepairsWithinConfiguration ==
  ASSUME \/ Policy = "default"
         \/ Policy = "adaptive" /\ Repairs >= 1
         \/ Policy = "quality" /\ Repairs >= 2
  PROVE  GwSpec => []WithinConfiguredRepairs
<1>1. MostRepairs = Repairs
  BY RepairBounds, EngineSizesAssumption DEF MostRepairs, MinRepairs, MaxRepairs
<1>2. (\A o \in 1 .. origin : Cardinality(RepairsOf(o)) <= MostRepairs)
        => WithinConfiguredRepairs
  BY <1>1 DEF WithinConfiguredRepairs
<1> QED  BY <1>2, RepairsBounded, PTL

-----------------------------------------------------------------------------
(* What a step of the gateway adds to the wires.                           *)

\* vs is ws with repairs of block o more.
RepairsAdded(vs, ws, o) ==
  \A q \in Ifaces :
    /\ Len(ws[q]) \in Nat /\ Len(vs[q]) \in Nat /\ Len(ws[q]) <= Len(vs[q])
    /\ \A i \in 1 .. Len(ws[q]) : vs[q][i] = ws[q][i]
    /\ \A i \in Len(ws[q]) + 1 .. Len(vs[q]) :
         ~vs[q][i].src /\ vs[q][i].origin = o

\* vs is ws with repairs of block o and at most one ORIG symbol more, that of
\* packet n of block o; Newly is where it is.
Newly(vs, ws, o, n, q, i) ==
  /\ i \in Len(ws[q]) + 1 .. Len(vs[q])
  /\ vs[q][i].src /\ vs[q][i].origin = o /\ vs[q][i].esi = n
Added(vs, ws, o, n) ==
  /\ \A q \in Ifaces :
       /\ Len(ws[q]) \in Nat /\ Len(vs[q]) \in Nat /\ Len(ws[q]) <= Len(vs[q])
       /\ \A i \in 1 .. Len(ws[q]) : vs[q][i] = ws[q][i]
       /\ \A i \in Len(ws[q]) + 1 .. Len(vs[q]) :
            \/ ~vs[q][i].src /\ vs[q][i].origin = o
            \/ Newly(vs, ws, o, n, q, i)
  /\ \A q, r \in Ifaces : \A i \in 1 .. Len(vs[q]) : \A j \in 1 .. Len(vs[r]) :
       Newly(vs, ws, o, n, q, i) /\ Newly(vs, ws, o, n, r, j) => q = r /\ i = j

LEMMA SendsMoreRepairs ==
  ASSUME NEW o \in Nat, NEW w, w.rr \in {0, 1}, w.sent \in Nat,
         w.wire \in [Ifaces -> Seq(GwSymbol)],
         NEW b, SendingBlock(b, o), NEW u \in SendRepairs(w, b)
  PROVE  RepairsAdded(u.wire, w.wire, o)
<1> DEFINE Ok(v) == /\ v.rr \in {0, 1} /\ v.sent \in Nat
                    /\ v.wire \in [Ifaces -> Seq(GwSymbol)]
                    /\ RepairsAdded(v.wire, w.wire, o)
           A == After(w, b)
           M == {m \in Nat : m \in 0 .. b.reps => \A v \in A[m] : Ok(v)}
<1>1. b.reps \in Nat
  BY DEF SendingBlock, SlotState
<1>2. \A m \in 0 .. b.reps : A[m] = AfterStep(A, w, b, m)
  BY <1>1, AfterUnfolds
<1> HIDE DEF A
<1>3. Ok(w)
  <2>1. \A q \in Ifaces : w.wire[q] \in Seq(GwSymbol) /\ Len(w.wire[q]) \in Nat
    OBVIOUS
  <2>2. \A q \in Ifaces : Len(w.wire[q]) + 1 .. Len(w.wire[q]) = {}
    BY <2>1
  <2> QED  BY <2>1, <2>2 DEF RepairsAdded
<1>4. ASSUME NEW x, Ok(x), NEW e \in RepairEsis,
             NEW v \in SendSymbol(x, RepairSymbol(b, e))
      PROVE  Ok(v)
  <2> DEFINE s == RepairSymbol(b, e)
  <2>1. s \in GwSymbol /\ ~s.src /\ s.origin = o
    BY SymbolsOfBlock, GatewayAssumption
  <2> HIDE DEF s
  <2>2. /\ v.rr \in {0, 1} /\ v.sent \in Nat
        /\ \/ v.wire = x.wire
           \/ \E p \in Ifaces : v.wire = Put(x.wire, p, s)
    BY <1>4, <2>1, SendsOne DEF s
  <2>3. CASE v.wire = x.wire
    BY <1>4, <2>2, <2>3
  <2>4. ASSUME NEW p \in Ifaces, v.wire = Put(x.wire, p, s)
        PROVE  Ok(v)
    <3>1. v.wire \in [Ifaces -> Seq(GwSymbol)] /\ Grown(v.wire, x.wire, p, s)
      <4>1. x.wire \in [Ifaces -> Seq(GwSymbol)]
        BY <1>4
      <4>2. /\ Put(x.wire, p, s) \in [Ifaces -> Seq(GwSymbol)]
            /\ Grown(Put(x.wire, p, s), x.wire, p, s)
        BY <2>1, <4>1, WireAppend
      <4> QED  BY <2>4, <4>2
    <3>2. ASSUME NEW q \in Ifaces
          PROVE  /\ Len(v.wire[q]) \in Nat /\ Len(w.wire[q]) \in Nat
                 /\ Len(w.wire[q]) <= Len(v.wire[q])
                 /\ \A i \in 1 .. Len(w.wire[q]) : v.wire[q][i] = w.wire[q][i]
                 /\ \A i \in Len(w.wire[q]) + 1 .. Len(v.wire[q]) :
                      ~v.wire[q][i].src /\ v.wire[q][i].origin = o
      <4>1. /\ Len(w.wire[q]) \in Nat /\ Len(x.wire[q]) \in Nat
            /\ Len(w.wire[q]) <= Len(x.wire[q])
            /\ \A i \in 1 .. Len(w.wire[q]) : x.wire[q][i] = w.wire[q][i]
            /\ \A i \in Len(w.wire[q]) + 1 .. Len(x.wire[q]) :
                 ~x.wire[q][i].src /\ x.wire[q][i].origin = o
        BY <1>4 DEF RepairsAdded
      <4>2. /\ Len(v.wire[q]) = IF q = p THEN Len(x.wire[q]) + 1 ELSE Len(x.wire[q])
            /\ \A i \in 1 .. Len(x.wire[q]) : v.wire[q][i] = x.wire[q][i]
            /\ q = p => v.wire[q][Len(x.wire[q]) + 1] = s
        BY <3>1 DEF Grown
      <4>3. ASSUME NEW i \in Len(w.wire[q]) + 1 .. Len(v.wire[q])
            PROVE  ~v.wire[q][i].src /\ v.wire[q][i].origin = o
        <5>1. CASE i \in 1 .. Len(x.wire[q])
          <6>1. i \in Len(w.wire[q]) + 1 .. Len(x.wire[q])
            BY <4>1, <5>1
          <6> QED  BY <4>1, <4>2, <5>1, <6>1
        <5>2. CASE i \notin 1 .. Len(x.wire[q])
          <6>1. q = p /\ i = Len(x.wire[q]) + 1
            BY <4>1, <4>2, <5>2
          <6> QED  BY <2>1, <4>2, <6>1
        <5> QED  BY <5>1, <5>2
      <4>4. \A i \in 1 .. Len(w.wire[q]) : i \in 1 .. Len(x.wire[q])
        BY <4>1
      <4> QED  BY <4>1, <4>2, <4>3, <4>4
    <3> QED  BY <2>2, <3>1, <3>2 DEF RepairsAdded
  <2> QED  BY <2>2, <2>3, <2>4
<1> HIDE DEF Ok
<1>5. 0 \in M
  <2>1. A[0] = {w}
    BY <1>1, <1>2 DEF AfterStep
  <2> QED  BY <1>3, <2>1
<1>6. ASSUME NEW m \in Nat, m \in M
      PROVE  m + 1 \in M
  <2>0. m + 1 \in Nat
    OBVIOUS
  <2> SUFFICES ASSUME m + 1 \in 0 .. b.reps, NEW v \in A[m + 1]
               PROVE  Ok(v)
    BY <2>0
  <2>1. m \in 0 .. b.reps /\ m + 1 # 0 /\ (m + 1) - 1 = m
    BY <1>1
  <2>2. A[m + 1] = SendAll(A[m], b)
    BY <1>2, <2>1 DEF AfterStep
  <2>3. PICK x \in A[m], e \in RepairEsis :
          v \in SendSymbol(x, RepairSymbol(b, e))
    BY <2>2 DEF SendAll
  <2>4. Ok(x)
    BY <1>6, <2>1
  <2> QED  BY <1>4, <2>3, <2>4
<1>7. Nat \subseteq M
  <2> HIDE DEF M
  <2> QED  BY <1>5, <1>6, NatSetInduction
<1>8. u \in A[b.reps]
  BY SendRepairsIsAfter DEF A
<1> QED  BY <1>1, <1>7, <1>8 DEF Ok

\* An ORIG symbol and then repairs.
LEMMA AddedInTwo ==
  ASSUME NEW o, NEW n, NEW ws \in [Ifaces -> Seq(GwSymbol)], NEW s \in GwSymbol,
         s.src, s.origin = o, s.esi = n, NEW xs,
         xs = ws \/ \E p \in Ifaces : xs = Put(ws, p, s),
         NEW vs, RepairsAdded(vs, xs, o)
  PROVE  Added(vs, ws, o, n)
<1>1. PICK p : IF p \in Ifaces THEN xs = Put(ws, p, s) ELSE xs = ws
  <2>1. CASE xs = ws
    <3>1. "none" \notin Ifaces
      BY DEF Ifaces
    <3> QED  BY <2>1, <3>1
  <2>2. CASE xs # ws
    BY <2>2
  <2> QED  BY <2>1, <2>2
<1>2. ASSUME NEW q \in Ifaces
      PROVE  /\ Len(ws[q]) \in Nat
             /\ Len(xs[q]) = IF q = p THEN Len(ws[q]) + 1 ELSE Len(ws[q])
             /\ \A i \in 1 .. Len(ws[q]) : xs[q][i] = ws[q][i]
             /\ q = p => xs[q][Len(ws[q]) + 1] = s
  <2>1. CASE p \in Ifaces
    <3>1. Grown(xs, ws, p, s)
      BY <1>1, <2>1, WireAppend
    <3> QED  BY <3>1 DEF Grown
  <2>2. CASE p \notin Ifaces
    <3>1. xs = ws /\ q # p
      BY <1>1, <2>2
    <3>2. ws[q] \in Seq(GwSymbol)
      OBVIOUS
    <3> QED  BY <3>1, <3>2
  <2> QED  BY <2>1, <2>2
<1>3. ASSUME NEW q \in Ifaces
      PROVE  /\ Len(xs[q]) \in Nat /\ Len(vs[q]) \in Nat /\ Len(xs[q]) <= Len(vs[q])
             /\ \A i \in 1 .. Len(xs[q]) : vs[q][i] = xs[q][i]
             /\ \A i \in Len(xs[q]) + 1 .. Len(vs[q]) :
                  ~vs[q][i].src /\ vs[q][i].origin = o
  BY DEF RepairsAdded
<1>4. ASSUME NEW q \in Ifaces, NEW i \in Len(ws[q]) + 1 .. Len(vs[q])
      PROVE  \/ ~vs[q][i].src /\ vs[q][i].origin = o
             \/ q = p /\ i = Len(ws[q]) + 1 /\ vs[q][i] = s
  <2>1. CASE i \in Len(xs[q]) + 1 .. Len(vs[q])
    BY <1>3, <2>1
  <2>2. CASE i \notin Len(xs[q]) + 1 .. Len(vs[q])
    <3>1. q = p /\ i = Len(ws[q]) + 1 /\ i \in 1 .. Len(xs[q])
      BY <1>2, <1>3, <2>2
    <3> QED  BY <1>2, <1>3, <3>1
  <2> QED  BY <2>1, <2>2
<1>5. ASSUME NEW q \in Ifaces
      PROVE  /\ Len(ws[q]) \in Nat /\ Len(vs[q]) \in Nat /\ Len(ws[q]) <= Len(vs[q])
             /\ \A i \in 1 .. Len(ws[q]) : vs[q][i] = ws[q][i]
             /\ \A i \in Len(ws[q]) + 1 .. Len(vs[q]) :
                  \/ ~vs[q][i].src /\ vs[q][i].origin = o
                  \/ Newly(vs, ws, o, n, q, i)
  <2>1. Len(ws[q]) \in Nat /\ Len(vs[q]) \in Nat /\ Len(ws[q]) <= Len(vs[q])
        /\ \A i \in 1 .. Len(ws[q]) : i \in 1 .. Len(xs[q])
    BY <1>2, <1>3
  <2>2. \A i \in 1 .. Len(ws[q]) : vs[q][i] = ws[q][i]
    BY <1>2, <1>3, <2>1
  <2> QED  BY <1>4, <2>1, <2>2 DEF Newly
<1>6. ASSUME NEW q \in Ifaces, NEW i, Newly(vs, ws, o, n, q, i)
      PROVE  q = p /\ i = Len(ws[p]) + 1
  BY <1>4, <1>6 DEF Newly
<1> QED  BY <1>5, <1>6 DEF Added

\* The current block has had no packet past the next one.
CurrentTaken ==
  \A q \in packets :
    current # NoBlock /\ q[1] = origin => q[2] < blocks[current].num

\* A packet of block o is taken for the first time and its symbols are sent.
Takes(o) ==
  \E n \in 0 .. BlockSize - 1 :
    /\ <<o, n>> \notin packets /\ packets' = packets \cup {<<o, n>>}
    /\ Added(wire', wire, o, n)

LEMMA TakePacketAdds ==
  ASSUME NEW bs \in [Slots -> SlotState], NEW i \in Slots, NEW o \in Nat, NEW b0,
         NEW over, SendingBlock(b0, o), b0.num < BlockSize, rr \in {0, 1},
         wire \in [Ifaces -> Seq(GwSymbol)],
         \A q \in packets : q[1] = o => q[2] \in Nat /\ q[2] < b0.num,
         TakePacket(bs, i, b0, over), origin' = o
  PROVE  Takes(o) /\ CurrentTaken'
<1> DEFINE b == [b0 EXCEPT !.num = @ + 1]
           w == [wire |-> wire, rr |-> rr, sent |-> 0]
           n == b0.num
<1>1. PICK v \in SendSymbol(w, SourceSymbol(b, n)) :
           \E u \in SendTail(v, b) :
             /\ wire' = u.wire
             /\ packets' = packets \cup {<<b.origin, n>>}
             /\ blocks' = [bs EXCEPT ![i] = IF Full(b) THEN FreeSlot ELSE b]
             /\ current' = IF Full(b) THEN NoBlock ELSE i
  BY DEF TakePacket
<1>2. PICK u \in SendTail(v, b) :
             /\ wire' = u.wire
             /\ packets' = packets \cup {<<b.origin, n>>}
             /\ blocks' = [bs EXCEPT ![i] = IF Full(b) THEN FreeSlot ELSE b]
             /\ current' = IF Full(b) THEN NoBlock ELSE i
  BY <1>1
<1>3. /\ b \in SlotState /\ b.origin = o /\ b.K = BlockSize
      /\ b.id = o % IdSpace /\ b.num = n + 1
      /\ n \in Nat /\ n \in 0 .. BlockSize - 1
      /\ o \in Nat \ {0} /\ BlockSize \in Nat \ {0}
  <2>1. /\ b0 \in SlotState /\ b0.origin = o /\ b0.K = BlockSize
        /\ b0.id = o % IdSpace /\ o \in Nat \ {0} /\ BlockSize \in Nat \ {0}
    BY EngineSizesAssumption DEF SendingBlock
  <2>2. n \in Nat
    BY <2>1 DEF SlotState
  <2>3. n \in 0 .. BlockSize - 1
    BY <2>1, <2>2
  <2>4. /\ b \in SlotState /\ b.origin = o /\ b.K = BlockSize
        /\ b.id = b0.id /\ b.num = n + 1
    <3>1. n + 1 \in Nat
      BY <2>2
    <3>2. b = [b0 EXCEPT !.num = n + 1]
      OBVIOUS
    <3> HIDE DEF b, n
    <3>3. \A m \in Nat : /\ [b0 EXCEPT !.num = m] \in SlotState
                         /\ [b0 EXCEPT !.num = m].origin = b0.origin
                         /\ [b0 EXCEPT !.num = m].K = b0.K
                         /\ [b0 EXCEPT !.num = m].id = b0.id
                         /\ [b0 EXCEPT !.num = m].num = m
      BY <2>1 DEF SlotState
    <3> QED  BY <2>1, <3>1, <3>2, <3>3
  <2> QED  BY <2>1, <2>2, <2>3, <2>4
<1>4. SendingBlock(b, o)
  BY <1>3 DEF SendingBlock
<1>5. w.rr \in {0, 1} /\ w.sent \in Nat /\ w.wire = wire
  OBVIOUS
<1> HIDE DEF w, b
<1> DEFINE s == SourceSymbol(b, n)
<1>6. s \in GwSymbol /\ s.src /\ s.origin = o /\ s.esi = n
  BY <1>3, <1>4, SymbolsOfBlock
<1>7. /\ v.rr \in {0, 1} /\ v.sent \in Nat
      /\ v.wire = wire \/ \E p \in Ifaces : v.wire = Put(wire, p, s)
  BY <1>1, <1>5, <1>6, SendsOne
<1> HIDE DEF s
<1>8. v.wire \in [Ifaces -> Seq(GwSymbol)]
  BY <1>6, <1>7, WireAppend
<1>9. RepairsAdded(u.wire, v.wire, o)
  <2>1. CASE u = v
    <3>1. \A q \in Ifaces : v.wire[q] \in Seq(GwSymbol) /\ Len(v.wire[q]) \in Nat
      BY <1>8
    <3>2. \A q \in Ifaces : Len(v.wire[q]) + 1 .. Len(v.wire[q]) = {}
      BY <3>1
    <3> QED  BY <2>1, <3>1, <3>2 DEF RepairsAdded
  <2>2. CASE u \in SendRepairs(v, b)
    BY <1>3, <1>4, <1>7, <1>8, <2>2, SendsMoreRepairs
  <2>3. u = v \/ u \in SendRepairs(v, b)
    BY <1>2 DEF SendTail
  <2> QED  BY <2>1, <2>2, <2>3
<1>10. Added(wire', wire, o, n)
  <2>1. Added(u.wire, wire, o, n)
    BY <1>6, <1>7, <1>9, AddedInTwo
  <2> QED  BY <1>2, <2>1
<1>11. packets' = packets \cup {<<o, n>>}
  BY <1>2, <1>3
<1>12. <<o, n>> \notin packets
  <2> SUFFICES ASSUME <<o, n>> \in packets
               PROVE  FALSE
    OBVIOUS
  <2>1. PICK q \in packets : q = <<o, n>>
    OBVIOUS
  <2>2. q[1] = o /\ q[2] = n
    BY <2>1
  <2> QED  BY <1>3, <2>2
<1>13. Takes(o)
  BY <1>3, <1>10, <1>11, <1>12 DEF Takes
<1>14. CurrentTaken'
  <2> SUFFICES ASSUME NEW q \in packets', current' # NoBlock, q[1] = o
               PROVE  q[2] < blocks'[current'].num
    BY DEF CurrentTaken
  <2>1. current' = i /\ blocks'[i].num = n + 1
    BY <1>2, <1>3
  <2>2. q \in packets => q[2] \in Nat /\ q[2] < n
    OBVIOUS
  <2>3. q \notin packets => q[2] = n
    BY <1>11
  <2> QED  BY <1>3, <2>1, <2>2, <2>3
<1> QED  BY <1>13, <1>14

LEMMA GateAdds ==
  ASSUME GateInv, CurrentTaken, [GwNext]_gwVars
  PROVE  /\ CurrentTaken'
         /\ (UNCHANGED <<wire, packets>>) \/ Takes(origin')
<1>0. /\ origin \in Nat /\ SlotsInv /\ rr \in {0, 1}
      /\ wire \in [Ifaces -> Seq(GwSymbol)]
      /\ packets \subseteq (1 .. origin) \X (0 .. BlockSize - 1)
  BY DEF GateInv, SlotsInv, WiresInv, Mid, Carries
<1>1. ASSUME NEW len \in Nat, ContinueBlock(len)
      PROVE  CurrentTaken' /\ Takes(origin')
  <2>1. /\ current \in Slots /\ current # NoBlock
        /\ blocks \in [Slots -> SlotState]
        /\ blocks[current].num < blocks[current].K
    BY <1>0, <1>1, NoBlockIsNoSlot DEF SlotsInv, OnlyCurrentInUse, ContinueBlock, KeepsCurrent
  <2> DEFINE b0 == blocks[current]
  <2>2. SendingBlock(b0, origin)
    BY <2>1 DEF GateInv, CurrentIsNewest
  <2>3. b0.num < BlockSize
    BY <2>1, <2>2 DEF SendingBlock
  <2>4. TakePacket(blocks, current, b0, gwStats.overwritten) /\ origin' = origin
    BY <1>1 DEF ContinueBlock
  <2>5. \A q \in packets : q[1] = origin => q[2] \in Nat /\ q[2] < b0.num
    <3>1. BlockSize \in Nat
      BY EngineSizesAssumption
    <3>2. \A q \in packets : q[2] \in 0 .. BlockSize - 1
      BY <1>0
    <3>3. \A q \in packets : q[2] \in Nat
      BY <3>1, <3>2
    <3> QED  BY <2>1, <3>3 DEF CurrentTaken
  <2> HIDE DEF b0
  <2> QED  BY <1>0, <2>1, <2>2, <2>3, <2>4, <2>5, TakePacketAdds
<1>2. ASSUME NEW len \in Nat, StartBlock(len)
      PROVE  CurrentTaken' /\ Takes(origin')
  <2> DEFINE bs == CloseOnLengthChange(len)
             b0 == NewBlock(len)
             o == origin + 1
  <2>1. bs \in [Slots -> SlotState]
    BY <1>0, <1>2, NothingInUseAfterClose DEF StartBlock
  <2>2. nextId \in Nat /\ NewSlot \in Slots /\ nextId = o % IdSpace /\ o \in Nat \ {0}
    BY <1>0, NewSlotType DEF SlotsInv, GateInv
  <2>3. metrics' \in Metrics
    BY <1>0, <1>2, MetricsType DEF SlotsInv, StartBlock
  <2>4. /\ b0 \in SlotState /\ b0.num = 0 /\ b0.origin = o /\ b0.id = nextId
        /\ b0.K = BlockSize
    BY <1>0, <2>2, <2>3, NewBlockType, BlockSizeNeverAdapts DEF NewBlock
  <2>5. SendingBlock(b0, o) /\ b0.num < BlockSize
    BY <2>2, <2>4, EngineSizesAssumption DEF SendingBlock
  <2>6. TakePacket(bs, NewSlot, b0, CountOverwrite(bs)) /\ origin' = o
    BY <1>2 DEF StartBlock, ConsumeId
  <2>7. \A q \in packets : q[1] # o
    <3>1. \A q \in packets : q[1] \in 1 .. origin
      BY <1>0
    <3> QED  BY <1>0, <3>1
  <2> HIDE DEF b0, bs
  <2>8. Takes(o) /\ CurrentTaken'
    <3> HIDE DEF o
    <3> QED  BY <1>0, <2>1, <2>2, <2>5, <2>6, <2>7, TakePacketAdds
  <2> QED  BY <2>6, <2>8
<1>3. ASSUME NEW len \in Nat, FailToOpen(len)
      PROVE  CurrentTaken' /\ UNCHANGED <<wire, packets>>
  BY <1>3 DEF FailToOpen, CurrentTaken
<1>4. ASSUME NEW len \in Nat, IgnorePacket(len)
      PROVE  CurrentTaken' /\ UNCHANGED <<wire, packets>>
  BY <1>4 DEF IgnorePacket, CurrentTaken
<1>5. CASE StopGateway \/ UNCHANGED gwVars
  BY <1>5 DEF StopGateway, gwVars, CurrentTaken
<1>6. ASSUME NEW len \in Lengths, InterceptPacket(len)
      PROVE  CurrentTaken' /\ ((UNCHANGED <<wire, packets>>) \/ Takes(origin'))
  <2>1. len \in Nat
    BY GatewayAssumption
  <2> QED  BY <1>1, <1>2, <1>3, <1>4, <1>6, <2>1 DEF InterceptPacket
<1> QED  BY <1>5, <1>6 DEF GwNext
=============================================================================
