--------------------------- MODULE RqSystemProofs ---------------------------
(***************************************************************************)
(* Theorems about the RaptorQ data path, for every size of the blocks, of  *)
(* the tables and of the id space, and for every loss, duplication and     *)
(* interleaving of the two paths.  What the gateway and the receiver       *)
(* preserve is taken from RqGatewayProofs and RqReceiverProofs.            *)
(***************************************************************************)
EXTENDS RqSystem, RqGatewayProofs

\* The receiver of the data path, with what is proved about it.
RxP == INSTANCE RqReceiverProofs WITH
         Symbols <- AllSymbols, BlockSize <- RxBlockSize,
         Duplication <- MaxDups > 0, SendOutcomes <- RxSendOutcomes,
         MaxArrivals <- MaxIntercepts

LEMMA RxAssumptions ==
  /\ AllSymbols \subseteq RxP!Symbol
  /\ /\ RxBlockSize \in Nat \ {0} /\ MaxBlocks \in Nat \ {0}
     /\ MaxSyms \in Nat /\ RxBlockSize <= MaxSyms /\ MaxIntercepts \in Nat
  /\ /\ (MaxDups > 0) \in BOOLEAN /\ RxSendOutcomes \subseteq BOOLEAN
     /\ DecodeOutcomes \subseteq BOOLEAN /\ InitOutcomes \subseteq BOOLEAN
<1>1. /\ 1 .. MaxIntercepts \subseteq Nat /\ 0 .. IdSpace - 1 \subseteq Nat
      /\ {BlockSize} \subseteq Nat /\ 0 .. BlockSize - 1 \subseteq Nat
      /\ RepairEsis \subseteq Nat
  BY GatewayAssumption, EngineSizesAssumption
<1>2. AllSymbols \subseteq RxP!Symbol
  BY <1>1 DEF AllSymbols, RxP!Symbol
<1> QED  BY <1>2, SystemAssumption, GatewayAssumption

-----------------------------------------------------------------------------
(* The receiver the system is composed of is the one of RqReceiverProofs:  *)
(* the operators of the two instances agree.                               *)

LEMMA SameCardinality ==
  /\ \A S : Rx!Cardinality(S) = RxP!Cardinality(S)
  /\ \A S : Cardinality(S) = RxP!Cardinality(S)
  BY DEF Rx!Cardinality, RxP!Cardinality, Cardinality

LEMMA SameHelpers ==
  /\ \A id : Rx!IsBlockCompleted(id) <=> RxP!IsBlockCompleted(id)
  /\ \A b, e : Rx!HasEsi(b, e) <=> RxP!HasEsi(b, e)
  /\ \A b, s : Rx!StoreSymbol(b, s) = RxP!StoreSymbol(b, s)
  /\ \A s : Rx!CountFragment(s) = RxP!CountFragment(s)
  /\ \A b : Rx!CanDecode(b) <=> RxP!CanDecode(b)
  /\ \A b : Rx!AllForwarded(b) <=> RxP!AllForwarded(b)
  /\ \A b : Rx!Consumed(b) = RxP!Consumed(b)
  /\ \A id : Rx!Slot(id) = RxP!Slot(id)
  /\ \A b, o : Rx!DecodesTo(b, o) <=> RxP!DecodesTo(b, o)
  BY SameCardinality DEF Rx!IsBlockCompleted, RxP!IsBlockCompleted, Rx!HasEsi, RxP!HasEsi,
     Rx!StoreSymbol, RxP!StoreSymbol, Rx!CountFragment, RxP!CountFragment,
     Rx!CanDecode, RxP!CanDecode, Rx!AllForwarded, RxP!AllForwarded,
     Rx!Consumed, RxP!Consumed, Rx!Slot, RxP!Slot, Rx!DecodesTo, RxP!DecodesTo

LEMMA SameOpened == \A s, ok : Rx!Opened(s, ok) = RxP!Opened(s, ok)
  BY DEF Rx!Opened, RxP!Opened, Rx!GetBlock, RxP!GetBlock, Rx!FreeBlock,
     RxP!FreeBlock, Rx!Slot, RxP!Slot, Rx!InitDecoder, RxP!InitDecoder

LEMMA SameForwardSource ==
  \A b, s, ok : Rx!ForwardSource(b, s, ok) = RxP!ForwardSource(b, s, ok)
  BY DEF Rx!ForwardSource, RxP!ForwardSource

LEMMA SameDecoded == \A b, x : Rx!Decoded(b, x) = RxP!Decoded(b, x)
  BY SameCardinality DEF Rx!Decoded, RxP!Decoded

LEMMA SameSendResults == \A x : Rx!SendResults(x) = RxP!SendResults(x)
  BY DEF Rx!SendResults, RxP!SendResults

LEMMA SamePassesDiscard == \A b, s : Rx!PassesDiscard(b, s) <=> RxP!PassesDiscard(b, s)
  BY SameHelpers DEF Rx!PassesDiscard, RxP!PassesDiscard

LEMMA SameFinish == \A b, c : Rx!Finish(b, c) <=> RxP!Finish(b, c)
  BY DEF Rx!Finish, RxP!Finish, Rx!FinalizeBlock, RxP!FinalizeBlock,
     Rx!AllForwarded, RxP!AllForwarded, Rx!MarkBlockCompleted,
     RxP!MarkBlockCompleted, Rx!FreeBlock, RxP!FreeBlock, Rx!Slot, RxP!Slot

LEMMA SameLeaving ==
  /\ Rx!Packets = RxP!Packets /\ Rx!Origins = RxP!Origins
  /\ \A b, x : Rx!DecodedPackets(b, x) = RxP!DecodedPackets(b, x)
  /\ \A x : Rx!CountCopies(x) <=> RxP!CountCopies(x)
  BY DEF Rx!Packets, RxP!Packets, Rx!Origins, RxP!Origins, Rx!DecodedPackets,
     RxP!DecodedPackets, Rx!DecodesTo, RxP!DecodesTo, Rx!CountCopies, RxP!CountCopies

LEMMA SameTryDecode == \A b : Rx!TryDecode(b) = RxP!TryDecode(b)
<1> SUFFICES ASSUME NEW b
             PROVE  Rx!TryDecode(b) = RxP!TryDecode(b)
  OBVIOUS
<1> DEFINE X == IF TRUE \in DecodeOutcomes
                THEN Rx!SendResults((0 .. b.K - 1) \ b.fwd) ELSE {}
<1>1. X = IF TRUE \in DecodeOutcomes
                THEN RxP!SendResults((0 .. b.K - 1) \ b.fwd) ELSE {}
  BY SameSendResults
<1>2. {Rx!Decoded(b, x) : x \in X} = {RxP!Decoded(b, x) : x \in X}
  BY SameDecoded
<1> QED  BY <1>1, <1>2, SameHelpers DEF Rx!TryDecode, RxP!TryDecode

LEMMA SameHandler ==
  ASSUME NEW s, Rx!HandleRqSymbol(s)
  PROVE  RxP!HandleRqSymbol(s)
<1>1. CASE Rx!DropMalformed(s)
  BY <1>1, SameHelpers DEF Rx!DropMalformed, RxP!DropMalformed, RxP!HandleRqSymbol
<1>2. CASE Rx!StoreLate(s)
  <2>1. PICK ok \in InitOutcomes :
          /\ ~Rx!PassesDiscard(Rx!Opened(s, ok), s)
          /\ slots' = [slots EXCEPT ![Rx!Slot(s.id)] = Rx!StoreSymbol(Rx!Opened(s, ok), s)]
    BY <1>2 DEF Rx!StoreLate
  <2>2. /\ ~RxP!PassesDiscard(RxP!Opened(s, ok), s)
        /\ slots' = [slots EXCEPT ![RxP!Slot(s.id)] = RxP!StoreSymbol(RxP!Opened(s, ok), s)]
    BY <2>1, SameHelpers, SameOpened, SamePassesDiscard
  <2> QED  BY <1>2, <2>2, SameHelpers DEF Rx!StoreLate, RxP!StoreLate, RxP!HandleRqSymbol
<1>3. CASE Rx!Process(s)
  <2>1. PICK initOk \in InitOutcomes, sendOk \in RxSendOutcomes :
          Rx!Process(s)!2!(initOk, sendOk)
    BY <1>3 DEF Rx!Process
  <2> DEFINE b0 == Rx!Opened(s, initOk)
             b1 == IF Rx!HasEsi(b0, s.esi) THEN b0 ELSE Rx!StoreSymbol(b0, s)
             b2 == Rx!ForwardSource(b1, s, sendOk)
             orig == IF b2.fwd # b1.fwd THEN {<<s.origin, s.esi>>} ELSE {}
             used(b3) == IF b3.decoded /\ ~b2.decoded THEN Rx!Consumed(b2) ELSE 0
  <2>2. /\ Rx!PassesDiscard(b0, s)
        /\ \E b3 \in Rx!TryDecode(b2) :
          /\ Rx!Finish(b3, [Rx!CountFragment(s) EXCEPT !.consumed = @ + used(b3)])
          /\ Rx!CountCopies(orig \cup Rx!DecodedPackets(b2, b3.fwd \ b2.fwd))
          /\ garbled' = (garbled \/ \E i \in b3.fwd \ b2.fwd :
                           \A o \in Rx!Origins : ~Rx!DecodesTo(b2, o))
    BY <2>1
  <2>3. /\ b0 = RxP!Opened(s, initOk)
        /\ b1 = IF RxP!HasEsi(b0, s.esi) THEN b0 ELSE RxP!StoreSymbol(b0, s)
        /\ b2 = RxP!ForwardSource(b1, s, sendOk)
        /\ \A b3 : used(b3) = IF b3.decoded /\ ~b2.decoded THEN RxP!Consumed(b2) ELSE 0
    BY SameHelpers, SameOpened, SameForwardSource
  <2> HIDE DEF b0, b1, b2, used
  <2>4. PICK b3 \in Rx!TryDecode(b2) : <2>2!2!(b3)
    BY <2>2
  <2> DEFINE c == [Rx!CountFragment(s) EXCEPT !.consumed = @ + used(b3)]
  <2>5. c = [RxP!CountFragment(s) EXCEPT !.consumed = @ + used(b3)]
    BY SameHelpers
  <2>6. Rx!Finish(b3, c)
    BY <2>4
  <2> HIDE DEF c
  <2>7. /\ RxP!PassesDiscard(b0, s)
        /\ b3 \in RxP!TryDecode(b2)
        /\ RxP!Finish(b3, c)
        /\ RxP!CountCopies(orig \cup RxP!DecodedPackets(b2, b3.fwd \ b2.fwd))
        /\ garbled' = (garbled \/ \E i \in b3.fwd \ b2.fwd :
                         \A o \in RxP!Origins : ~RxP!DecodesTo(b2, o))
    <3> HIDE DEF orig
    <3> QED
      BY <2>2, <2>4, <2>6, SameFinish, SameLeaving, SameHelpers, SamePassesDiscard, SameTryDecode
  <2>8. s.fits /\ arrived' = arrived \cup {s}
    BY <1>3 DEF Rx!Process
  <2> QED  BY <2>3, <2>5, <2>7, <2>8 DEF orig, RxP!Process, RxP!HandleRqSymbol
<1> QED  BY <1>1, <1>2, <1>3 DEF Rx!HandleRqSymbol

-----------------------------------------------------------------------------
(* One symbol less on a path                                               *)

Shortened(vs, ws, p) ==
  \A q \in Ifaces :
    /\ Len(ws[q]) \in Nat /\ Len(vs[q]) \in Nat
    /\ Len(ws[q]) = IF q = p THEN Len(vs[q]) + 1 ELSE Len(vs[q])
    /\ \A i \in 1 .. Len(vs[q]) :
         vs[q][i] = IF q = p THEN ws[q][i + 1] ELSE ws[q][i]

LEMMA WireTail ==
  ASSUME NEW ws \in [Ifaces -> Seq(GwSymbol)], NEW p \in Ifaces, ws[p] # <<>>
  PROVE  /\ [ws EXCEPT ![p] = Tail(@)] \in [Ifaces -> Seq(GwSymbol)]
         /\ Shortened([ws EXCEPT ![p] = Tail(@)], ws, p)
         /\ Head(ws[p]) = ws[p][1] /\ 1 \in 1 .. Len(ws[p])
<1> DEFINE vs == [ws EXCEPT ![p] = Tail(@)]
<1>1. ws[p] \in Seq(GwSymbol) /\ vs[p] = Tail(ws[p])
  OBVIOUS
<1>2. /\ Tail(ws[p]) \in Seq(GwSymbol)
      /\ Len(ws[p]) \in Nat /\ Len(Tail(ws[p])) = Len(ws[p]) - 1
      /\ Len(ws[p]) >= 1
      /\ \A i \in 1 .. Len(Tail(ws[p])) : Tail(ws[p])[i] = ws[p][i + 1]
      /\ Head(ws[p]) = ws[p][1]
  BY <1>1
<1>3. ASSUME NEW q \in Ifaces, q # p
      PROVE  vs[q] = ws[q] /\ ws[q] \in Seq(GwSymbol) /\ Len(ws[q]) \in Nat
  BY <1>3
<1>4. vs \in [Ifaces -> Seq(GwSymbol)]
  BY <1>2
<1> HIDE DEF vs
<1>5. Shortened(vs, ws, p)
  BY <1>1, <1>2, <1>3 DEF Shortened
<1> QED  BY <1>2, <1>4, <1>5 DEF vs

\* With the oldest symbol of a path go the repairs it is, and no others.
LEMMA FewerRepairs ==
  ASSUME NEW ws \in [Ifaces -> Seq(GwSymbol)], NEW vs \in [Ifaces -> Seq(GwSymbol)],
         NEW p, Shortened(vs, ws, p), NEW o, IsFiniteSet(RepairsIn(ws, o))
  PROVE  /\ IsFiniteSet(RepairsIn(vs, o))
         /\ Cardinality(RepairsIn(vs, o)) <= Cardinality(RepairsIn(ws, o))
         /\ <<p, 1>> \in RepairsIn(ws, o) =>
              Cardinality(RepairsIn(vs, o)) + 1 <= Cardinality(RepairsIn(ws, o))
<1> DEFINE S == RepairsIn(vs, o)
           T == RepairsIn(ws, o)
           U == T \ {<<p, 1>>}
           f == [x \in S |-> <<x[1], IF x[1] = p THEN x[2] + 1 ELSE x[2]>>]
<1>1. ASSUME NEW x \in S
      PROVE  /\ x[1] \in Ifaces /\ x[2] \in 1 .. Len(vs[x[1]]) /\ x = <<x[1], x[2]>>
             /\ f[x] \in U
  <2>0. PICK q \in Ifaces : \E i \in 1 .. Len(vs[q]) :
          x = <<q, i>> /\ ~vs[q][i].src /\ vs[q][i].origin = o
    BY <1>1, RepairsInIs
  <2>1. PICK i \in 1 .. Len(vs[q]) :
          x = <<q, i>> /\ ~vs[q][i].src /\ vs[q][i].origin = o
    BY <2>0
  <2> DEFINE j == IF q = p THEN i + 1 ELSE i
  <2>2. j \in 1 .. Len(ws[q]) /\ vs[q][i] = ws[q][j] /\ (q = p => j # 1)
    BY DEF Shortened
  <2>3. <<q, j>> \in U
    <3>1. <<q, j>> \in T
      BY <2>1, <2>2, RepairsInIs
    <3> QED  BY <2>2, <3>1
  <2>4. f[x] = <<q, j>>
    BY <2>1
  <2> QED  BY <2>1, <2>3, <2>4
<1>2. f \in [S -> U]
  BY <1>1
<1>3. ASSUME NEW x \in S, NEW y \in S, f[x] = f[y]
      PROVE  x = y
  <2>1. /\ x[1] = y[1]
        /\ (IF x[1] = p THEN x[2] + 1 ELSE x[2]) = (IF y[1] = p THEN y[2] + 1 ELSE y[2])
    BY <1>3
  <2>2. x[2] \in Int /\ y[2] \in Int
    <3>1. x[2] \in 1 .. Len(vs[x[1]]) /\ y[2] \in 1 .. Len(vs[y[1]])
      BY <1>1
    <3> QED  BY <3>1
  <2>3. x[2] = y[2]
    BY <2>1, <2>2
  <2> QED  BY <1>1, <2>1, <2>3
<1>4. f \in Injection(S, U)
  <2> HIDE DEF f, S, U
  <2> QED  BY <1>2, <1>3 DEF Injection, IsInjective
<1>5. /\ IsFiniteSet(U) /\ Cardinality(T) \in Nat
      /\ Cardinality(U) = IF <<p, 1>> \in T THEN Cardinality(T) - 1 ELSE Cardinality(T)
  BY FS_RemoveElement, FS_CardinalityType
<1> HIDE DEF f, S, T, U
<1>6. IsFiniteSet(S) /\ Cardinality(S) <= Cardinality(U)
  BY <1>4, <1>5, FS_Injection
<1>7. Cardinality(S) \in Nat
  BY <1>6, FS_CardinalityType
<1> QED  BY <1>5, <1>6, <1>7 DEF S, T

LEMMA TakenMid ==
  ASSUME NEW ws, NEW p \in Ifaces, ws[p] # <<>>, NEW o \in Nat, NEW n, NEW P,
         NEW c \in Nat, Mid(ws, o, n, c, P)
  PROVE  Mid([ws EXCEPT ![p] = Tail(@)], o, n, c, P)
<1> DEFINE vs == [ws EXCEPT ![p] = Tail(@)]
<1>1. /\ ws \in [Ifaces -> Seq(GwSymbol)] /\ vs \in [Ifaces -> Seq(GwSymbol)]
      /\ Shortened(vs, ws, p)
  BY WireTail DEF Mid, Carries
<1> HIDE DEF vs
<1>2. Carries(vs, o, n, P)
  <2>1. ASSUME NEW q \in Ifaces, NEW i \in 1 .. Len(vs[q])
        PROVE  OnWire(vs[q][i], o, n, P)
    <3>1. \E j \in 1 .. Len(ws[q]) : vs[q][i] = ws[q][j]
      BY <1>1 DEF Shortened
    <3> QED  BY <3>1 DEF Mid, Carries
  <2> QED  BY <1>1, <2>1 DEF Carries
<1>3. Ordered(vs)
  <2> SUFFICES ASSUME NEW q \in Ifaces, NEW i \in 1 .. Len(vs[q]),
                      NEW j \in 1 .. Len(vs[q]), i < j
               PROVE  Precedes(vs[q][i], vs[q][j])
    BY DEF Ordered
  <2>1. \E h, l \in 1 .. Len(ws[q]) : /\ vs[q][i] = ws[q][h]
                                      /\ vs[q][j] = ws[q][l]
                                      /\ h < l
    <3> DEFINE h == IF q = p THEN i + 1 ELSE i
               l == IF q = p THEN j + 1 ELSE j
    <3>1. /\ h \in 1 .. Len(ws[q]) /\ vs[q][i] = ws[q][h]
          /\ l \in 1 .. Len(ws[q]) /\ vs[q][j] = ws[q][l]
          /\ h < l
      BY <1>1 DEF Shortened
    <3> QED  BY <3>1
  <2> QED  BY <2>1 DEF Mid, Ordered
<1>4. FewRepairs(vs, o, c)
  <2> SUFFICES ASSUME NEW x \in Nat
               PROVE  /\ IsFiniteSet(RepairsIn(vs, x))
                      /\ Cardinality(RepairsIn(vs, x)) <=
                           IF x = o THEN c ELSE MostRepairs
    BY DEF FewRepairs
  <2>1. /\ IsFiniteSet(RepairsIn(ws, x))
        /\ Cardinality(RepairsIn(ws, x)) <= IF x = o THEN c ELSE MostRepairs
    BY DEF Mid, FewRepairs
  <2>2. /\ IsFiniteSet(RepairsIn(vs, x))
        /\ Cardinality(RepairsIn(vs, x)) <= Cardinality(RepairsIn(ws, x))
    BY <1>1, <2>1, FewerRepairs
  <2>3. /\ Cardinality(RepairsIn(ws, x)) \in Nat
        /\ Cardinality(RepairsIn(vs, x)) \in Nat
    BY <2>1, <2>2, FS_CardinalityType
  <2> QED  BY <2>1, <2>2, <2>3, MostRepairsBound
<1> QED  BY <1>2, <1>3, <1>4 DEF Mid, vs

LEMMA TakenKeepsGate ==
  ASSUME GateInv, NEW p \in Ifaces, wire[p] # <<>>, TakeHead(p), GatewayIdle
  PROVE  GateInv'
<1>1. /\ origin \in Nat /\ BlockSize \in Nat /\ MostRepairs \in Nat
      /\ WiresInv /\ SlotsInv
  BY EngineSizesAssumption, MostRepairsBound DEF GateInv, SlotsInv
<1>2. WiresInv'
  BY <1>1, TakenMid DEF WiresInv, TakeHead, GatewayIdle
<1>3. SlotsInv'
  BY <1>1 DEF SlotsInv, GatewayIdle, OnlyCurrentInUse
<1> QED  BY <1>2, <1>3 DEF GateInv, CurrentIsNewest, GatewayIdle


-----------------------------------------------------------------------------
(* The invariant of the composition                                        *)

\* The symbols of the first n blocks.
First(n) == {s \in AllSymbols : s.origin <= n /\ s.id = s.origin % IdSpace}

OriginsBounded ==
  origin <= gwStats.intercepted /\ gwStats.intercepted <= MaxIntercepts

SysInv ==
  /\ GateInv
  /\ OriginsBounded
  /\ RxP!TypeOK
  /\ RxP!StoredInv

LEMMA HeadIsSymbol ==
  ASSUME GateInv, OriginsBounded, NEW p \in Ifaces, wire[p] # <<>>
  PROVE  Head(wire[p]) \in First(origin)
<1> DEFINE s == Head(wire[p])
<1>1. /\ wire \in [Ifaces -> Seq(GwSymbol)] /\ origin \in Nat
      /\ \A i \in 1 .. Len(wire[p]) : OnWire(wire[p][i], origin, BlockSize, packets)
  BY DEF GateInv, SlotsInv, WiresInv, Mid, Carries
<1>2. s \in GwSymbol /\ OnWire(s, origin, BlockSize, packets)
  BY <1>1, WireTail
<1> HIDE DEF s
<1>3. gwStats.intercepted \in Nat /\ MaxIntercepts \in Nat /\ IdSpace \in Nat \ {0}
  BY GatewayAssumption DEF GateInv, GwStats
<1>4. /\ s.origin \in 1 .. origin /\ s.k = BlockSize /\ s.fits = TRUE
      /\ s.id = s.origin % IdSpace
      /\ s.src \in BOOLEAN
      /\ s.src => s.esi \in 0 .. BlockSize - 1
      /\ ~s.src => s.esi \in RepairEsis
  BY <1>2 DEF OnWire, GwSymbol
<1>5. s.origin \in 1 .. MaxIntercepts /\ s.id \in 0 .. IdSpace - 1
  <2>1. s.origin \in Nat
    BY <1>1, <1>4
  <2>2. s.id \in 0 .. IdSpace - 1
    BY <1>3, <1>4, <2>1, DivMod
  <2> QED  BY <1>1, <1>3, <1>4, <2>2 DEF OriginsBounded
<1>6. s = [origin |-> s.origin, id |-> s.id, k |-> s.k, esi |-> s.esi,
           src |-> s.src, fits |-> s.fits]
  BY <1>2 DEF GwSymbol
<1>7. s \in AllSymbols
  <2>1. CASE s.src
    BY <1>4, <1>5, <1>6, <2>1 DEF AllSymbols
  <2>2. CASE ~s.src
    BY <1>4, <1>5, <1>6, <2>2 DEF AllSymbols
  <2> QED  BY <2>1, <2>2
<1> QED  BY <1>1, <1>4, <1>7 DEF First, s

\* Blocks are only opened for packets taken from the queue.
LEMMA OriginsStayBounded ==
  ASSUME GateInv, OriginsBounded, GwNext
  PROVE  OriginsBounded' /\ origin <= origin'
<1>1. /\ origin \in Nat /\ gwStats.intercepted \in Nat /\ MaxIntercepts \in Nat
  BY GatewayAssumption DEF GateInv, SlotsInv, GwStats
<1>2. CASE StopGateway
  BY <1>1, <1>2 DEF StopGateway, OriginsBounded
<1>3. ASSUME NEW len \in Lengths, InterceptPacket(len)
      PROVE  OriginsBounded' /\ origin <= origin'
  <2>1. gwStats'.intercepted = gwStats.intercepted + 1
    <3>1. \E orig, n, done, over : Intercepted(orig, n, done, over)
      <4>1. CASE IgnorePacket(len)
        BY <4>1 DEF IgnorePacket
      <4>2. CASE FailToOpen(len)
        BY <4>2 DEF FailToOpen
      <4>3. ASSUME NEW bs, NEW i, NEW b0, NEW over, TakePacket(bs, i, b0, over)
            PROVE  \E orig, n, done : Intercepted(orig, n, done, over)
        BY <4>3 DEF TakePacket
      <4>4. CASE ContinueBlock(len)
        BY <4>3, <4>4 DEF ContinueBlock
      <4>5. CASE StartBlock(len)
        BY <4>3, <4>5 DEF StartBlock
      <4> QED  BY <1>3, <4>1, <4>2, <4>4, <4>5 DEF InterceptPacket
    <3> QED  BY <3>1 DEF Intercepted
  <2>2. gwStats.intercepted < MaxIntercepts
    BY <1>3 DEF InterceptPacket
  <2>3. origin' = origin \/ origin' = origin + 1
    BY <1>3 DEF InterceptPacket, IgnorePacket, FailToOpen, ContinueBlock,
         StartBlock, ConsumeId
  <2> QED  BY <1>1, <2>1, <2>2, <2>3 DEF OriginsBounded
<1> QED  BY <1>2, <1>3 DEF GwNext

\* What one step of the composition is to the receiver: nothing, or one symbol
\* of a block opened so far.
LEMMA SystemStep ==
  ASSUME SysInv, [SysNext]_sysVars
  PROVE  /\ GateInv' /\ OriginsBounded' /\ origin <= origin'
         /\ \/ UNCHANGED rxVars
            \/ \E s \in First(origin) : RxP!HandleRqSymbol(s)
<1> USE DEF SysInv
<1>1. origin \in Nat
  BY DEF GateInv, SlotsInv
<1>2. CASE GatewayStep
  BY <1>2, GateKeeps, OriginsStayBounded DEF GatewayStep
<1>3. ASSUME NEW p \in Ifaces, Deliver(p) \/ Lose(p)
      PROVE  /\ GateInv' /\ OriginsBounded' /\ origin <= origin'
             /\ \/ UNCHANGED rxVars
                \/ \E s \in First(origin) : RxP!HandleRqSymbol(s)
  <2>1. wire[p] # <<>> /\ TakeHead(p) /\ GatewayIdle
    BY <1>3 DEF Deliver, Lose
  <2>2. GateInv'
    BY <2>1, TakenKeepsGate
  <2>3. OriginsBounded' /\ origin <= origin'
    BY <1>1, <2>1 DEF GatewayIdle, OriginsBounded
  <2>4. \/ UNCHANGED rxVars
        \/ \E s \in First(origin) : RxP!HandleRqSymbol(s)
    <3>1. Head(wire[p]) \in First(origin)
      BY <2>1, HeadIsSymbol
    <3> QED  BY <1>3, <3>1, SameHandler DEF Deliver, Lose
  <2> QED  BY <2>2, <2>3, <2>4
<1>4. ASSUME NEW p \in Ifaces, Duplicate(p)
      PROVE  /\ GateInv' /\ OriginsBounded' /\ origin <= origin'
             /\ \E s \in First(origin) : RxP!HandleRqSymbol(s)
  <2>1. wire[p] # <<>> /\ UNCHANGED gwVars
    BY <1>4 DEF Duplicate, GatewayIdle, gwVars
  <2>2. GateInv'
    BY <2>1, GateKeeps
  <2>3. OriginsBounded' /\ origin <= origin'
    BY <1>1, <2>1 DEF gwVars, OriginsBounded
  <2>4. Head(wire[p]) \in First(origin)
    BY <2>1, HeadIsSymbol
  <2> QED  BY <1>4, <2>2, <2>3, <2>4, SameHandler DEF Duplicate
<1>5. CASE UNCHANGED sysVars
  <2>1. UNCHANGED gwVars /\ UNCHANGED rxVars
    BY <1>5 DEF sysVars
  <2>2. GateInv'
    BY <2>1, GateKeeps
  <2>3. OriginsBounded' /\ origin <= origin'
    BY <1>1, <2>1 DEF gwVars, OriginsBounded
  <2> QED  BY <2>1, <2>2, <2>3
<1> QED  BY <1>2, <1>3, <1>4, <1>5 DEF SysNext

LEMMA FirstAreSymbols == \A n : First(n) \in SUBSET AllSymbols
  BY DEF First

LEMMA SymbolsOfFirst ==
  ASSUME NEW n, NEW s \in First(n)
  PROVE  /\ s.origin \in 1 .. MaxIntercepts /\ s.origin \in Nat \ {0}
         /\ s.origin <= n /\ s.id = s.origin % IdSpace
         /\ s.k = BlockSize /\ s.fits /\ s.src \in BOOLEAN
         /\ s.src => s.esi \in 0 .. BlockSize - 1
         /\ ~s.src => s.esi \in RepairEsis
         /\ s = [origin |-> s.origin, id |-> s.id, k |-> s.k, esi |-> s.esi,
                 src |-> s.src, fits |-> s.fits]
<1>1. s \in AllSymbols /\ s.origin <= n /\ s.id = s.origin % IdSpace
  BY DEF First
<1>2. CASE s \in [origin : 1 .. MaxIntercepts, id : 0 .. IdSpace - 1,
                  k : {BlockSize}, esi : 0 .. BlockSize - 1, src : {TRUE},
                  fits : {TRUE}]
  <2>1. /\ s.origin \in 1 .. MaxIntercepts /\ s.k = BlockSize /\ s.fits = TRUE
        /\ s.src = TRUE /\ s.esi \in 0 .. BlockSize - 1
    BY <1>2
  <2>2. s = [origin |-> s.origin, id |-> s.id, k |-> s.k, esi |-> s.esi,
             src |-> s.src, fits |-> s.fits]
    BY <1>2
  <2>3. s.origin \in Nat \ {0}
    BY <2>1
  <2> QED  BY <1>1, <2>1, <2>2, <2>3
<1>3. CASE s \in [origin : 1 .. MaxIntercepts, id : 0 .. IdSpace - 1,
                  k : {BlockSize}, esi : RepairEsis, src : {FALSE},
                  fits : {TRUE}]
  <2>1. /\ s.origin \in 1 .. MaxIntercepts /\ s.k = BlockSize /\ s.fits = TRUE
        /\ s.src = FALSE /\ s.esi \in RepairEsis
    BY <1>3
  <2>2. s = [origin |-> s.origin, id |-> s.id, k |-> s.k, esi |-> s.esi,
             src |-> s.src, fits |-> s.fits]
    BY <1>3
  <2>3. s.origin \in Nat \ {0}
    BY <2>1
  <2> QED  BY <1>1, <2>1, <2>2, <2>3
<1> QED  BY <1>1, <1>2, <1>3 DEF AllSymbols

LEMMA SystemStarts ==
  ASSUME SysInit
  PROVE  /\ SysInv /\ RxP!CountBehindFlags /\ RxP!WaitInv
         /\ \A G \in SUBSET AllSymbols : RxP!ReachInv(G) /\ RxP!OriginalsInv(G)
<1>1. GateInv /\ origin = 0 /\ gwStats.intercepted = 0
  BY InitGate DEF SysInit, GwInit
<1>2. RxP!Init
  BY SameLeaving DEF SysInit, Rx!Init, RxP!Init, Rx!FreeBlock, RxP!FreeBlock,
     Rx!SlotIds, RxP!SlotIds
<1>3. RxP!TypeOK
  BY <1>2, RxAssumptions, RxP!InitTypes
<1>4. /\ RxP!StoredInv /\ RxP!CountBehindFlags /\ RxP!WaitInv
      /\ \A G \in SUBSET AllSymbols : RxP!ReachInv(G) /\ RxP!OriginalsInv(G)
  BY <1>2, RxAssumptions, RxP!InitReach
<1>5. OriginsBounded
  BY <1>1, GatewayAssumption DEF OriginsBounded
<1> QED  BY <1>1, <1>3, <1>4, <1>5 DEF SysInv

LEMMA SystemKeeps == SysInv /\ [SysNext]_sysVars => SysInv'
<1> SUFFICES ASSUME SysInv, [SysNext]_sysVars
             PROVE  SysInv'
  OBVIOUS
<1>1. GateInv' /\ OriginsBounded'
  BY SystemStep
<1>2. CASE UNCHANGED rxVars
  BY <1>1, <1>2 DEF SysInv, rxVars, RxP!TypeOK, RxP!StoredInv
<1>3. ASSUME NEW s \in First(origin), RxP!HandleRqSymbol(s)
      PROVE  SysInv'
  <2>1. s \in AllSymbols
    BY DEF First
  <2>2. RxP!TypeOK' /\ RxP!StoredInv'
    BY <1>3, <2>1, RxAssumptions, RxP!HandledTypes, RxP!HandledStored DEF SysInv
  <2> QED  BY <1>1, <2>2 DEF SysInv
<1> QED  BY <1>2, <1>3, SystemStep

-----------------------------------------------------------------------------
(* Original packets reach the destination *)

LEMMA IdsOfFirst ==
  ASSUME NEW s \in First(IdSpace), NEW t \in First(IdSpace), s.id = t.id
  PROVE  s.origin = t.origin
<1>1. /\ s.origin \in 1 .. IdSpace /\ t.origin \in 1 .. IdSpace
      /\ s.origin % IdSpace = t.origin % IdSpace
      /\ IdSpace \in Nat \ {0} /\ MaxIntercepts \in Nat
  BY SymbolsOfFirst, GatewayAssumption
<1>2. \A o \in 1 .. IdSpace : o % IdSpace = IF o = IdSpace THEN 0 ELSE o
  <2> SUFFICES ASSUME NEW o \in 1 .. IdSpace
               PROVE  o % IdSpace = IF o = IdSpace THEN 0 ELSE o
    OBVIOUS
  <2>1. IdSpace = ((IdSpace * 1) + 0) /\ o = ((IdSpace * 0) + o)
    BY <1>1
  <2>2. o # IdSpace => o % IdSpace = o
    BY <1>1
  <2>3. IdSpace % IdSpace = 0
    BY <1>1, <2>1, ModUnique
  <2> QED  BY <2>2, <2>3
<1> QED  BY <1>1, <1>2

LEMMA FirstAreNamed ==
  ASSUME BlockSize <= RxBlockSize
  PROVE  RxP!Named(First(IdSpace))
<1>1. ASSUME NEW s \in First(IdSpace)
      PROVE  /\ s.fits /\ s.k = BlockSize
             /\ s.src => s.esi < s.k
  <2>1. /\ s.fits /\ s.k = BlockSize
        /\ s.src => s.esi \in 0 .. BlockSize - 1
    BY SymbolsOfFirst
  <2> QED  BY <2>1, EngineSizesAssumption
<1>2. BlockSize \in 1 .. RxBlockSize
  BY EngineSizesAssumption, SystemAssumption
<1> QED  BY <1>1, <1>2, IdsOfFirst DEF RxP!Named

\* An ORIG symbol that arrives is forwarded at once or was before, whatever
\* was lost, duplicated or overtaken, whichever slots were taken over, and
\* though the codec may fail to be set up or to decode: as long as the raw
\* socket does not fail, no block is longer than the receiver's --block-size
\* and no block id was used twice.
THEOREM OriginalsAlwaysReach ==
  ASSUME RxSendOutcomes = {TRUE}, BlockSize <= RxBlockSize
  PROVE  SysSpec => [](origin <= IdSpace => OriginalsReach)
<1> DEFINE G == First(IdSpace)
           Inv == origin <= IdSpace => RxP!OriginalsInv(G)
<1>1. SysInit => SysInv /\ Inv
  BY SystemStarts, FirstAreSymbols
<1>2. SysInv /\ Inv /\ [SysNext]_sysVars => Inv'
  <2> SUFFICES ASSUME SysInv, Inv, [SysNext]_sysVars, origin' <= IdSpace
               PROVE  RxP!OriginalsInv(G)'
    OBVIOUS
  <2>1. /\ origin \in Nat /\ origin' \in Nat /\ IdSpace \in Nat
        /\ origin <= origin'
    BY SystemStep, GatewayAssumption DEF SysInv, GateInv, SlotsInv
  <2>2. RxP!OriginalsInv(G)
    BY <2>1
  <2>3. CASE UNCHANGED rxVars
    BY <2>2, <2>3 DEF rxVars, RxP!OriginalsInv, RxP!Tracks, RxP!Out,
       RxP!IsBlockCompleted
  <2>4. ASSUME NEW s \in First(origin), RxP!HandleRqSymbol(s)
        PROVE  RxP!OriginalsInv(G)'
    <3>1. s \in G
      <4>1. s \in AllSymbols /\ s.origin \in Nat /\ s.origin <= origin
            /\ s.id = s.origin % IdSpace
        BY SymbolsOfFirst, FirstAreSymbols
      <4>2. s.origin <= IdSpace
        BY <2>1, <4>1
      <4> QED  BY <4>1, <4>2 DEF First
    <3>2. G \subseteq AllSymbols /\ RxP!Named(G)
      BY FirstAreSymbols, FirstAreNamed
    <3> HIDE DEF G
    <3> QED
      BY <2>2, <2>4, <3>1, <3>2, RxAssumptions, RxP!HandledOriginals DEF SysInv
  <2> QED  BY <2>3, <2>4, SystemStep
<1>3. SysInv /\ Inv => (origin <= IdSpace => OriginalsReach)
  BY DEF OriginalsReach, RxP!OriginalsInv, RxP!Out
<1> QED  BY <1>1, <1>2, <1>3, SystemKeeps, PTL DEF SysSpec

-----------------------------------------------------------------------------
(* Blocks of which enough arrived are delivered                            *)

\* The outcomes of the calls of the receiver, as NothingFails of RqReceiver.
NoFailures ==
  RxSendOutcomes = {TRUE} /\ DecodeOutcomes = {TRUE} /\ InitOutcomes = {TRUE}

\* The first MaxBlocks blocks have a slot each.
LEMMA SlotsOfFirst ==
  ASSUME MaxBlocks <= IdSpace, NEW s \in First(MaxBlocks)
  PROVE  /\ s \in First(IdSpace)
         /\ s.origin \in 1 .. MaxBlocks
         /\ RxP!Slot(s.id) = IF s.origin = MaxBlocks THEN 0 ELSE s.origin
<1>1. /\ s.origin \in Nat \ {0} /\ s.origin <= MaxBlocks /\ s.id = s.origin % IdSpace
      /\ MaxBlocks \in Nat \ {0} /\ IdSpace \in Nat \ {0} /\ s \in AllSymbols
  BY SymbolsOfFirst, FirstAreSymbols, GatewayAssumption
<1>2. s \in First(IdSpace)
  <2>1. s.origin <= IdSpace
    BY <1>1
  <2> QED  BY <1>1, <2>1 DEF First
<1>3. CASE s.origin < MaxBlocks
  <2>1. s.id = s.origin /\ s.origin % MaxBlocks = s.origin
    BY <1>1, <1>3
  <2> QED  BY <1>1, <1>2, <1>3, <2>1 DEF RxP!Slot
<1>4. CASE s.origin = MaxBlocks
  <2>1. 0 % MaxBlocks = 0 /\ MaxBlocks = ((MaxBlocks * 1) + 0)
    BY <1>1
  <2>2. MaxBlocks % MaxBlocks = 0
    BY <1>1, <2>1, ModUnique
  <2>3. s.id = MaxBlocks \/ s.id = 0
    <3>1. CASE MaxBlocks = IdSpace
      BY <1>1, <1>4, <2>2, <3>1
    <3>2. CASE MaxBlocks < IdSpace
      BY <1>1, <1>4, <3>2
    <3> QED  BY <1>1, <3>1, <3>2
  <2> QED  BY <1>1, <1>2, <1>4, <2>1, <2>2, <2>3 DEF RxP!Slot
<1> QED  BY <1>1, <1>3, <1>4

LEMMA FirstAreApart ==
  ASSUME MaxBlocks <= IdSpace, RxBlockSize = BlockSize,
         RepairEsis \cap (0 .. BlockSize - 1) = {}
  PROVE  RxP!Apart(First(MaxBlocks))
<1> SUFFICES ASSUME NEW s \in First(MaxBlocks), NEW t \in First(MaxBlocks)
             PROVE  /\ s.fits /\ s.k = RxBlockSize
                    /\ s.src => s.esi < RxBlockSize
                    /\ s.origin = t.origin <=> s.id = t.id
                    /\ RxP!Slot(s.id) = RxP!Slot(t.id) => s.id = t.id
                    /\ s.id = t.id /\ s.esi = t.esi => s = t
  BY DEF RxP!Apart
<1>1. /\ s.k = BlockSize /\ s.fits /\ s.src \in BOOLEAN
      /\ s.src => s.esi \in 0 .. BlockSize - 1
      /\ ~s.src => s.esi \in RepairEsis
      /\ s.id = s.origin % IdSpace
      /\ s = [origin |-> s.origin, id |-> s.id, k |-> s.k, esi |-> s.esi,
              src |-> s.src, fits |-> s.fits]
      /\ s.fits = TRUE
  BY SymbolsOfFirst
<1>2. /\ t.k = BlockSize /\ t.fits /\ t.src \in BOOLEAN
      /\ t.src => t.esi \in 0 .. BlockSize - 1
      /\ ~t.src => t.esi \in RepairEsis
      /\ t.id = t.origin % IdSpace
      /\ t = [origin |-> t.origin, id |-> t.id, k |-> t.k, esi |-> t.esi,
              src |-> t.src, fits |-> t.fits]
      /\ t.fits = TRUE
  BY SymbolsOfFirst
<1>3. s.src => s.esi < RxBlockSize
  BY <1>1, EngineSizesAssumption
<1>4. s.origin = t.origin <=> s.id = t.id
  BY <1>1, <1>2, SlotsOfFirst, IdsOfFirst
<1>5. RxP!Slot(s.id) = RxP!Slot(t.id) => s.origin = t.origin
  <2>1. /\ s.origin \in 1 .. MaxBlocks /\ t.origin \in 1 .. MaxBlocks
        /\ RxP!Slot(s.id) = IF s.origin = MaxBlocks THEN 0 ELSE s.origin
        /\ RxP!Slot(t.id) = IF t.origin = MaxBlocks THEN 0 ELSE t.origin
    BY SlotsOfFirst
  <2> QED  BY <2>1, GatewayAssumption
<1>6. s.id = t.id /\ s.esi = t.esi => s = t
  <2> SUFFICES ASSUME s.id = t.id, s.esi = t.esi
               PROVE  s = t
    OBVIOUS
  <2>1. s.src = t.src
    BY <1>1, <1>2
  <2> QED  BY <1>1, <1>2, <1>4, <2>1
<1> QED  BY <1>1, <1>3, <1>4, <1>5, <1>6

\* Once as many different symbols of a block arrived as it has packets, all
\* its packets have left, whichever paths the symbols took and whatever was
\* lost, repeated or arrived of other blocks meanwhile: as long as nothing of
\* the receiver's fails, the two sides agree on --block-size, repairs have
\* ESIs of their own, and every block opened so far has a slot of its own.
THEOREM EnoughAlwaysDelivers ==
  ASSUME NoFailures, RxBlockSize = BlockSize, MaxBlocks <= IdSpace,
         RepairEsis \cap (0 .. BlockSize - 1) = {}
  PROVE  SysSpec => [](origin <= MaxBlocks => EnoughArrivedDelivers)
<1> DEFINE G == First(MaxBlocks)
           Inv == /\ RxP!CountBehindFlags /\ RxP!WaitInv
                  /\ origin <= MaxBlocks => RxP!ReachInv(G)
<1>1. RxP!NothingFails
  BY DEF NoFailures, RxP!NothingFails
<1>2. SysInit => SysInv /\ Inv
  BY SystemStarts, FirstAreSymbols
<1>3. SysInv /\ Inv /\ [SysNext]_sysVars => Inv'
  <2> SUFFICES ASSUME SysInv, Inv, [SysNext]_sysVars
               PROVE  Inv'
    OBVIOUS
  <2>1. /\ origin \in Nat /\ origin' \in Nat /\ MaxBlocks \in Nat
        /\ origin <= origin'
    BY SystemStep, GatewayAssumption DEF SysInv, GateInv, SlotsInv
  <2>2. origin' <= MaxBlocks => RxP!ReachInv(G)
    BY <2>1
  <2>3. CASE UNCHANGED rxVars
    BY <2>2, <2>3 DEF rxVars, RxP!CountBehindFlags, RxP!WaitInv, RxP!ReachInv,
       RxP!AllOut, RxP!Out, RxP!Gathering, RxP!GathersInto, RxP!Got,
       RxP!IsBlockCompleted
  <2>4. ASSUME NEW s \in First(origin), RxP!HandleRqSymbol(s)
        PROVE  Inv'
    <3>1. s \in AllSymbols /\ s.origin \in Nat /\ s.origin <= origin
          /\ s.id = s.origin % IdSpace
      BY SymbolsOfFirst, FirstAreSymbols
    <3>2. RxP!CountBehindFlags' /\ RxP!WaitInv'
      BY <1>1, <2>4, <3>1, RxAssumptions, RxP!HandledBehind, RxP!HandledWaits
      DEF SysInv
    <3>3. ASSUME origin' <= MaxBlocks
          PROVE  RxP!ReachInv(G)'
      <4>1. s.origin <= MaxBlocks
        BY <2>1, <3>1, <3>3
      <4>2. s \in G /\ G \subseteq AllSymbols /\ RxP!Apart(G)
        BY <3>1, <4>1, FirstAreSymbols, FirstAreApart DEF First
      <4>3. RxP!ReachInv(G)
        BY <2>2, <3>3
      <4> HIDE DEF G
      <4> QED
        BY <1>1, <2>4, <4>2, <4>3, RxAssumptions, RxP!HandledReach DEF SysInv
    <3> QED  BY <3>2, <3>3
  <2> QED  BY <2>3, <2>4, SystemStep
<1>4. SysInv /\ Inv => (origin <= MaxBlocks => EnoughArrivedDelivers)
  <2> SUFFICES ASSUME SysInv, Inv, origin <= MaxBlocks,
                      NEW o \in 1 .. MaxIntercepts,
                      Cardinality(ArrivedOf(o)) >= BlockSize
               PROVE  \A i \in 0 .. BlockSize - 1 : copies[<<o, i>>] >= 1
    BY DEF EnoughArrivedDelivers
  <2>1. PICK s \in arrived : s.origin = o
    <3>1. ArrivedOf(o) # {}
      BY FS_EmptySet, EngineSizesAssumption
    <3> QED  BY <3>1 DEF ArrivedOf
  <2>2. RxP!Got(s) = ArrivedOf(o)
    BY <2>1 DEF RxP!Got, ArrivedOf
  <2>3. RxP!Cardinality(RxP!Got(s)) >= RxBlockSize
    BY <2>2, SameCardinality
  <2>4. G \subseteq AllSymbols /\ RxP!Apart(G) /\ RxP!ReachInv(G)
    BY FirstAreSymbols, FirstAreApart
  <2> HIDE DEF G
  <2>5. RxP!AllOut(s)
    BY <1>1, <2>3, <2>4, RxAssumptions, RxP!ReachedPackets DEF SysInv
  <2> QED  BY <2>1, <2>5 DEF RxP!AllOut, RxP!Out
<1> QED  BY <1>2, <1>3, <1>4, SystemKeeps, PTL DEF SysSpec

-----------------------------------------------------------------------------
(* No packet is delivered twice.                                           *)
(*                                                                         *)
(* A block of at most BlockSize repairs cannot be decoded a second time:   *)
(* what decoded it the first time had repairs among it, or else all the    *)
(* ORIG symbols, and too few symbols are left to arrive late.              *)

Reps(S) == {u \in S : ~u.src}
Sources(S) == {u \in S : u.src}

\* Whatever symbol s is computed from was put in a block.
Sent(s, P) ==
  /\ s.src => <<s.origin, s.esi>> \in P
  /\ ~s.src => \A j \in 0 .. BlockSize - 1 : <<s.origin, j>> \in P
ArrivedSent == \A s \in arrived : Sent(s, packets)

\* The repairs of a block, arrived and on their way.
RepairBudget ==
  \A o \in Nat :
    Cardinality(RepairsIn(wire, o)) + Cardinality(Reps(ArrivedOf(o))) <= MostRepairs

\* An ORIG symbol on the wires is there once and has not arrived.
Fresh(ws, A) ==
  \A q \in Ifaces : \A i \in 1 .. Len(ws[q]) : ws[q][i].src =>
    /\ ws[q][i] \notin A
    /\ \A r \in Ifaces : \A j \in 1 .. Len(ws[r]) :
         ws[r][j] = ws[q][i] => r = q /\ j = i

\* What left has been received or decoded.
CopiesBacked ==
  \A p \in RxP!Packets : copies[p] >= 1 =>
    \/ \E s \in arrived : s.src /\ s.origin = p[1] /\ s.esi = p[2]
    \/ Cardinality(ArrivedOf(p[1])) >= BlockSize

\* The block of t was complete with the symbols A, and those stored since, and
\* those to come, are too few for decoding.
SpentOn(t, A) ==
  /\ Cardinality(A) >= BlockSize
  /\ \A u \in RxP!Stored(t) : u.src => u \notin A
  /\ Cardinality(Reps(RxP!Stored(t))) + Cardinality(Reps(A))
       + Cardinality(RepairsIn(wire, t.origin)) <= MostRepairs
LateIsFew ==
  \A t \in First(MaxBlocks) : RxP!IsBlockCompleted(t.id) =>
    \E A \in SUBSET ArrivedOf(t.origin) : SpentOn(t, A)

OnceSys ==
  /\ RxP!OnceInv(First(MaxBlocks)) /\ CurrentTaken /\ dups = 0
  /\ ArrivedSent /\ RepairBudget /\ Fresh(wire, arrived)
  /\ CopiesBacked /\ LateIsFew

-----------------------------------------------------------------------------
(* Counting the symbols of a block                                         *)

LEMMA SameFinite == \A S : RxP!IsFiniteSet(S) <=> IsFiniteSet(S)
  BY DEF RxP!IsFiniteSet, IsFiniteSet

LEMMA IndicesCount ==
  IsFiniteSet(0 .. BlockSize - 1) /\ Cardinality(0 .. BlockSize - 1) = BlockSize
<1>1. BlockSize \in Nat \ {0}
  BY EngineSizesAssumption
<1>2. 0 \in Int /\ BlockSize - 1 \in Int
  BY <1>1
<1>3. /\ IsFiniteSet(0 .. BlockSize - 1)
      /\ Cardinality(0 .. BlockSize - 1)
           = IF 0 > BlockSize - 1 THEN 0 ELSE (BlockSize - 1) - 0 + 1
  BY <1>2, FS_Interval
<1> QED  BY <1>1, <1>3

LEMMA SplitCount ==
  ASSUME NEW S, IsFiniteSet(S)
  PROVE  /\ IsFiniteSet(Reps(S)) /\ IsFiniteSet(Sources(S))
         /\ Cardinality(Reps(S)) \in Nat /\ Cardinality(Sources(S)) \in Nat
         /\ Cardinality(S) = Cardinality(Reps(S)) + Cardinality(Sources(S))
<1>1. /\ Reps(S) \in SUBSET S /\ Sources(S) \in SUBSET S
      /\ S = Reps(S) \cup Sources(S) /\ Reps(S) \cap Sources(S) = {}
  BY DEF Reps, Sources
<1>2. IsFiniteSet(Reps(S)) /\ IsFiniteSet(Sources(S))
  BY <1>1, FS_Subset
<1>3. Cardinality(Reps(S)) \in Nat /\ Cardinality(Sources(S)) \in Nat
  BY <1>2, FS_CardinalityType
<1>4. Cardinality(Reps(S) \cup Sources(S)) =
        Cardinality(Reps(S)) + Cardinality(Sources(S))
          - Cardinality(Reps(S) \cap Sources(S))
  BY <1>2, FS_Union
<1>5. Cardinality(Reps(S) \cap Sources(S)) = 0
  BY <1>1, FS_EmptySet
<1> QED  BY <1>1, <1>2, <1>3, <1>4, <1>5

\* A block has no more ORIG symbols than packets; and if it has as many, one
\* of each.
LEMMA SourcesOfBlock ==
  ASSUME RxP!Apart(First(MaxBlocks)), NEW o,
         NEW S \in SUBSET First(MaxBlocks), \A u \in S : u.src /\ u.origin = o
  PROVE  /\ IsFiniteSet(S) /\ Cardinality(S) <= BlockSize
         /\ Cardinality(S) = BlockSize =>
              \A j \in 0 .. BlockSize - 1 : \E u \in S : u.esi = j
<1> DEFINE T == 0 .. BlockSize - 1
           f == [u \in S |-> u.esi]
<1>1. \A u \in S : f[u] \in T
  <2>1. \A u \in S : u \in First(MaxBlocks) /\ u.src
    OBVIOUS
  <2> QED  BY <2>1, SymbolsOfFirst
<1>2. \A u, v \in S : f[u] = f[v] => u = v
  <2>1. \A u, v \in S : u.id = v.id
    BY DEF RxP!Apart
  <2> QED  BY <2>1 DEF RxP!Apart
<1>3. IsFiniteSet(T) /\ Cardinality(T) = BlockSize
  BY IndicesCount
<1>4. f \in [S -> T] /\ \A u \in S : f[u] = u.esi
  BY <1>1
<1> HIDE DEF f, T
<1>5. f \in Injection(S, T)
  BY <1>2, <1>4 DEF Injection, IsInjective
<1>6. /\ IsFiniteSet(S) /\ Cardinality(S) <= Cardinality(T)
      /\ Cardinality(S) = Cardinality(T) <=> f \in Surjection(S, T)
  BY <1>3, <1>5, FS_Injection
<1>7. Cardinality(S) = BlockSize => \A j \in T : \E u \in S : u.esi = j
  BY <1>3, <1>4, <1>6 DEF Surjection
<1> QED  BY <1>3, <1>6, <1>7 DEF T

\* As many symbols of a block as it has packets: all of them were offered.
LEMMA EnoughMeansOffered ==
  ASSUME RxP!Apart(First(MaxBlocks)), NEW o, NEW P,
         NEW S \in SUBSET First(MaxBlocks), IsFiniteSet(S),
         \A u \in S : u.origin = o /\ Sent(u, P),
         Cardinality(S) >= BlockSize
  PROVE  \A j \in 0 .. BlockSize - 1 : <<o, j>> \in P
<1>1. CASE \E u \in S : ~u.src
  BY <1>1 DEF Sent
<1>2. CASE \A u \in S : u.src
  <2>1. /\ Cardinality(S) <= BlockSize
        /\ Cardinality(S) = BlockSize =>
             \A j \in 0 .. BlockSize - 1 : \E u \in S : u.esi = j
    BY <1>2, SourcesOfBlock
  <2>2. Cardinality(S) = BlockSize
    <3>1. Cardinality(S) \in Nat /\ BlockSize \in Nat
      BY FS_CardinalityType, EngineSizesAssumption
    <3> QED  BY <2>1, <3>1
  <2> QED  BY <1>2, <2>1, <2>2 DEF Sent
<1> QED  BY <1>1, <1>2

\* All ORIG symbols of a block: as many symbols as it has packets.
LEMMA SourcesAreEnough ==
  ASSUME NEW S, IsFiniteSet(S),
         \A j \in 0 .. BlockSize - 1 : \E u \in S : u.esi = j
  PROVE  Cardinality(S) >= BlockSize
<1> DEFINE T == 0 .. BlockSize - 1
           f == [j \in T |-> CHOOSE u \in S : u.esi = j]
<1>1. \A j \in T : f[j] \in S /\ f[j].esi = j
  OBVIOUS
<1>2. f \in [T -> S]
  BY <1>1
<1>3. IsFiniteSet(T) /\ Cardinality(T) = BlockSize
  BY IndicesCount
<1> HIDE DEF f, T
<1>4. f \in Injection(T, S)
  BY <1>1, <1>2 DEF Injection, IsInjective
<1>5. Cardinality(T) <= Cardinality(S)
  BY <1>4, FS_Injection
<1>6. Cardinality(S) \in Nat /\ BlockSize \in Nat
  BY FS_CardinalityType, EngineSizesAssumption
<1> QED  BY <1>3, <1>5, <1>6

-----------------------------------------------------------------------------
(* The wires                                                               *)

LEMMA WireSymbols ==
  ASSUME GateInv
  PROVE  /\ wire \in [Ifaces -> Seq(GwSymbol)] /\ origin \in Nat
         /\ \A q \in Ifaces : \A i \in 1 .. Len(wire[q]) : Sent(wire[q][i], packets)
         /\ \A x \in Nat : /\ IsFiniteSet(RepairsIn(wire, x))
                           /\ Cardinality(RepairsIn(wire, x)) \in Nat
                           /\ Cardinality(RepairsIn(wire, x)) <= MostRepairs
<1>1. /\ wire \in [Ifaces -> Seq(GwSymbol)] /\ origin \in Nat
      /\ \A q \in Ifaces : \A i \in 1 .. Len(wire[q]) :
           OnWire(wire[q][i], origin, BlockSize, packets)
      /\ FewRepairs(wire, origin, MostRepairs)
  BY DEF GateInv, SlotsInv, WiresInv, Mid, Carries
<1>2. \A s : OnWire(s, origin, BlockSize, packets) => Sent(s, packets)
  BY DEF OnWire, Sent
<1>3. \A x \in Nat : /\ IsFiniteSet(RepairsIn(wire, x))
                     /\ Cardinality(RepairsIn(wire, x)) <= MostRepairs
  BY <1>1 DEF FewRepairs
<1>4. \A x \in Nat : Cardinality(RepairsIn(wire, x)) \in Nat
  BY <1>3, FS_CardinalityType
<1> QED  BY <1>1, <1>2, <1>3, <1>4

\* WireSymbols of the next state.
LEMMA WiresFew ==
  GateInv' => \A x \in Nat : /\ Cardinality(RepairsIn(wire', x)) \in Nat
                             /\ Cardinality(RepairsIn(wire', x)) <= MostRepairs
<1> SUFFICES ASSUME GateInv'
             PROVE  \A x \in Nat : /\ Cardinality(RepairsIn(wire', x)) \in Nat
                                   /\ Cardinality(RepairsIn(wire', x)) <= MostRepairs
  OBVIOUS
<1>1. FewRepairs(wire', origin', MostRepairs)
  BY DEF GateInv, WiresInv, Mid
<1>2. \A x \in Nat : /\ IsFiniteSet(RepairsIn(wire', x))
                     /\ Cardinality(RepairsIn(wire', x)) <= MostRepairs
  BY <1>1 DEF FewRepairs
<1> QED  BY <1>2, FS_CardinalityType

\* One symbol less: what is left is as fresh as before, the symbol arrived.
LEMMA TakenFresh ==
  ASSUME NEW ws \in [Ifaces -> Seq(GwSymbol)], NEW vs, NEW p \in Ifaces,
         ws[p] # <<>>, vs = [ws EXCEPT ![p] = Tail(@)], NEW A, Fresh(ws, A)
  PROVE  Fresh(vs, A \cup {Head(ws[p])}) /\ Fresh(vs, A)
<1>1. Shortened(vs, ws, p) /\ Head(ws[p]) = ws[p][1] /\ 1 \in 1 .. Len(ws[p])
  BY WireTail
<1> DEFINE at(q, i) == IF q = p THEN i + 1 ELSE i
<1>2. ASSUME NEW q \in Ifaces, NEW i \in 1 .. Len(vs[q])
      PROVE  /\ at(q, i) \in 1 .. Len(ws[q]) /\ vs[q][i] = ws[q][at(q, i)]
             /\ q = p => at(q, i) # 1
  BY <1>1 DEF Shortened
<1>3. \A q : \A i, j \in Nat : at(q, i) = at(q, j) => i = j
  OBVIOUS
<1>4. \A q \in Ifaces : 1 .. Len(vs[q]) \subseteq Nat
  BY <1>1 DEF Shortened
<1> HIDE DEF at
<1>5. ASSUME NEW q \in Ifaces, NEW i \in 1 .. Len(vs[q]), vs[q][i].src
      PROVE  /\ vs[q][i] \notin A /\ vs[q][i] # Head(ws[p])
             /\ \A r \in Ifaces : \A j \in 1 .. Len(vs[r]) :
                  vs[r][j] = vs[q][i] => r = q /\ j = i
  <2>1. /\ at(q, i) \in 1 .. Len(ws[q]) /\ vs[q][i] = ws[q][at(q, i)]
        /\ q = p => at(q, i) # 1
    BY <1>2
  <2>2. /\ vs[q][i] \notin A
        /\ \A r \in Ifaces : \A j \in 1 .. Len(ws[r]) :
             ws[r][j] = vs[q][i] => r = q /\ j = at(q, i)
    BY <1>5, <2>1 DEF Fresh
  <2>3. vs[q][i] # Head(ws[p])
    BY <1>1, <2>1, <2>2
  <2>4. ASSUME NEW r \in Ifaces, NEW j \in 1 .. Len(vs[r]), vs[r][j] = vs[q][i]
        PROVE  r = q /\ j = i
    <3>1. at(r, j) \in 1 .. Len(ws[r]) /\ vs[r][j] = ws[r][at(r, j)]
      BY <1>2
    <3>2. r = q /\ at(r, j) = at(q, i)
      BY <2>2, <2>4, <3>1
    <3> QED  BY <1>3, <1>4, <3>2
  <2> QED  BY <2>2, <2>3, <2>4
<1> QED  BY <1>5 DEF Fresh

\* A packet taken for the first time: its ORIG symbol is new.
LEMMA AddedFresh ==
  ASSUME NEW vs, NEW ws, NEW o, NEW n, Added(vs, ws, o, n), NEW A, NEW P,
         Fresh(ws, A), <<o, n>> \notin P, \A s \in A : Sent(s, P),
         \A q \in Ifaces : \A i \in 1 .. Len(ws[q]) : Sent(ws[q][i], P)
  PROVE  Fresh(vs, A)
<1>1. ASSUME NEW q \in Ifaces, NEW i \in 1 .. Len(vs[q]), vs[q][i].src
      PROVE  \/ i \in 1 .. Len(ws[q]) /\ vs[q][i] = ws[q][i]
             \/ Newly(vs, ws, o, n, q, i)
  <2>1. /\ Len(ws[q]) \in Nat /\ Len(vs[q]) \in Nat /\ Len(ws[q]) <= Len(vs[q])
        /\ \A l \in 1 .. Len(ws[q]) : vs[q][l] = ws[q][l]
        /\ \A l \in Len(ws[q]) + 1 .. Len(vs[q]) :
             \/ ~vs[q][l].src /\ vs[q][l].origin = o
             \/ Newly(vs, ws, o, n, q, l)
    BY DEF Added
  <2>2. i \in 1 .. Len(ws[q]) \/ i \in Len(ws[q]) + 1 .. Len(vs[q])
    BY <2>1
  <2> QED  BY <1>1, <2>1, <2>2
<1>2. ASSUME NEW q \in Ifaces, NEW i, Newly(vs, ws, o, n, q, i)
      PROVE  ~Sent(vs[q][i], P)
  BY <1>2 DEF Newly, Sent
<1>3. ASSUME NEW q \in Ifaces, NEW i \in 1 .. Len(vs[q]), vs[q][i].src
      PROVE  /\ vs[q][i] \notin A
             /\ \A r \in Ifaces : \A j \in 1 .. Len(vs[r]) :
                  vs[r][j] = vs[q][i] => r = q /\ j = i
  <2>1. ASSUME NEW r \in Ifaces, NEW j \in 1 .. Len(vs[r]), vs[r][j] = vs[q][i]
        PROVE  r = q /\ j = i
    <3>0. \/ j \in 1 .. Len(ws[r]) /\ vs[r][j] = ws[r][j]
          \/ Newly(vs, ws, o, n, r, j)
      BY <1>1, <1>3, <2>1
    <3>1. CASE Newly(vs, ws, o, n, q, i)
      <4>1. Newly(vs, ws, o, n, r, j)
        BY <1>2, <2>1, <3>0, <3>1
      <4> QED  BY <3>1, <4>1 DEF Added
    <3>2. CASE i \in 1 .. Len(ws[q]) /\ vs[q][i] = ws[q][i]
      <4>1. j \in 1 .. Len(ws[r]) /\ vs[r][j] = ws[r][j]
        BY <1>2, <2>1, <3>0, <3>2
      <4> QED  BY <1>3, <2>1, <3>2, <4>1 DEF Fresh
    <3> QED  BY <1>1, <1>3, <3>1, <3>2
  <2>2. vs[q][i] \notin A
    BY <1>1, <1>2, <1>3 DEF Fresh
  <2> QED  BY <2>1, <2>2
<1> QED  BY <1>3 DEF Fresh

LEMMA AddedRepairs ==
  ASSUME NEW ws \in [Ifaces -> Seq(GwSymbol)], NEW vs \in [Ifaces -> Seq(GwSymbol)],
         NEW o, NEW n, Added(vs, ws, o, n), NEW x, x # o
  PROVE  RepairsIn(vs, x) = RepairsIn(ws, x)
<1>1. ASSUME NEW q \in Ifaces
      PROVE  /\ 1 .. Len(ws[q]) \subseteq 1 .. Len(vs[q])
             /\ \A i \in 1 .. Len(ws[q]) : vs[q][i] = ws[q][i]
             /\ \A i \in 1 .. Len(vs[q]) : vs[q][i].origin = x => i \in 1 .. Len(ws[q])
  <2>1. /\ Len(ws[q]) \in Nat /\ Len(vs[q]) \in Nat /\ Len(ws[q]) <= Len(vs[q])
        /\ \A i \in 1 .. Len(ws[q]) : vs[q][i] = ws[q][i]
        /\ \A i \in Len(ws[q]) + 1 .. Len(vs[q]) : vs[q][i].origin = o
    BY DEF Added, Newly
  <2> QED  BY <2>1
<1>2. ASSUME NEW us \in [Ifaces -> Seq(GwSymbol)]
      PROVE  \A e : e \in RepairsIn(us, x) <=>
               \E q \in Ifaces : \E i :
                 /\ e = <<q, i>>
                 /\ i \in 1 .. Len(us[q]) /\ ~us[q][i].src /\ us[q][i].origin = x
  BY RepairsInIs
<1>3. ASSUME NEW q \in Ifaces, NEW i
      PROVE  (i \in 1 .. Len(vs[q]) /\ ~vs[q][i].src /\ vs[q][i].origin = x)
             <=> (i \in 1 .. Len(ws[q]) /\ ~ws[q][i].src /\ ws[q][i].origin = x)
  BY <1>1
<1>4. ASSUME NEW e
      PROVE  e \in RepairsIn(vs, x) <=> e \in RepairsIn(ws, x)
  <2>1. ASSUME e \in RepairsIn(vs, x)
        PROVE  e \in RepairsIn(ws, x)
    <3>0. PICK q \in Ifaces : \E i :
            /\ e = <<q, i>> /\ i \in 1 .. Len(vs[q])
            /\ ~vs[q][i].src /\ vs[q][i].origin = x
      BY <1>2, <2>1
    <3>1. PICK i : /\ e = <<q, i>> /\ i \in 1 .. Len(vs[q])
                   /\ ~vs[q][i].src /\ vs[q][i].origin = x
      BY <3>0
    <3>2. i \in 1 .. Len(ws[q]) /\ ~ws[q][i].src /\ ws[q][i].origin = x
      BY <1>3, <3>1
    <3> QED  BY <1>2, <3>1, <3>2
  <2>2. ASSUME e \in RepairsIn(ws, x)
        PROVE  e \in RepairsIn(vs, x)
    <3>0. PICK q \in Ifaces : \E i :
            /\ e = <<q, i>> /\ i \in 1 .. Len(ws[q])
            /\ ~ws[q][i].src /\ ws[q][i].origin = x
      BY <1>2, <2>2
    <3>1. PICK i : /\ e = <<q, i>> /\ i \in 1 .. Len(ws[q])
                   /\ ~ws[q][i].src /\ ws[q][i].origin = x
      BY <3>0
    <3>2. i \in 1 .. Len(vs[q]) /\ ~vs[q][i].src /\ vs[q][i].origin = x
      BY <1>3, <3>1
    <3> QED  BY <1>2, <3>1, <3>2
  <2> QED  BY <2>1, <2>2
<1> QED  BY <1>4

-----------------------------------------------------------------------------
(* What has arrived                                                        *)

LEMMA SetsOfArrived ==
  ASSUME RxP!StoredInv
  PROVE  /\ IsFiniteSet(arrived) /\ Cardinality(Reps(arrived)) \in Nat
         /\ \A A \in SUBSET arrived : /\ IsFiniteSet(A) /\ Cardinality(A) \in Nat
                                      /\ Cardinality(Reps(A)) \in Nat
         /\ \A o : ArrivedOf(o) \in SUBSET arrived
         /\ \A t \in AllSymbols : RxP!Stored(t) \in SUBSET arrived
<1>1. IsFiniteSet(arrived)
  BY SameFinite DEF RxP!StoredInv
<1>2. \A A \in SUBSET arrived : /\ IsFiniteSet(A) /\ Cardinality(A) \in Nat
                                /\ Cardinality(Reps(A)) \in Nat
  BY <1>1, FS_Subset, FS_CardinalityType, SplitCount
<1>3. \A t \in AllSymbols : RxP!Slot(t.id) \in RxP!SlotIds
  BY RxAssumptions, RxP!SlotInRange DEF RxP!Symbol
<1>4. \A t \in AllSymbols : RxP!Stored(t) \in SUBSET arrived
  BY <1>3 DEF RxP!StoredInv, RxP!Stored
<1> QED  BY <1>1, <1>2, <1>4 DEF ArrivedOf

LEMMA CompletedIsOffered ==
  ASSUME RxP!Apart(First(MaxBlocks)), SysInv, OnceSys
  PROVE  /\ \A o : Cardinality(ArrivedOf(o)) >= BlockSize =>
              \A j \in 0 .. BlockSize - 1 : <<o, j>> \in packets
         /\ \A t \in First(MaxBlocks) : RxP!IsBlockCompleted(t.id) =>
              \A j \in 0 .. BlockSize - 1 : <<t.origin, j>> \in packets
<1>1. ASSUME NEW o, NEW A \in SUBSET ArrivedOf(o), Cardinality(A) >= BlockSize
      PROVE  \A j \in 0 .. BlockSize - 1 : <<o, j>> \in packets
  <2>1. A \in SUBSET First(MaxBlocks) /\ \A u \in A : u \in arrived /\ u.origin = o
    BY DEF OnceSys, RxP!OnceInv, ArrivedOf
  <2>2. IsFiniteSet(A) /\ \A u \in A : u.origin = o /\ Sent(u, packets)
    BY <2>1, SetsOfArrived DEF SysInv, OnceSys, ArrivedSent
  <2> QED  BY <1>1, <2>1, <2>2, EnoughMeansOffered
<1>2. ASSUME NEW t \in First(MaxBlocks), RxP!IsBlockCompleted(t.id)
      PROVE  \A j \in 0 .. BlockSize - 1 : <<t.origin, j>> \in packets
  <2>1. PICK A \in SUBSET ArrivedOf(t.origin) : SpentOn(t, A)
    BY <1>2 DEF OnceSys, LateIsFew
  <2> QED  BY <1>1, <2>1 DEF SpentOn
<1> QED  BY <1>1, <1>2

\* A step in which nothing arrives.
LEMMA NothingArrives ==
  ASSUME SysInv, OnceSys, UNCHANGED rxVars
  PROVE  /\ RxP!OnceInv(First(MaxBlocks))' /\ CopiesBacked'
         /\ arrived' = arrived /\ \A o : ArrivedOf(o)' = ArrivedOf(o)
         /\ \A t : RxP!Stored(t)' = RxP!Stored(t)
         /\ \A id : RxP!IsBlockCompleted(id)' <=> RxP!IsBlockCompleted(id)
<1>1. /\ slots' = slots /\ completed' = completed /\ copies' = copies
      /\ arrived' = arrived
  BY DEF rxVars
<1>2. RxP!OnceInv(First(MaxBlocks))'
  BY <1>1 DEF OnceSys, RxP!OnceInv, RxP!CompletedOnce, RxP!Holds, RxP!OwnBlock,
     RxP!IsBlockCompleted, RxP!Flags, RxP!AllOut, RxP!Out, RxP!LeftOnce
<1>3. \A o : ArrivedOf(o)' = ArrivedOf(o)
  BY <1>1 DEF ArrivedOf
<1>4. CopiesBacked'
  BY <1>1, <1>3 DEF OnceSys, CopiesBacked
<1>5. /\ \A t : RxP!Stored(t)' = RxP!Stored(t)
      /\ \A id : RxP!IsBlockCompleted(id)' <=> RxP!IsBlockCompleted(id)
  BY <1>1 DEF RxP!Stored, RxP!Holds, RxP!IsBlockCompleted
<1> QED  BY <1>1, <1>2, <1>3, <1>4, <1>5

\* Then a block stays spent, if no repairs of it are sent.
LEMMA StaysSpent ==
  ASSUME SysInv, SysInv', OnceSys, UNCHANGED rxVars,
         \A t \in First(MaxBlocks) : RxP!IsBlockCompleted(t.id) =>
           Cardinality(RepairsIn(wire', t.origin)) <= Cardinality(RepairsIn(wire, t.origin))
  PROVE  LateIsFew'
<1> SUFFICES ASSUME NEW t \in First(MaxBlocks), RxP!IsBlockCompleted(t.id)'
             PROVE  \E A \in SUBSET ArrivedOf(t.origin)' : SpentOn(t, A)'
  BY DEF LateIsFew
<1>1. RxP!IsBlockCompleted(t.id)
  BY NothingArrives
<1>2. PICK A \in SUBSET ArrivedOf(t.origin) : SpentOn(t, A)
  BY <1>1 DEF OnceSys, LateIsFew
<1>3. /\ Cardinality(RepairsIn(wire, t.origin)) \in Nat
      /\ Cardinality(RepairsIn(wire', t.origin)) \in Nat
      /\ MostRepairs \in Nat
  <2>1. t.origin \in Nat
    BY SymbolsOfFirst
  <2>2. \A x \in Nat : Cardinality(RepairsIn(wire, x)) \in Nat
    BY WireSymbols DEF SysInv
  <2>3. \A x \in Nat : Cardinality(RepairsIn(wire', x)) \in Nat
    <3>1. GateInv'
      BY DEF SysInv
    <3> QED  BY <3>1, WiresFew
  <2> QED  BY <2>1, <2>2, <2>3, MostRepairsBound
<1>4. Cardinality(Reps(RxP!Stored(t))) \in Nat /\ Cardinality(Reps(A)) \in Nat
  BY SetsOfArrived, FirstAreSymbols DEF SysInv
<1>5. Cardinality(RepairsIn(wire', t.origin)) <= Cardinality(RepairsIn(wire, t.origin))
  BY <1>1
<1>6. RxP!Stored(t)' = RxP!Stored(t) /\ ArrivedOf(t.origin)' = ArrivedOf(t.origin)
  BY NothingArrives
<1>7. SpentOn(t, A)'
  BY <1>2, <1>3, <1>4, <1>5, <1>6 DEF SpentOn
<1> QED  BY <1>6, <1>7

-----------------------------------------------------------------------------
(* The steps of the composition                                            *)

LEMMA OriginsOfSystem ==
  RxBlockSize = BlockSize =>
    RxP!Packets = (1 .. MaxIntercepts) \X (0 .. BlockSize - 1)
<1>1. RxP!Origins \subseteq 1 .. MaxIntercepts
  BY DEF RxP!Origins, AllSymbols
<1>2. ASSUME NEW o \in 1 .. MaxIntercepts
      PROVE  o \in RxP!Origins
  <2> DEFINE s == [origin |-> o, id |-> 0, k |-> BlockSize, esi |-> 0,
                   src |-> TRUE, fits |-> TRUE]
  <2>1. 0 \in 0 .. BlockSize - 1 /\ 0 \in 0 .. IdSpace - 1
    BY GatewayAssumption, EngineSizesAssumption
  <2>2. s \in AllSymbols /\ s.origin = o
    BY <2>1 DEF AllSymbols
  <2> QED  BY <2>2 DEF RxP!Origins
<1>3. RxP!Origins = 1 .. MaxIntercepts
  BY <1>1, <1>2
<1> QED  BY <1>3 DEF RxP!Packets

\* The gateway takes a packet no block has had, or none.
LEMMA GatewayKeepsOnce ==
  ASSUME RxBlockSize = BlockSize, RxP!Apart(First(MaxBlocks)),
         SysInv, SysInv', OnceSys, [GwNext]_gwVars,
         UNCHANGED <<rxVars, losses, dups>>
  PROVE  OnceSys' /\ [PD!PdNext]_(PD!pdVars)
<1>1. /\ RxP!OnceInv(First(MaxBlocks))' /\ CopiesBacked'
      /\ arrived' = arrived /\ \A o : ArrivedOf(o)' = ArrivedOf(o)
      /\ copies' = copies /\ garbled' = garbled
  BY NothingArrives DEF rxVars
<1>2. /\ CurrentTaken' /\ dups' = 0
      /\ (UNCHANGED <<wire, packets>>) \/ Takes(origin')
  BY GateAdds DEF SysInv, OnceSys
<1>3. CASE UNCHANGED <<wire, packets>>
  <2>1. wire' = wire /\ packets' = packets
    BY <1>3
  <2>2. ArrivedSent' /\ RepairBudget' /\ Fresh(wire, arrived)'
    BY <1>1, <2>1 DEF OnceSys, ArrivedSent, RepairBudget
  <2>3. LateIsFew'
    <3>1. \A t \in First(MaxBlocks) :
            Cardinality(RepairsIn(wire', t.origin)) = Cardinality(RepairsIn(wire, t.origin))
      BY <2>1
    <3>2. \A t \in First(MaxBlocks) : Cardinality(RepairsIn(wire, t.origin)) \in Nat
      BY WireSymbols, SymbolsOfFirst DEF SysInv
    <3>3. \A t \in First(MaxBlocks) :
            Cardinality(RepairsIn(wire', t.origin)) <= Cardinality(RepairsIn(wire, t.origin))
      BY <3>1, <3>2
    <3> QED  BY <3>3, StaysSpent
  <2>4. UNCHANGED PD!pdVars
    BY <1>1, <2>1 DEF PD!pdVars
  <2> QED  BY <1>1, <1>2, <2>2, <2>3, <2>4 DEF OnceSys
<1>4. CASE Takes(origin')
  <2>1. PICK n \in 0 .. BlockSize - 1 :
          /\ <<origin', n>> \notin packets
          /\ packets' = packets \cup {<<origin', n>>}
          /\ Added(wire', wire, origin', n)
    BY <1>4 DEF Takes
  <2>2. /\ \A s \in arrived : Sent(s, packets)
        /\ Fresh(wire, arrived)
        /\ \A q \in Ifaces : \A i \in 1 .. Len(wire[q]) : Sent(wire[q][i], packets)
        /\ wire \in [Ifaces -> Seq(GwSymbol)]
    BY WireSymbols DEF SysInv, OnceSys, ArrivedSent
  <2>3. ArrivedSent'
    <3>1. \A s : Sent(s, packets) => Sent(s, packets')
      BY <2>1 DEF Sent
    <3> QED  BY <1>1, <2>2, <3>1 DEF ArrivedSent
  <2>4. Fresh(wire, arrived)'
    <3>1. Fresh(wire', arrived)
      BY <2>1, <2>2, AddedFresh
    <3> QED  BY <1>1, <3>1
  <2>5. wire' \in [Ifaces -> Seq(GwSymbol)]
    BY DEF SysInv, GateInv, WiresInv, Mid, Carries
  <2>6. \A x : x # origin' => RepairsIn(wire', x) = RepairsIn(wire, x)
    <3>1. Added(wire', wire, origin', n)
      BY <2>1
    <3>2. wire \in [Ifaces -> Seq(GwSymbol)]
      BY <2>2
    <3> QED  BY <2>5, <3>1, <3>2, AddedRepairs
  <2>7. /\ \A x \in Nat : Cardinality(RepairsIn(wire, x)) \in Nat
        /\ \A x \in Nat : /\ Cardinality(RepairsIn(wire', x)) \in Nat
                          /\ Cardinality(RepairsIn(wire', x)) <= MostRepairs
        /\ MostRepairs \in Nat
    BY WireSymbols, WiresFew, MostRepairsBound DEF SysInv
  <2>8. RepairBudget'
    <3> SUFFICES ASSUME NEW x \in Nat
                 PROVE  Cardinality(RepairsIn(wire', x))
                          + Cardinality(Reps(ArrivedOf(x)')) <= MostRepairs
      BY DEF RepairBudget
    <3>1. CASE Reps(ArrivedOf(x)) = {}
      <4>1. Cardinality(Reps(ArrivedOf(x)')) = 0
        BY <1>1, <3>1, FS_EmptySet
      <4> QED  BY <2>7, <4>1
    <3>2. ASSUME NEW s \in Reps(ArrivedOf(x))
          PROVE  Cardinality(RepairsIn(wire', x))
                   + Cardinality(Reps(ArrivedOf(x)')) <= MostRepairs
      <4>1. s \in arrived /\ s.origin = x /\ ~s.src
        BY DEF Reps, ArrivedOf
      <4>2. x # origin'
        BY <2>1, <2>2, <4>1 DEF Sent
      <4> QED  BY <1>1, <2>6, <4>2 DEF OnceSys, RepairBudget
    <3> QED  BY <3>1, <3>2
  <2>9. LateIsFew'
    <3>1. \A t \in First(MaxBlocks) : RxP!IsBlockCompleted(t.id) =>
            RepairsIn(wire', t.origin) = RepairsIn(wire, t.origin)
      BY <2>1, <2>6, CompletedIsOffered
    <3>2. \A t \in First(MaxBlocks) : Cardinality(RepairsIn(wire, t.origin)) \in Nat
      BY <2>7, SymbolsOfFirst
    <3>3. \A t \in First(MaxBlocks) : RxP!IsBlockCompleted(t.id) =>
            Cardinality(RepairsIn(wire', t.origin)) <= Cardinality(RepairsIn(wire, t.origin))
      BY <3>1, <3>2
    <3> QED  BY <3>3, StaysSpent
  <2>10. PD!PdNext
    <3>1. <<origin', n>> \in Rx!Packets
      <4>1. /\ packets' \subseteq (1 .. origin') \X (0 .. BlockSize - 1)
            /\ origin' \in Nat /\ gwStats' \in GwStats
            /\ origin' <= gwStats'.intercepted /\ gwStats'.intercepted <= MaxIntercepts
        BY DEF SysInv, GateInv, SlotsInv, OriginsBounded
      <4>2. gwStats'.intercepted \in Nat /\ MaxIntercepts \in Nat
        BY <4>1, GatewayAssumption DEF GwStats
      <4>3. <<origin', n>> \in (1 .. origin') \X (0 .. BlockSize - 1)
        BY <2>1, <4>1
      <4>4. origin' \in 1 .. MaxIntercepts
        BY <4>1, <4>2, <4>3
      <4> QED  BY <4>4, OriginsOfSystem, SameLeaving
    <3>2. PD!Offer(<<origin', n>>)
      BY <1>1, <2>1 DEF PD!Offer
    <3> QED  BY <3>1, <3>2 DEF PD!PdNext
  <2> QED  BY <1>1, <1>2, <2>3, <2>4, <2>8, <2>9, <2>10 DEF OnceSys
<1> QED  BY <1>2, <1>3, <1>4

\* A lost symbol is one less on its way.
LEMMA LosingKeepsOnce ==
  ASSUME SysInv, SysInv', OnceSys, NEW p \in Ifaces, Lose(p)
  PROVE  OnceSys' /\ UNCHANGED PD!pdVars
<1>1. /\ wire[p] # <<>> /\ wire' = [wire EXCEPT ![p] = Tail(@)]
      /\ UNCHANGED rxVars /\ dups' = dups /\ packets' = packets
      /\ current' = current /\ origin' = origin /\ blocks' = blocks
  BY DEF Lose, TakeHead, GatewayIdle
<1>2. /\ RxP!OnceInv(First(MaxBlocks))' /\ CopiesBacked'
      /\ arrived' = arrived /\ \A o : ArrivedOf(o)' = ArrivedOf(o)
      /\ copies' = copies /\ garbled' = garbled
  BY <1>1, NothingArrives DEF rxVars
<1>3. /\ wire \in [Ifaces -> Seq(GwSymbol)]
      /\ \A x \in Nat : /\ IsFiniteSet(RepairsIn(wire, x))
                        /\ Cardinality(RepairsIn(wire, x)) \in Nat
      /\ \A x \in Nat : Cardinality(RepairsIn(wire', x)) \in Nat
  BY WireSymbols, WiresFew DEF SysInv
<1>4. Fresh(wire, arrived)'
  <2>1. Fresh(wire', arrived)
    BY <1>1, <1>3, TakenFresh DEF OnceSys
  <2> QED  BY <1>2, <2>1
<1>5. \A x \in Nat : Cardinality(RepairsIn(wire', x)) <= Cardinality(RepairsIn(wire, x))
  <2>1. wire' \in [Ifaces -> Seq(GwSymbol)] /\ Shortened(wire', wire, p)
    BY <1>1, <1>3, WireTail
  <2> QED  BY <1>3, <2>1, FewerRepairs
<1>6. RepairBudget'
  <2> SUFFICES ASSUME NEW x \in Nat
               PROVE  Cardinality(RepairsIn(wire', x))
                        + Cardinality(Reps(ArrivedOf(x)')) <= MostRepairs
    BY DEF RepairBudget
  <2>1. Cardinality(Reps(ArrivedOf(x))) \in Nat
    BY SetsOfArrived DEF SysInv
  <2>2. Cardinality(RepairsIn(wire, x)) + Cardinality(Reps(ArrivedOf(x))) <= MostRepairs
    BY DEF OnceSys, RepairBudget
  <2> QED  BY <1>2, <1>3, <1>5, <2>1, <2>2, MostRepairsBound
<1>7. LateIsFew'
  <2>1. \A t \in First(MaxBlocks) : t.origin \in Nat
    BY SymbolsOfFirst
  <2> QED  BY <1>1, <1>5, <2>1, StaysSpent
<1>8. ArrivedSent' /\ CurrentTaken' /\ dups' = 0
  BY <1>1, <1>2 DEF OnceSys, ArrivedSent, CurrentTaken
<1>9. UNCHANGED PD!pdVars
  BY <1>1, <1>2 DEF PD!pdVars
<1> QED  BY <1>2, <1>4, <1>6, <1>7, <1>8, <1>9 DEF OnceSys

\* Of a completed block, and while a repair of it is yet to come, too little is
\* stored for decoding.
LEMMA LateHasRoom ==
  ASSUME MostRepairs <= BlockSize, RxP!Apart(First(MaxBlocks)), SysInv, OnceSys,
         NEW t \in First(MaxBlocks), RxP!IsBlockCompleted(t.id),
         Cardinality(RepairsIn(wire, t.origin)) >= 1
  PROVE  Cardinality(RxP!Stored(t)) < BlockSize
<1> DEFINE S == RxP!Stored(t)
<1>1. PICK A \in SUBSET ArrivedOf(t.origin) : SpentOn(t, A)
  BY DEF OnceSys, LateIsFew
<1>2. /\ IsFiniteSet(S) /\ IsFiniteSet(A) /\ S \in SUBSET arrived
      /\ arrived \in SUBSET First(MaxBlocks)
  BY SetsOfArrived, FirstAreSymbols DEF SysInv, OnceSys, RxP!OnceInv
<1>3. \A u \in S : u.origin = t.origin
  BY DEF OnceSys, RxP!OnceInv, RxP!Stored, RxP!OwnBlock
<1>4. \A u \in A : u \in arrived /\ u.origin = t.origin
  BY DEF ArrivedOf
<1>5. /\ Cardinality(A) >= BlockSize
      /\ \A u \in S : u.src => u \notin A
      /\ Cardinality(Reps(S)) + Cardinality(Reps(A))
           + Cardinality(RepairsIn(wire, t.origin)) <= MostRepairs
  BY <1>1 DEF SpentOn
<1> HIDE DEF S
<1>6. /\ Cardinality(S) = Cardinality(Reps(S)) + Cardinality(Sources(S))
      /\ Cardinality(A) = Cardinality(Reps(A)) + Cardinality(Sources(A))
      /\ IsFiniteSet(Sources(S)) /\ IsFiniteSet(Sources(A))
      /\ Cardinality(Reps(S)) \in Nat /\ Cardinality(Sources(S)) \in Nat
      /\ Cardinality(Reps(A)) \in Nat /\ Cardinality(Sources(A)) \in Nat
  BY <1>2, SplitCount
<1>7. Cardinality(Sources(S) \cup Sources(A)) <= BlockSize
  <2>1. /\ Sources(S) \cup Sources(A) \in SUBSET First(MaxBlocks)
        /\ \A u \in Sources(S) \cup Sources(A) : u.src /\ u.origin = t.origin
    BY <1>2, <1>3, <1>4 DEF Sources
  <2> QED  BY <2>1, SourcesOfBlock
<1>8. Cardinality(Sources(S) \cup Sources(A)) =
        Cardinality(Sources(S)) + Cardinality(Sources(A))
  <2>1. Sources(S) \cap Sources(A) = {}
    BY <1>5 DEF Sources
  <2>2. Cardinality(Sources(S) \cup Sources(A)) =
          Cardinality(Sources(S)) + Cardinality(Sources(A))
            - Cardinality(Sources(S) \cap Sources(A))
    BY <1>6, FS_Union
  <2>3. Cardinality(Sources(S) \cap Sources(A)) = 0
    BY <2>1, FS_EmptySet
  <2> QED  BY <1>6, <2>2, <2>3
<1>9. /\ Cardinality(RepairsIn(wire, t.origin)) \in Nat
      /\ MostRepairs \in Nat /\ BlockSize \in Nat
  BY WireSymbols, SymbolsOfFirst, MostRepairsBound, EngineSizesAssumption DEF SysInv
<1>10. Cardinality(S) < BlockSize
  BY <1>5, <1>6, <1>7, <1>8, <1>9
<1> QED  BY <1>10 DEF S

\* What the delivery of symbol s, the oldest of path p, does to the wires and
\* to what has arrived.
Arrives(s, p) ==
  /\ s \in First(MaxBlocks) /\ Sent(s, packets)
  /\ s \in arrived => ~s.src
  /\ Fresh(wire, arrived)'
  /\ \A x \in Nat :
       Cardinality(RepairsIn(wire', x)) + (IF x = s.origin /\ ~s.src THEN 1 ELSE 0)
         <= Cardinality(RepairsIn(wire, x))
  /\ arrived' = arrived \cup {s}

LEMMA DeliveredArrives ==
  ASSUME SysInv, SysInv', OnceSys, origin <= MaxBlocks, NEW p \in Ifaces,
         wire[p] # <<>>, TakeHead(p), NEW s, s = Head(wire[p]),
         arrived' = arrived \cup {s}
  PROVE  Arrives(s, p)
<1>1. /\ wire \in [Ifaces -> Seq(GwSymbol)] /\ origin \in Nat
      /\ \A q \in Ifaces : \A i \in 1 .. Len(wire[q]) : Sent(wire[q][i], packets)
      /\ \A x \in Nat : /\ IsFiniteSet(RepairsIn(wire, x))
                        /\ Cardinality(RepairsIn(wire, x)) \in Nat
      /\ \A x \in Nat : Cardinality(RepairsIn(wire', x)) \in Nat
  BY WireSymbols, WiresFew DEF SysInv
<1>2. wire' = [wire EXCEPT ![p] = Tail(@)]
  BY DEF TakeHead
<1>3. /\ wire' \in [Ifaces -> Seq(GwSymbol)] /\ Shortened(wire', wire, p)
      /\ s = wire[p][1] /\ 1 \in 1 .. Len(wire[p])
  BY <1>1, <1>2, WireTail
<1>4. s \in First(origin) /\ s \in First(MaxBlocks)
  <2>1. s \in First(origin)
    BY HeadIsSymbol DEF SysInv
  <2>2. s.origin \in Nat /\ s.origin <= origin
    BY <2>1, SymbolsOfFirst
  <2>3. s.origin <= MaxBlocks
    <3>1. origin \in Nat /\ MaxBlocks \in Nat
      BY <1>1, GatewayAssumption
    <3> QED  BY <2>2, <3>1
  <2>4. s \in AllSymbols /\ s.id = s.origin % IdSpace
    BY <2>1 DEF First
  <2> QED  BY <2>1, <2>3, <2>4 DEF First
<1>5. Sent(s, packets)
  BY <1>1, <1>3
<1>6. s \in arrived => ~s.src
  BY <1>3 DEF OnceSys, Fresh
<1>7. Fresh(wire, arrived)'
  <2>1. Fresh(wire', arrived \cup {s})
    BY <1>1, <1>2, TakenFresh DEF OnceSys
  <2> QED  BY <2>1
<1>8. ASSUME NEW x \in Nat
      PROVE  Cardinality(RepairsIn(wire', x)) + (IF x = s.origin /\ ~s.src THEN 1 ELSE 0)
               <= Cardinality(RepairsIn(wire, x))
  <2>1. /\ Cardinality(RepairsIn(wire', x)) <= Cardinality(RepairsIn(wire, x))
        /\ <<p, 1>> \in RepairsIn(wire, x) =>
             Cardinality(RepairsIn(wire', x)) + 1 <= Cardinality(RepairsIn(wire, x))
    BY <1>1, <1>3, FewerRepairs
  <2>2. x = s.origin /\ ~s.src => <<p, 1>> \in RepairsIn(wire, x)
    <3> SUFFICES ASSUME x = s.origin, ~s.src
                 PROVE  <<p, 1>> \in RepairsIn(wire, x)
      OBVIOUS
    <3>1. \E q \in Ifaces : \E i \in 1 .. Len(wire[q]) :
            <<p, 1>> = <<q, i>> /\ ~wire[q][i].src /\ wire[q][i].origin = x
      BY <1>3
    <3> QED  BY <1>1, <3>1, RepairsInIs
  <2>3. Cardinality(RepairsIn(wire', x)) \in Nat /\ Cardinality(RepairsIn(wire, x)) \in Nat
    BY <1>1
  <2>4. CASE x = s.origin /\ ~s.src
    BY <2>1, <2>2, <2>4
  <2>5. CASE ~(x = s.origin /\ ~s.src)
    BY <2>1, <2>3, <2>5
  <2> QED  BY <2>4, <2>5
<1> QED  BY <1>4, <1>5, <1>6, <1>7, <1>8 DEF Arrives

\* One more symbol of a block has arrived.
LEMMA ArrivedGrows ==
  ASSUME SysInv, SysInv', NEW s, NEW p, Arrives(s, p)
  PROVE  \A o : /\ ArrivedOf(o)' = ArrivedOf(o) \cup (IF o = s.origin THEN {s} ELSE {})
                /\ Cardinality(ArrivedOf(o)) \in Nat /\ Cardinality(ArrivedOf(o)') \in Nat
                /\ Cardinality(ArrivedOf(o)) <= Cardinality(ArrivedOf(o)')
                /\ Cardinality(Reps(ArrivedOf(o)')) \in Nat
                /\ Cardinality(Reps(ArrivedOf(o)))
                     + (IF o = s.origin /\ ~s.src THEN 1 ELSE 0)
                     >= Cardinality(Reps(ArrivedOf(o)'))
<1> SUFFICES ASSUME NEW o
             PROVE  /\ ArrivedOf(o)' = ArrivedOf(o) \cup (IF o = s.origin THEN {s} ELSE {})
                    /\ Cardinality(ArrivedOf(o)) \in Nat /\ Cardinality(ArrivedOf(o)') \in Nat
                    /\ Cardinality(ArrivedOf(o)) <= Cardinality(ArrivedOf(o)')
                    /\ Cardinality(Reps(ArrivedOf(o)')) \in Nat
                    /\ Cardinality(Reps(ArrivedOf(o)))
                         + (IF o = s.origin /\ ~s.src THEN 1 ELSE 0)
                         >= Cardinality(Reps(ArrivedOf(o)'))
  OBVIOUS
<1> DEFINE A == ArrivedOf(o)
           B == A \cup (IF o = s.origin THEN {s} ELSE {})
<1>1. ArrivedOf(o)' = B
  BY DEF ArrivedOf, Arrives
<1>2. /\ IsFiniteSet(A) /\ Cardinality(A) \in Nat /\ Cardinality(Reps(A)) \in Nat
      /\ IsFiniteSet(Reps(A))
  BY SetsOfArrived, SplitCount DEF SysInv
<1> HIDE DEF A
<1>3. IsFiniteSet(B) /\ Cardinality(B) \in Nat /\ Cardinality(A) <= Cardinality(B)
  <2>1. B = A \/ B = A \cup {s}
    OBVIOUS
  <2>2. IsFiniteSet(B) /\ A \in SUBSET B
    BY <1>2, <2>1, FS_AddElement
  <2> HIDE DEF B
  <2> QED  BY <2>2, FS_Subset, FS_CardinalityType
<1>4. /\ Cardinality(Reps(B)) \in Nat
      /\ Cardinality(Reps(A)) + (IF o = s.origin /\ ~s.src THEN 1 ELSE 0)
           >= Cardinality(Reps(B))
  <2>1. Reps(B) = Reps(A) \cup (IF o = s.origin /\ ~s.src THEN {s} ELSE {})
    BY DEF Reps
  <2>2. Cardinality(Reps(A) \cup {s}) = IF s \in Reps(A) THEN Cardinality(Reps(A))
                                                         ELSE Cardinality(Reps(A)) + 1
    BY <1>2, FS_AddElement
  <2> HIDE DEF B
  <2>3. CASE o = s.origin /\ ~s.src
    <3>1. Reps(B) = Reps(A) \cup {s}
      BY <2>1, <2>3
    <3>2. \/ Cardinality(Reps(B)) = Cardinality(Reps(A))
          \/ Cardinality(Reps(B)) = Cardinality(Reps(A)) + 1
      BY <2>2, <3>1
    <3> QED  BY <1>2, <2>3, <3>2
  <2>4. CASE ~(o = s.origin /\ ~s.src)
    <3>1. Reps(B) = Reps(A)
      BY <2>1, <2>4
    <3> QED  BY <1>2, <2>4, <3>1
  <2> QED  BY <2>3, <2>4
<1> QED  BY <1>1, <1>2, <1>3, <1>4 DEF A

\* A symbol of a completed block is stored and may be the last of its repairs.
LEMMA LateGrows ==
  ASSUME SysInv, SysInv', OnceSys, NEW s, NEW p, Arrives(s, p),
         RxP!StoresLate(First(MaxBlocks), s),
         NEW t \in First(MaxBlocks), RxP!IsBlockCompleted(t.id),
         RxP!IsBlockCompleted(t.id)'
  PROVE  \E A \in SUBSET ArrivedOf(t.origin)' : SpentOn(t, A)'
<1>0. PICK S, T : S = RxP!Stored(t) /\ T = RxP!Stored(t)'
  OBVIOUS
<1> DEFINE one == IF t.origin = s.origin /\ ~s.src THEN 1 ELSE 0
<1>1. PICK A \in SUBSET ArrivedOf(t.origin) : SpentOn(t, A)
  BY DEF OnceSys, LateIsFew
<1>2. T \in SUBSET (S \cup IF t.origin = s.origin THEN {s} ELSE {})
  BY <1>0 DEF RxP!StoresLate
<1>3. /\ t.origin \in Nat /\ t \in AllSymbols
      /\ Cardinality(RepairsIn(wire, t.origin)) \in Nat
      /\ Cardinality(RepairsIn(wire', t.origin)) \in Nat
  BY SymbolsOfFirst, FirstAreSymbols, WireSymbols, WiresFew DEF SysInv
<1>4. Cardinality(RepairsIn(wire', t.origin)) + one <= Cardinality(RepairsIn(wire, t.origin))
  BY <1>3 DEF Arrives
<1>5. A \in SUBSET ArrivedOf(t.origin)' /\ A \in SUBSET arrived
  BY DEF Arrives, ArrivedOf
<1>6. \A u \in T : u.src => u \notin A
  <2>1. \A u \in S : u.src => u \notin A
    BY <1>0, <1>1 DEF SpentOn
  <2>2. s.src => s \notin A
    BY <1>5 DEF Arrives
  <2> QED  BY <1>2, <2>1, <2>2
<1>7. IsFiniteSet(S) /\ Cardinality(Reps(A)) \in Nat
  BY <1>0, <1>3, <1>5, SetsOfArrived DEF SysInv
<1>8. /\ Cardinality(Reps(T)) \in Nat /\ Cardinality(Reps(S)) \in Nat
      /\ Cardinality(Reps(T)) <= Cardinality(Reps(S)) + one
  <2>1. IsFiniteSet(Reps(S)) /\ Cardinality(Reps(S)) \in Nat
    BY <1>7, SplitCount
  <2> DEFINE U == IF t.origin = s.origin /\ ~s.src THEN Reps(S) \cup {s} ELSE Reps(S)
  <2>2. Reps(T) \in SUBSET U
    BY <1>2 DEF Reps
  <2>3. /\ IsFiniteSet(Reps(S) \cup {s})
        /\ Cardinality(Reps(S) \cup {s}) = IF s \in Reps(S) THEN Cardinality(Reps(S))
                                                            ELSE Cardinality(Reps(S)) + 1
    BY <2>1, FS_AddElement
  <2>4. IsFiniteSet(U) /\ Cardinality(U) \in Nat /\ Cardinality(U) <= Cardinality(Reps(S)) + one
    <3>1. CASE t.origin = s.origin /\ ~s.src
      BY <2>1, <2>3, <3>1
    <3>2. CASE ~(t.origin = s.origin /\ ~s.src)
      BY <2>1, <3>2
    <3> QED  BY <3>1, <3>2
  <2> HIDE DEF U
  <2>5. IsFiniteSet(Reps(T)) /\ Cardinality(Reps(T)) <= Cardinality(U)
    BY <2>2, <2>4, FS_Subset
  <2>6. Cardinality(Reps(T)) \in Nat
    BY <2>5, FS_CardinalityType
  <2>7. one \in Nat
    OBVIOUS
  <2> HIDE DEF one
  <2> QED  BY <2>1, <2>4, <2>5, <2>6, <2>7
<1>9. one \in Nat
  OBVIOUS
<1> HIDE DEF one
<1>10. Cardinality(Reps(T)) + Cardinality(Reps(A))
         + Cardinality(RepairsIn(wire', t.origin)) <= MostRepairs
  <2>1. Cardinality(Reps(S)) + Cardinality(Reps(A))
          + Cardinality(RepairsIn(wire, t.origin)) <= MostRepairs
    BY <1>0, <1>1 DEF SpentOn
  <2> QED  BY <1>3, <1>4, <1>7, <1>8, <1>9, <2>1, MostRepairsBound
<1>11. SpentOn(t, A)'
  <2>1. Cardinality(A) >= BlockSize
    BY <1>1 DEF SpentOn
  <2> QED  BY <1>0, <1>6, <1>10, <2>1 DEF SpentOn
<1> QED  BY <1>5, <1>11

\* A block is completed with what had arrived of it by then.
LEMMA JustCompleted ==
  ASSUME RxBlockSize = BlockSize, SysInv', RxP!OnceInv(First(MaxBlocks))',
         RepairBudget', CopiesBacked', NEW s, RxP!StoresLate(First(MaxBlocks), s),
         NEW t \in First(MaxBlocks), ~RxP!IsBlockCompleted(t.id),
         RxP!IsBlockCompleted(t.id)'
  PROVE  \E A \in SUBSET ArrivedOf(t.origin)' : SpentOn(t, A)'
<1>0. PICK A : A = ArrivedOf(t.origin)'
  OBVIOUS
<1>1. RxP!Stored(t)' = {}
  BY DEF RxP!StoresLate
<1>2. t.origin \in Nat /\ t.origin \in 1 .. MaxIntercepts
  BY SymbolsOfFirst
<1>3. IsFiniteSet(A)
  <2>1. IsFiniteSet(arrived')
    BY SameFinite DEF SysInv, RxP!StoredInv
  <2>2. A \in SUBSET arrived'
    BY <1>0 DEF ArrivedOf
  <2> QED  BY <2>1, <2>2, FS_Subset
<1>4. \A j \in 0 .. BlockSize - 1 : copies'[<<t.origin, j>>] >= 1
  BY DEF RxP!OnceInv, RxP!AllOut, RxP!Out
<1>5. \A j \in 0 .. BlockSize - 1 :
        \/ \E u \in A : u.esi = j
        \/ Cardinality(A) >= BlockSize
  <2> SUFFICES ASSUME NEW j \in 0 .. BlockSize - 1
               PROVE  \/ \E u \in A : u.esi = j
                      \/ Cardinality(A) >= BlockSize
    OBVIOUS
  <2>1. <<t.origin, j>> \in RxP!Packets
    BY <1>2, OriginsOfSystem
  <2>2. \/ \E u \in arrived' : u.src /\ u.origin = t.origin /\ u.esi = j
        \/ Cardinality(A) >= BlockSize
    BY <1>0, <1>4, <2>1 DEF CopiesBacked
  <2> QED  BY <1>0, <2>2 DEF ArrivedOf
<1>6. Cardinality(A) >= BlockSize
  <2>1. CASE \A j \in 0 .. BlockSize - 1 : \E u \in A : u.esi = j
    BY <1>3, <2>1, SourcesAreEnough
  <2> QED  BY <1>5, <2>1
<1>7. Cardinality(Reps({})) = 0
  <2>1. Reps({}) = {}
    BY DEF Reps
  <2> QED  BY <2>1, FS_EmptySet
<1>8. Cardinality(RepairsIn(wire', t.origin)) + Cardinality(Reps(A)) <= MostRepairs
  BY <1>0, <1>2 DEF RepairBudget
<1>9. Cardinality(Reps(A)) \in Nat /\ Cardinality(RepairsIn(wire', t.origin)) \in Nat
  <2> QED  BY <1>2, <1>3, SplitCount, WiresFew DEF SysInv
<1>10. Cardinality(Reps(RxP!Stored(t)')) + Cardinality(Reps(A))
         + Cardinality(RepairsIn(wire', t.origin)) <= MostRepairs
  BY <1>1, <1>7, <1>8, <1>9, MostRepairsBound
<1>11. SpentOn(t, A)'
  BY <1>1, <1>6, <1>10 DEF SpentOn
<1> QED  BY <1>0, <1>11

LEMMA DeliveringKeepsOnce ==
  ASSUME RxBlockSize = BlockSize, MostRepairs <= BlockSize,
         RxP!Apart(First(MaxBlocks)), SysInv, SysInv', OnceSys,
         origin <= MaxBlocks, NEW p \in Ifaces, Deliver(p)
  PROVE  OnceSys' /\ PD!PdNext
<1> DEFINE G == First(MaxBlocks)
<1>1. /\ wire[p] # <<>> /\ TakeHead(p) /\ packets' = packets /\ dups' = dups
      /\ current' = current /\ origin' = origin /\ blocks' = blocks
  BY DEF Deliver, GatewayIdle
<1>2. PICK s : s = Head(wire[p])
  OBVIOUS
<1>3. RxP!HandleRqSymbol(s) /\ arrived' = arrived \cup {s}
  <2>1. Rx!HandleRqSymbol(s)
    BY <1>2 DEF Deliver
  <2> QED
    BY <2>1, SameHandler DEF Rx!HandleRqSymbol, Rx!DropMalformed, Rx!StoreLate, Rx!Process
<1>4. Arrives(s, p)
  BY <1>1, <1>2, <1>3, DeliveredArrives
<1>5. /\ s \in G /\ s.origin \in Nat /\ Sent(s, packets)
      /\ s \in arrived => ~s.src
      /\ \A x \in Nat : /\ Cardinality(RepairsIn(wire, x)) \in Nat
                        /\ Cardinality(RepairsIn(wire', x)) \in Nat
  BY <1>4, SymbolsOfFirst, WireSymbols, WiresFew DEF Arrives, SysInv
<1>6. /\ RxP!OnceInv(G)' /\ garbled' = garbled
      /\ RxP!StoresLate(G, s)
      /\ \E out \in SUBSET RxP!Packets : RxP!LeavesOnce(s, out)
  <2>1. s \in arrived /\ RxP!IsBlockCompleted(s.id) =>
          RxP!Cardinality(RxP!Stored(s)) < RxBlockSize
    <3> SUFFICES ASSUME s \in arrived, RxP!IsBlockCompleted(s.id)
                 PROVE  Cardinality(RxP!Stored(s)) < BlockSize
      BY SameCardinality
    <3>1. Cardinality(RepairsIn(wire', s.origin)) + 1
            <= Cardinality(RepairsIn(wire, s.origin))
      BY <1>4, <1>5 DEF Arrives
    <3>2. Cardinality(RepairsIn(wire, s.origin)) >= 1
      BY <1>5, <3>1
    <3> QED  BY <1>5, <3>2, LateHasRoom
  <2>2. G \subseteq AllSymbols /\ RxP!OnceInv(G)
    BY FirstAreSymbols DEF OnceSys
  <2> HIDE DEF G
  <2> QED
    BY <1>3, <1>5, <2>1, <2>2, RxAssumptions, RxP!HandledOnce DEF SysInv, G
<1>7. PICK out \in SUBSET RxP!Packets : RxP!LeavesOnce(s, out)
  BY <1>6
<1>8. /\ \A q \in out : /\ q[1] = s.origin /\ copies[q] = 0
                        /\ \/ s.src /\ q[2] = s.esi
                           \/ Cardinality(ArrivedOf(s.origin)') >= BlockSize
      /\ copies' = [q \in RxP!Packets |-> IF q \in out THEN 1 ELSE copies[q]]
  <2>1. RxP!Got(s) \cup {s} = ArrivedOf(s.origin)'
    BY <1>3 DEF RxP!Got, ArrivedOf
  <2>2. RxP!Cardinality(RxP!Got(s) \cup {s}) = Cardinality(ArrivedOf(s.origin)')
    BY <2>1, SameCardinality
  <2> QED  BY <1>7, <2>2 DEF RxP!LeavesOnce
<1>9. ArrivedSent' /\ CurrentTaken' /\ dups' = 0 /\ Fresh(wire, arrived)'
  BY <1>1, <1>3, <1>4 DEF OnceSys, ArrivedSent, CurrentTaken, Arrives
<1>10. RepairBudget'
  <2> SUFFICES ASSUME NEW x \in Nat
               PROVE  Cardinality(RepairsIn(wire', x))
                        + Cardinality(Reps(ArrivedOf(x)')) <= MostRepairs
    BY DEF RepairBudget
  <2> DEFINE one == IF x = s.origin /\ ~s.src THEN 1 ELSE 0
  <2>1. one \in Nat
    OBVIOUS
  <2>2. Cardinality(RepairsIn(wire', x)) + one <= Cardinality(RepairsIn(wire, x))
    BY <1>4 DEF Arrives
  <2>3. /\ Cardinality(Reps(ArrivedOf(x)')) \in Nat
        /\ Cardinality(Reps(ArrivedOf(x))) + one >= Cardinality(Reps(ArrivedOf(x)'))
    BY <1>4, ArrivedGrows
  <2>4. Cardinality(RepairsIn(wire, x)) + Cardinality(Reps(ArrivedOf(x))) <= MostRepairs
    BY DEF OnceSys, RepairBudget
  <2>5. Cardinality(Reps(ArrivedOf(x))) \in Nat
    BY SetsOfArrived DEF SysInv
  <2> HIDE DEF one
  <2> QED  BY <1>5, <2>1, <2>2, <2>3, <2>4, <2>5, MostRepairsBound
<1>11. CopiesBacked'
  <2> SUFFICES ASSUME NEW q \in RxP!Packets, copies'[q] >= 1
               PROVE  \/ \E u \in arrived' : u.src /\ u.origin = q[1] /\ u.esi = q[2]
                      \/ Cardinality(ArrivedOf(q[1])') >= BlockSize
    BY DEF CopiesBacked
  <2>1. CASE q \in out
    BY <1>3, <1>8, <2>1
  <2>2. CASE q \notin out
    <3>1. copies[q] >= 1
      BY <1>8, <2>2
    <3>2. CASE \E u \in arrived : u.src /\ u.origin = q[1] /\ u.esi = q[2]
      BY <1>3, <3>2
    <3>3. CASE Cardinality(ArrivedOf(q[1])) >= BlockSize
      <4>1. /\ Cardinality(ArrivedOf(q[1])) \in Nat
            /\ Cardinality(ArrivedOf(q[1])') \in Nat
            /\ Cardinality(ArrivedOf(q[1])) <= Cardinality(ArrivedOf(q[1])')
        BY <1>4, ArrivedGrows
      <4> QED  BY <3>3, <4>1, EngineSizesAssumption
    <3> QED  BY <3>1, <3>2, <3>3 DEF OnceSys, CopiesBacked
  <2> QED  BY <2>1, <2>2
<1>12. LateIsFew'
  <2> SUFFICES ASSUME NEW t \in G, RxP!IsBlockCompleted(t.id)'
               PROVE  \E A \in SUBSET ArrivedOf(t.origin)' : SpentOn(t, A)'
    BY DEF LateIsFew
  <2>1. t.origin \in Nat /\ t \in AllSymbols
    BY SymbolsOfFirst, FirstAreSymbols
  <2>2. CASE RxP!IsBlockCompleted(t.id)
    BY <1>4, <1>5, <1>6, <2>1, <2>2, LateGrows
  <2>3. CASE ~RxP!IsBlockCompleted(t.id)
    BY <1>6, <1>10, <1>11, <2>1, <2>3, JustCompleted
  <2> QED  BY <2>2, <2>3
<1>13. PD!PdNext
  <2>1. \A q \in out : q \in packets /\ copies[q] = 0
    <3> SUFFICES ASSUME NEW q \in out
                 PROVE  q \in packets
      BY <1>8
    <3>1. q = <<s.origin, q[2]>> /\ q[2] \in 0 .. BlockSize - 1
      <4>1. q \in (1 .. MaxIntercepts) \X (0 .. BlockSize - 1)
        BY OriginsOfSystem
      <4> QED  BY <1>8, <4>1
    <3>2. CASE s.src /\ q[2] = s.esi
      BY <1>5, <3>1, <3>2 DEF Sent
    <3>3. CASE Cardinality(ArrivedOf(s.origin)') >= BlockSize
      <4>1. ArrivedOf(s.origin)' \in SUBSET First(MaxBlocks)
        BY <1>6 DEF RxP!OnceInv, ArrivedOf
      <4>2. IsFiniteSet(ArrivedOf(s.origin)')
        <5>1. IsFiniteSet(ArrivedOf(s.origin)) /\ ArrivedOf(s.origin)' = ArrivedOf(s.origin) \cup {s}
          BY <1>3, SetsOfArrived DEF SysInv, ArrivedOf
        <5> QED  BY <5>1, FS_AddElement
      <4>3. \A u \in ArrivedOf(s.origin)' : u.origin = s.origin /\ Sent(u, packets)
        BY <1>1, <1>9 DEF ArrivedOf, ArrivedSent
      <4>4. \A j \in 0 .. BlockSize - 1 : <<s.origin, j>> \in packets
        BY <3>3, <4>1, <4>2, <4>3, EnoughMeansOffered
      <4> QED  BY <3>1, <4>4
    <3> QED  BY <1>8, <3>2, <3>3
  <2>2. Rx!Packets = RxP!Packets
    BY SameLeaving
  <2>3. PD!Deliver(out)
    BY <1>1, <1>6, <1>8, <2>1, <2>2 DEF PD!Deliver
  <2> QED  BY <2>2, <2>3 DEF PD!PdNext
<1> QED  BY <1>6, <1>9, <1>10, <1>11, <1>12, <1>13 DEF OnceSys

LEMMA SystemStartsOnce ==
  ASSUME MaxDups = 0, SysInit
  PROVE  OnceSys /\ PD!PdInit
<1> DEFINE G == First(MaxBlocks)
<1>1. /\ GwInit /\ Rx!Init /\ dups = 0 /\ GateInv
  BY InitGate DEF SysInit, GwInit
<1>2. /\ packets = {} /\ wire = [q \in Ifaces |-> <<>>] /\ current = NoBlock
      /\ arrived = {} /\ completed = <<>> /\ garbled = FALSE
      /\ copies = [q \in Rx!Packets |-> 0]
  BY <1>1 DEF GwInit, Rx!Init
<1>3. RxP!Init
  BY <1>1, SameLeaving DEF Rx!Init, RxP!Init, Rx!FreeBlock, RxP!FreeBlock,
     Rx!SlotIds, RxP!SlotIds
<1>4. RxP!OnceInv(G)
  <2>1. G \in SUBSET AllSymbols
    BY FirstAreSymbols
  <2> HIDE DEF G
  <2> QED  BY <1>3, <2>1, RxAssumptions, RxP!InitOnce
<1>5. CurrentTaken /\ ArrivedSent /\ CopiesBacked
  BY <1>2, SameLeaving DEF CurrentTaken, ArrivedSent, CopiesBacked
<1>6. RepairBudget
  <2>1. \A o : Reps(ArrivedOf(o)) = {}
    BY <1>2 DEF Reps, ArrivedOf
  <2>2. \A o \in Nat : /\ Cardinality(RepairsIn(wire, o)) \in Nat
                       /\ Cardinality(RepairsIn(wire, o)) <= MostRepairs
    BY <1>1, WireSymbols
  <2>3. Cardinality({}) = 0
    BY FS_EmptySet
  <2> QED  BY <2>1, <2>2, <2>3 DEF RepairBudget
<1>7. Fresh(wire, arrived)
  BY <1>2 DEF Fresh
<1>8. LateIsFew
  BY <1>2 DEF LateIsFew, RxP!IsBlockCompleted
<1>9. PD!PdInit
  BY <1>2 DEF PD!PdInit
<1> QED  BY <1>1, <1>4, <1>5, <1>6, <1>7, <1>8, <1>9 DEF OnceSys

LEMMA SystemKeepsOnce ==
  ASSUME MaxDups = 0, RxBlockSize = BlockSize, MostRepairs <= BlockSize,
         RxP!Apart(First(MaxBlocks)), SysInv, OnceSys, origin <= MaxBlocks,
         [SysNext]_sysVars
  PROVE  OnceSys' /\ [PD!PdNext]_(PD!pdVars)
<1>1. SysInv'
  BY SystemKeeps
<1>2. CASE GatewayStep
  BY <1>1, <1>2, GatewayKeepsOnce DEF GatewayStep
<1>3. ASSUME NEW p \in Ifaces, Deliver(p)
      PROVE  OnceSys' /\ [PD!PdNext]_(PD!pdVars)
  BY <1>1, <1>3, DeliveringKeepsOnce
<1>4. ASSUME NEW p \in Ifaces, Duplicate(p)
      PROVE  FALSE
  BY <1>4 DEF Duplicate, OnceSys
<1>5. ASSUME NEW p \in Ifaces, Lose(p)
      PROVE  OnceSys' /\ [PD!PdNext]_(PD!pdVars)
  BY <1>1, <1>5, LosingKeepsOnce
<1>6. CASE UNCHANGED sysVars
  <2>1. UNCHANGED gwVars /\ UNCHANGED <<rxVars, losses, dups>>
    BY <1>6 DEF sysVars
  <2> QED  BY <1>1, <2>1, GatewayKeepsOnce
<1> QED  BY <1>2, <1>3, <1>4, <1>5, <1>6 DEF SysNext

\* The data path delivers each packet that was put in a block at most once and
\* nothing else, though it may arrive on one path and be decoded from symbols
\* of the other, whatever is lost or overtaken, and though sendto, the codec
\* and its set-up may fail: as long as the network repeats nothing, the two
\* sides agree on --block-size, no block is given more repairs than it has
\* packets, repairs have ESIs of their own, and every block opened so far has
\* a slot of its own.  Two repairs of a block may have the same ESI; then with
\* more of them than packets a completed block could be decoded again from
\* those that come late.
THEOREM DeliveredAtMostOnce ==
  ASSUME MaxDups = 0, RxBlockSize = BlockSize, MostRepairs <= BlockSize,
         MaxBlocks <= IdSpace, RepairEsis \cap (0 .. BlockSize - 1) = {}
  PROVE  SysSpec /\ [](origin <= MaxBlocks) => ImplementsDelivery
<1>1. RxP!Apart(First(MaxBlocks))
  BY FirstAreApart
<1>2. SysInit => SysInv /\ OnceSys /\ PD!PdInit
  BY SystemStarts, SystemStartsOnce
<1>3. SysInv /\ OnceSys /\ origin <= MaxBlocks /\ [SysNext]_sysVars
        => SysInv' /\ OnceSys' /\ [PD!PdNext]_(PD!pdVars)
  BY <1>1, SystemKeeps, SystemKeepsOnce
<1> QED  BY <1>2, <1>3, PTL DEF SysSpec, ImplementsDelivery, PD!PdSpec
=============================================================================
