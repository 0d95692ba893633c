-------------------------- MODULE RqReceiverProofs --------------------------
(***************************************************************************)
(* Theorems about the RaptorQ receiver, for every set of symbols, every    *)
(* table size and every outcome of the calls that can fail.  The lemmas    *)
(* named Handled... say what one datagram, whenever it arrives, preserves; *)
(* the proofs about the whole data path use them too.                      *)
(***************************************************************************)
EXTENDS RqReceiver, FiniteSetTheorems, TLAPS

-----------------------------------------------------------------------------
(* What the helpers return *)

LEMMA SlotInRange == \A id \in Nat : Slot(id) \in SlotIds
  BY SizesAssumption DEF Slot, SlotIds

LEMMA FreeBlockType == FreeBlock \in Block
  BY SizesAssumption DEF FreeBlock, Block

LEMMA GetBlockType ==
  ASSUME TypeOK, NEW id \in Nat
  PROVE  /\ GetBlock(id) \in Block
         /\ GetBlock(id).inUse /\ GetBlock(id).id = id
<1>1. slots[Slot(id)] \in Block
  BY SlotInRange DEF TypeOK
<1>2. CASE slots[Slot(id)].inUse /\ slots[Slot(id)].id = id
  BY <1>1, <1>2 DEF GetBlock
<1>3. CASE ~(slots[Slot(id)].inUse /\ slots[Slot(id)].id = id)
  BY <1>3, FreeBlockType DEF GetBlock, FreeBlock, Block
<1>4. QED  BY <1>2, <1>3

\* The number of symbols the receiver takes a block to have.
LEMMA BlockLength ==
  \A k \in Nat :
    (IF k = 0 \/ k > BlockSize THEN BlockSize ELSE k) \in 1 .. BlockSize
  BY SizesAssumption

LEMMA InitDecoderType ==
  ASSUME NEW b \in Block, NEW k \in Nat, NEW ok \in BOOLEAN
  PROVE  /\ InitDecoder(b, k, ok) \in Block
         /\ InitDecoder(b, k, ok).id = b.id
         /\ InitDecoder(b, k, ok).inUse = b.inUse
<1> DEFINE K == IF k = 0 \/ k > BlockSize THEN BlockSize ELSE k
<1>1. K \in 0 .. BlockSize
  BY BlockLength, SizesAssumption
<1> HIDE DEF K
<1>2. 0 \in Nat /\ {} \in SUBSET Symbols /\ FALSE \in BOOLEAN
  OBVIOUS
<1>3. CASE b.ready
  BY <1>3 DEF InitDecoder
<1>4. CASE ~b.ready
  <2> DEFINE c == [b EXCEPT !.ready = ok, !.K = K, !.stored = {},
                            !.fwdCount = 0, !.nsrc = 0, !.npar = 0,
                            !.counted = FALSE]
  <2>1. InitDecoder(b, k, ok) = c
    BY <1>4 DEF InitDecoder, K
  <2>2. c \in Block
    BY <1>1, <1>2, Zenon DEF Block
  <2>3. c.id = b.id /\ c.inUse = b.inUse
    BY Zenon DEF Block
  <2> QED  BY <2>1, <2>2, <2>3
<1> QED  BY <1>3, <1>4

LEMMA StoreSymbolType ==
  ASSUME NEW b \in Block, NEW s \in Symbols
  PROVE  /\ StoreSymbol(b, s) \in Block
         /\ StoreSymbol(b, s).id = b.id
         /\ StoreSymbol(b, s).inUse = b.inUse
<1> DEFINE ns == IF s.src THEN b.nsrc + 1 ELSE b.nsrc
           np == IF s.src THEN b.npar ELSE b.npar + 1
           st == IF Cardinality(b.stored) < MaxSyms
                 THEN b.stored \cup {s} ELSE b.stored
<1>1. ns \in Nat /\ np \in Nat /\ st \in SUBSET Symbols
  BY DEF Block
<1>2. StoreSymbol(b, s) = [b EXCEPT !.nsrc = ns, !.npar = np, !.stored = st]
  BY DEF StoreSymbol, Block
<1> HIDE DEF ns, np, st
<1> QED  BY <1>1, <1>2 DEF Block

LEMMA ForwardSourceType ==
  ASSUME NEW b \in Block, NEW s \in Symbols, NEW ok \in BOOLEAN
  PROVE  /\ ForwardSource(b, s, ok) \in Block
         /\ ForwardSource(b, s, ok).id = b.id
         /\ ForwardSource(b, s, ok).inUse = b.inUse
<1>1. s \in Symbol
  BY SymbolsAssumption
<1>2. CASE s.src /\ s.esi < b.K /\ s.esi \notin b.fwd /\ ok
  <2>1. b.fwd \cup {s.esi} \in SUBSET (0 .. BlockSize - 1)
    BY <1>1, <1>2, SizesAssumption DEF Block, Symbol
  <2>2. b.fwdCount + 1 \in Nat
    BY DEF Block
  <2>3. ForwardSource(b, s, ok) =
          [b EXCEPT !.fwd = b.fwd \cup {s.esi}, !.fwdCount = b.fwdCount + 1]
    BY <1>2 DEF ForwardSource, Block
  <2> QED  BY <2>1, <2>2, <2>3 DEF Block
<1>3. CASE ~(s.src /\ s.esi < b.K /\ s.esi \notin b.fwd /\ ok)
  BY <1>3 DEF ForwardSource
<1> QED  BY <1>2, <1>3

LEMMA IndexSetsFinite ==
  \A S \in SUBSET (0 .. BlockSize - 1) : IsFiniteSet(S)
<1>1. IsFiniteSet(0 .. BlockSize - 1)
  <2>1. 0 \in Int /\ BlockSize - 1 \in Int
    BY SizesAssumption
  <2> QED  BY <2>1, FS_Interval
<1> QED  BY <1>1, FS_Subset

LEMMA DecodedType ==
  ASSUME NEW b \in Block, NEW sent \in SUBSET (0 .. BlockSize - 1)
  PROVE  /\ Decoded(b, sent) \in Block
         /\ Decoded(b, sent).id = b.id
         /\ Decoded(b, sent).inUse = b.inUse
<1>1. IsFiniteSet(sent)
  BY IndexSetsFinite
<1>2. Cardinality(sent) \in Nat
  BY <1>1, FS_CardinalityType
<1>3. /\ b.fwd \cup sent \in SUBSET (0 .. BlockSize - 1)
      /\ b.fwdCount + Cardinality(sent) \in Nat
      /\ (b.usedFec \/ sent # {}) \in BOOLEAN
      /\ TRUE \in BOOLEAN
  <2>1. b.fwd \cup sent \in SUBSET (0 .. BlockSize - 1)
    BY DEF Block
  <2>2. b.fwdCount + Cardinality(sent) \in Nat
    BY <1>2 DEF Block
  <2> QED  BY <2>1, <2>2
<1>4. Decoded(b, sent) \in Block
  BY <1>3, Zenon DEF Decoded, Block
<1> QED  BY <1>4, Zenon DEF Decoded, Block

LEMMA TryDecodeType ==
  ASSUME NEW b \in Block, NEW d \in TryDecode(b)
  PROVE  d \in Block /\ d.id = b.id /\ d.inUse = b.inUse
<1>1. CASE d = b
  BY <1>1
<1>2. CASE \E sent \in SUBSET (0 .. BlockSize - 1) : d = Decoded(b, sent)
  BY <1>2, DecodedType
<1>3. d = b \/ \E sent \in SUBSET (0 .. BlockSize - 1) : d = Decoded(b, sent)
  <2>1. (0 .. b.K - 1) \ b.fwd \subseteq 0 .. BlockSize - 1
    BY SizesAssumption DEF Block
  <2> QED  BY <2>1 DEF TryDecode, SendResults
<1>4. QED  BY <1>1, <1>2, <1>3

LEMMA OpenedType ==
  ASSUME TypeOK, NEW s \in Symbols, NEW ok \in BOOLEAN
  PROVE  /\ Opened(s, ok) \in Block
         /\ Opened(s, ok).id = s.id
         /\ Opened(s, ok).inUse
<1>1. s.id \in Nat /\ s.k \in Nat
  BY SymbolsAssumption DEF Symbol
<1>2. /\ GetBlock(s.id) \in Block
      /\ GetBlock(s.id).inUse
      /\ GetBlock(s.id).id = s.id
  BY <1>1, GetBlockType
<1> QED  BY <1>1, <1>2, InitDecoderType DEF Opened

-----------------------------------------------------------------------------
(* What Process does, for the proofs about it *)

\* Process(s) takes the block of s from b0 to b3 and then finishes with it.
ProcessStages(s, b0, b1, b2, b3) ==
  /\ b1 = IF HasEsi(b0, s.esi) THEN b0 ELSE StoreSymbol(b0, s)
  /\ PassesDiscard(b0, s)
  /\ \E ok \in SendOutcomes : b2 = ForwardSource(b1, s, ok)
  /\ b3 \in TryDecode(b2)
  /\ Finish(b3, [CountFragment(s) EXCEPT
                   !.consumed = @ + IF b3.decoded /\ ~b2.decoded
                                    THEN Consumed(b2) ELSE 0])

\* All that Process does with the stages, and what leaves.
Leaving(s, b1, b2, b3) ==
  (IF b2.fwd # b1.fwd THEN {<<s.origin, s.esi>>} ELSE {})
    \cup DecodedPackets(b2, b3.fwd \ b2.fwd)

ProcessSends(s, b0, b1, b2, b3) ==
  /\ ProcessStages(s, b0, b1, b2, b3)
  /\ CountCopies(Leaving(s, b1, b2, b3))
  /\ garbled' = (garbled \/ \E i \in b3.fwd \ b2.fwd :
                   \A o \in Origins : ~DecodesTo(b2, o))
  /\ arrived' = arrived \cup {s}

LEMMA ProcessInSends ==
  ASSUME TypeOK, NEW s \in Symbols, Process(s)
  PROVE  \E ok \in InitOutcomes :
           \E b1, b2, b3 \in Block :
             /\ ProcessSends(s, Opened(s, ok), b1, b2, b3)
             /\ b1.id = s.id /\ b1.inUse
             /\ b2.id = s.id /\ b2.inUse
             /\ b3.id = s.id /\ b3.inUse
<1>1. PICK ok \in InitOutcomes, sendOk \in SendOutcomes :
        LET b0 == Opened(s, ok)
            b1 == IF HasEsi(b0, s.esi) THEN b0 ELSE StoreSymbol(b0, s)
            b2 == ForwardSource(b1, s, sendOk)
        IN  /\ PassesDiscard(b0, s)
            /\ \E b3 \in TryDecode(b2) :
                 /\ Finish(b3, [CountFragment(s) EXCEPT
                      !.consumed = @ + IF b3.decoded /\ ~b2.decoded
                                       THEN Consumed(b2) ELSE 0])
                 /\ CountCopies(Leaving(s, b1, b2, b3))
                 /\ garbled' = (garbled \/ \E i \in b3.fwd \ b2.fwd :
                      \A o \in Origins : ~DecodesTo(b2, o))
  BY DEF Process, Leaving
<1> DEFINE b0 == Opened(s, ok)
           b1 == IF HasEsi(b0, s.esi) THEN b0 ELSE StoreSymbol(b0, s)
           b2 == ForwardSource(b1, s, sendOk)
<1>2. ok \in BOOLEAN /\ sendOk \in BOOLEAN
  BY OutcomesAssumption
<1>3. b0 \in Block /\ b0.id = s.id /\ b0.inUse
  BY <1>2, OpenedType
<1>4. b1 \in Block /\ b1.id = s.id /\ b1.inUse
  BY <1>3, StoreSymbolType
<1>5. b2 \in Block /\ b2.id = s.id /\ b2.inUse
  BY <1>2, <1>4, ForwardSourceType
<1>6. PICK b3 \in TryDecode(b2) :
        /\ PassesDiscard(b0, s)
        /\ Finish(b3, [CountFragment(s) EXCEPT
             !.consumed = @ + IF b3.decoded /\ ~b2.decoded
                              THEN Consumed(b2) ELSE 0])
        /\ CountCopies(Leaving(s, b1, b2, b3))
        /\ garbled' = (garbled \/ \E i \in b3.fwd \ b2.fwd :
             \A o \in Origins : ~DecodesTo(b2, o))
  BY <1>1
<1>7. b3 \in Block /\ b3.id = s.id /\ b3.inUse
  BY <1>5, TryDecodeType
<1>8. arrived' = arrived \cup {s}
  BY DEF Process
<1>9. ProcessStages(s, b0, b1, b2, b3)
  BY <1>6 DEF ProcessStages
<1> HIDE DEF b0, b1, b2
<1>10. ProcessSends(s, b0, b1, b2, b3)
  BY <1>6, <1>8, <1>9 DEF ProcessSends
<1> QED  BY <1>4, <1>5, <1>7, <1>10 DEF b0

LEMMA ProcessInStages ==
  ASSUME TypeOK, NEW s \in Symbols, Process(s)
  PROVE  \E ok \in InitOutcomes :
           \E b1, b2, b3 \in Block :
             /\ ProcessStages(s, Opened(s, ok), b1, b2, b3)
             /\ b1.id = s.id /\ b1.inUse
             /\ b2.id = s.id /\ b2.inUse
             /\ b3.id = s.id /\ b3.inUse
<1>1. PICK ok \in InitOutcomes : \E b1, b2, b3 \in Block :
        /\ ProcessSends(s, Opened(s, ok), b1, b2, b3)
        /\ b1.id = s.id /\ b1.inUse
        /\ b2.id = s.id /\ b2.inUse
        /\ b3.id = s.id /\ b3.inUse
  BY ProcessInSends
<1> QED  BY <1>1 DEF ProcessSends

-----------------------------------------------------------------------------
(* Type correctness *)

LEMMA CountFragmentType ==
  ASSUME TypeOK, NEW s \in Symbols
  PROVE  /\ CountFragment(s) \in Stats
         /\ CountFragment(s).gens = stats.gens
         /\ CountFragment(s).noLoss = stats.noLoss
         /\ CountFragment(s).repaired = stats.repaired
         /\ CountFragment(s).decodeFail = stats.decodeFail
         /\ CountFragment(s).consumed = stats.consumed
<1>1. stats \in Stats /\ stats.data + 1 \in Nat /\ stats.parity + 1 \in Nat
  BY DEF TypeOK, Stats
<1>2. CASE s.src
  <2>1. CountFragment(s) = [stats EXCEPT !.data = stats.data + 1]
    BY <1>2 DEF CountFragment
  <2> QED  BY <1>1, <2>1 DEF Stats
<1>3. CASE ~s.src
  <2>1. CountFragment(s) = [stats EXCEPT !.parity = stats.parity + 1]
    BY <1>3 DEF CountFragment
  <2> QED  BY <1>1, <2>1 DEF Stats
<1> QED  BY <1>2, <1>3

LEMMA ConsumedType == \A b \in Block : Consumed(b) \in Nat
  BY DEF Consumed, Block

LEMMA AddConsumed ==
  ASSUME NEW c \in Stats, NEW n \in Nat
  PROVE  /\ [c EXCEPT !.consumed = @ + n] \in Stats
         /\ [c EXCEPT !.consumed = @ + n].gens = c.gens
         /\ [c EXCEPT !.consumed = @ + n].noLoss = c.noLoss
         /\ [c EXCEPT !.consumed = @ + n].repaired = c.repaired
         /\ [c EXCEPT !.consumed = @ + n].decodeFail = c.decodeFail
  BY DEF Stats

\* A complete block raises exactly one of the two classes of generations.
LEMMA FinalizeCounts ==
  ASSUME NEW b \in Block, NEW c \in Stats,
         AllForwarded(b), FinalizeBlock(b, c)
  PROVE  /\ stats' \in Stats
         /\ stats'.gens = c.gens + 1
         /\ stats'.noLoss + stats'.repaired = c.noLoss + c.repaired + 1
         /\ stats'.decodeFail = c.decodeFail
<1> DEFINE g == c.gens + 1
           n == IF b.usedFec THEN c.noLoss ELSE c.noLoss + 1
           r == IF b.usedFec THEN c.repaired + 1 ELSE c.repaired
<1>1. /\ g \in Nat /\ n \in Nat /\ r \in Nat /\ c.decodeFail \in Nat
      /\ n + r = c.noLoss + c.repaired + 1
  BY DEF Stats
<1>2. stats' = [c EXCEPT !.gens = g, !.noLoss = n, !.repaired = r,
                         !.decodeFail = c.decodeFail]
  BY DEF FinalizeBlock
<1>3. g = c.gens + 1
  OBVIOUS
<1> HIDE DEF g, n, r
<1>4. stats' \in Stats
  BY <1>1, <1>2, Zenon DEF Stats
<1>5. /\ stats'.gens = g
      /\ stats'.noLoss = n
      /\ stats'.repaired = r
      /\ stats'.decodeFail = c.decodeFail
  BY <1>2, Zenon DEF Stats
<1> QED  BY <1>1, <1>3, <1>4, <1>5

LEMMA FinishType ==
  ASSUME TypeOK, NEW b \in Block, NEW c \in Stats, Finish(b, c)
  PROVE  /\ slots' \in [SlotIds -> Block]
         /\ completed' \in Seq(Nat)
         /\ stats' \in Stats
<1>1. b.id \in Nat
  BY DEF Block
<1>2. CASE AllForwarded(b) /\ FinalizeBlock(b, c)
  <2>1. slots' \in [SlotIds -> Block]
    BY <1>2, FreeBlockType DEF FinalizeBlock, TypeOK
  <2>2. completed' \in Seq(Nat)
    BY <1>1, <1>2 DEF FinalizeBlock, MarkBlockCompleted, TypeOK
  <2>3. stats' \in Stats
    BY <1>2, FinalizeCounts
  <2> QED  BY <2>1, <2>2, <2>3
<1>3. CASE /\ ~AllForwarded(b)
           /\ slots' = [slots EXCEPT ![Slot(b.id)] = b]
           /\ stats' = c
           /\ UNCHANGED completed
  BY <1>3 DEF TypeOK
<1> QED  BY <1>2, <1>3 DEF Finish

LEMMA CountCopiesType ==
  ASSUME TypeOK, NEW out, CountCopies(out)
  PROVE  copies' \in [Packets -> 0 .. 2]
<1>1. \A p \in Packets : copies[p] \in 0 .. 2
  BY DEF TypeOK
<1> QED  BY <1>1 DEF CountCopies

LEMMA StoreLateType ==
  ASSUME TypeOK, NEW s \in Symbols, StoreLate(s)
  PROVE  TypeOK'
<1>1. PICK ok \in InitOutcomes :
        slots' = [slots EXCEPT ![Slot(s.id)] = StoreSymbol(Opened(s, ok), s)]
  BY DEF StoreLate
<1>2. StoreSymbol(Opened(s, ok), s) \in Block
  BY OutcomesAssumption, OpenedType, StoreSymbolType
<1>3. slots' \in [SlotIds -> Block]
  BY <1>1, <1>2 DEF TypeOK
<1> QED  BY <1>3, CountFragmentType DEF StoreLate, TypeOK

LEMMA ProcessType ==
  ASSUME TypeOK, NEW s \in Symbols, Process(s)
  PROVE  TypeOK'
<1>1. PICK ok \in InitOutcomes : \E b1, b2, b3 \in Block :
        ProcessStages(s, Opened(s, ok), b1, b2, b3)
  BY ProcessInStages
<1>2. PICK b1 \in Block, b2 \in Block, b3 \in Block :
        ProcessStages(s, Opened(s, ok), b1, b2, b3)
  BY <1>1
<1> DEFINE n == IF b3.decoded /\ ~b2.decoded THEN Consumed(b2) ELSE 0
<1>3. [CountFragment(s) EXCEPT !.consumed = @ + n] \in Stats
  <2>1. n \in Nat
    BY ConsumedType
  <2> HIDE DEF n
  <2> QED  BY <2>1, CountFragmentType, AddConsumed
<1>4. /\ slots' \in [SlotIds -> Block]
      /\ completed' \in Seq(Nat)
      /\ stats' \in Stats
  BY <1>2, <1>3, FinishType DEF ProcessStages
<1>5. copies' \in [Packets -> 0 .. 2]
  BY CountCopiesType DEF Process
<1>6. garbled' \in BOOLEAN
  BY DEF Process, TypeOK
<1>7. arrived' \in SUBSET Symbols
  BY DEF Process, TypeOK
<1> QED  BY <1>4, <1>5, <1>6, <1>7 DEF TypeOK

LEMMA HandledTypes ==
  ASSUME TypeOK, NEW s \in Symbols, HandleRqSymbol(s)
  PROVE  TypeOK'
<1>1. CASE DropMalformed(s)
  BY <1>1, CountFragmentType DEF DropMalformed, TypeOK
<1>2. CASE StoreLate(s)
  BY <1>2, StoreLateType
<1>3. CASE Process(s)
  BY <1>3, ProcessType
<1> QED  BY <1>1, <1>2, <1>3 DEF HandleRqSymbol

LEMMA InitTypes == Init => TypeOK
<1> SUFFICES ASSUME Init
             PROVE  TypeOK
  OBVIOUS
<1>1. stats \in Stats
  BY DEF Init, Stats
<1>2. slots \in [SlotIds -> Block]
  BY FreeBlockType DEF Init
<1>3. copies \in [Packets -> 0 .. 2]
  BY DEF Init
<1>4. completed \in Seq(Nat)
  BY DEF Init
<1>5. garbled \in BOOLEAN /\ arrived \in SUBSET Symbols
  BY DEF Init
<1> QED  BY <1>1, <1>2, <1>3, <1>4, <1>5 DEF TypeOK

\* The receiver's state keeps its types whatever arrives and whatever fails.
THEOREM ReceiverTypes == Spec => []TypeOK
<1>1. Init => TypeOK
  BY InitTypes
<1>2. TypeOK /\ [Next]_vars => TypeOK'
  BY HandledTypes DEF Next, vars, TypeOK
<1> QED  BY <1>1, <1>2, PTL DEF Spec

-----------------------------------------------------------------------------
(* The counters *)

LEMMA FinishCounters ==
  ASSUME TypeOK, CountersAddUp, NEW b \in Block, NEW c \in Stats,
         c.gens = stats.gens, c.noLoss = stats.noLoss,
         c.repaired = stats.repaired, c.decodeFail = stats.decodeFail,
         Finish(b, c)
  PROVE  CountersAddUp'
<1>1. CASE AllForwarded(b) /\ FinalizeBlock(b, c)
  <2>1. /\ stats'.gens = stats.gens + 1
        /\ stats'.noLoss + stats'.repaired = stats.noLoss + stats.repaired + 1
        /\ stats'.decodeFail = 0
    BY <1>1, FinalizeCounts DEF CountersAddUp
  <2>2. stats.gens \in Nat /\ b.id \in Nat
    BY DEF TypeOK, Stats, Block
  <2>3. Len(completed') = IF Len(completed) < MaxBlocks
                          THEN Len(completed) + 1 ELSE Len(completed)
    BY <1>1, <2>2 DEF FinalizeBlock, MarkBlockCompleted, TypeOK
  <2> QED  BY <2>1, <2>2, <2>3, SizesAssumption DEF CountersAddUp
<1>2. CASE stats' = c /\ UNCHANGED completed
  BY <1>2 DEF CountersAddUp
<1> QED  BY <1>1, <1>2 DEF Finish

LEMMA ProcessCounters ==
  ASSUME TypeOK, CountersAddUp, NEW s \in Symbols, Process(s)
  PROVE  CountersAddUp'
<1>1. PICK ok \in InitOutcomes : \E b1, b2, b3 \in Block :
        ProcessStages(s, Opened(s, ok), b1, b2, b3)
  BY ProcessInStages
<1>2. PICK b1 \in Block, b2 \in Block, b3 \in Block :
        ProcessStages(s, Opened(s, ok), b1, b2, b3)
  BY <1>1
<1> DEFINE n == IF b3.decoded /\ ~b2.decoded THEN Consumed(b2) ELSE 0
           c == [CountFragment(s) EXCEPT !.consumed = @ + n]
<1>3. /\ c \in Stats
      /\ c.gens = stats.gens /\ c.noLoss = stats.noLoss
      /\ c.repaired = stats.repaired /\ c.decodeFail = stats.decodeFail
  <2>1. n \in Nat
    BY ConsumedType
  <2> HIDE DEF n
  <2> QED  BY <2>1, CountFragmentType, AddConsumed
<1>4. Finish(b3, c)
  BY <1>2 DEF ProcessStages
<1> HIDE DEF c
<1> QED  BY <1>3, <1>4, FinishCounters

\* The generation counters add up and no decode failure is ever counted,
\* whatever arrives and however often decoding or forwarding fails: the
\* decode_failures a run is judged by cannot be anything but zero.
THEOREM CountersAlwaysAddUp == Spec => []CountersAddUp
<1>1. Init => CountersAddUp
  BY SizesAssumption DEF Init, CountersAddUp
<1>2. TypeOK /\ CountersAddUp /\ [Next]_vars => CountersAddUp'
  <2> SUFFICES ASSUME TypeOK, CountersAddUp, [Next]_vars
               PROVE  CountersAddUp'
    OBVIOUS
  <2>1. ASSUME NEW s \in Symbols, DropMalformed(s)
        PROVE  CountersAddUp'
    BY <2>1, CountFragmentType DEF DropMalformed, CountersAddUp
  <2>2. ASSUME NEW s \in Symbols, StoreLate(s)
        PROVE  CountersAddUp'
    BY <2>2, CountFragmentType DEF StoreLate, CountersAddUp
  <2>3. ASSUME NEW s \in Symbols, Process(s)
        PROVE  CountersAddUp'
    BY <2>3, ProcessCounters
  <2>4. CASE UNCHANGED vars
    BY <2>4 DEF vars, CountersAddUp
  <2> QED  BY <2>1, <2>2, <2>3, <2>4 DEF Next, HandleRqSymbol
<1> QED  BY <1>1, <1>2, ReceiverTypes, PTL DEF Spec

-----------------------------------------------------------------------------
(* Nothing is fabricated *)

\* What a block in use holds: symbols of its own id, and the length all the
\* symbols of that id announce.
HoldsOwn(b) ==
  /\ \A t \in b.stored : t.id = b.id
  /\ \A t \in Symbols : t.id = b.id => b.K = t.k

SlotsHoldOwn == \A i \in SlotIds : slots[i].inUse => HoldsOwn(slots[i])

FabricationInv == IdsIdentifyBlocks => SlotsHoldOwn /\ ~garbled

LEMMA InitDecoderHoldsOwn ==
  ASSUME IdsIdentifyBlocks, NEW b \in Block, NEW s \in Symbols,
         NEW ok \in BOOLEAN, b.id = s.id, b.ready => HoldsOwn(b)
  PROVE  HoldsOwn(InitDecoder(b, s.k, ok))
<1>1. CASE b.ready
  BY <1>1 DEF InitDecoder
<1>2. CASE ~b.ready
  <2> DEFINE K == IF s.k = 0 \/ s.k > BlockSize THEN BlockSize ELSE s.k
             d == InitDecoder(b, s.k, ok)
  <2>1. K = s.k
    BY SizesAssumption DEF IdsIdentifyBlocks
  <2>2. d = [b EXCEPT !.ready = ok, !.K = K, !.stored = {}, !.fwdCount = 0,
                      !.nsrc = 0, !.npar = 0, !.counted = FALSE]
    BY <1>2 DEF InitDecoder
  <2> HIDE DEF K, d
  <2>3. d.id = b.id /\ d.stored = {} /\ d.K = K
    BY <2>2, Zenon DEF Block
  <2> QED  BY <2>1, <2>3 DEF HoldsOwn, IdsIdentifyBlocks, d
<1> QED  BY <1>1, <1>2

LEMMA OpenedHoldsOwn ==
  ASSUME TypeOK, IdsIdentifyBlocks, SlotsHoldOwn,
         NEW s \in Symbols, NEW ok \in BOOLEAN
  PROVE  HoldsOwn(Opened(s, ok))
<1>1. s.id \in Nat
  BY SymbolsAssumption DEF Symbol
<1>2. GetBlock(s.id) \in Block /\ GetBlock(s.id).id = s.id
  BY <1>1, GetBlockType
<1>3. GetBlock(s.id).ready => HoldsOwn(GetBlock(s.id))
  BY <1>1, SlotInRange DEF GetBlock, FreeBlock, SlotsHoldOwn
<1> QED  BY <1>2, <1>3, InitDecoderHoldsOwn DEF Opened

LEMMA StoreSymbolHoldsOwn ==
  ASSUME NEW b \in Block, NEW s \in Symbols, b.id = s.id, HoldsOwn(b)
  PROVE  HoldsOwn(StoreSymbol(b, s))
<1>1. /\ StoreSymbol(b, s).id = b.id
      /\ StoreSymbol(b, s).K = b.K
      /\ StoreSymbol(b, s).stored \subseteq b.stored \cup {s}
  BY DEF StoreSymbol, Block
<1> QED  BY <1>1 DEF HoldsOwn

LEMMA ForwardingKeepsSymbols ==
  ASSUME NEW b \in Block, NEW s, NEW ok, NEW d, d \in Block,
         d = ForwardSource(b, s, ok) \/ d \in TryDecode(b)
  PROVE  d.id = b.id /\ d.K = b.K /\ d.stored = b.stored
<1>1. CASE d = ForwardSource(b, s, ok)
  BY <1>1 DEF ForwardSource, Block
<1>2. CASE d \in TryDecode(b)
  <2>1. d = b \/ \E sent : d = Decoded(b, sent)
    BY <1>2 DEF TryDecode
  <2> QED  BY <2>1, Zenon DEF Decoded, Block
<1> QED  BY <1>1, <1>2

LEMMA StoreLateHoldsOwn ==
  ASSUME TypeOK, IdsIdentifyBlocks, SlotsHoldOwn,
         NEW s \in Symbols, StoreLate(s)
  PROVE  SlotsHoldOwn'
<1>1. PICK ok \in InitOutcomes :
        slots' = [slots EXCEPT ![Slot(s.id)] = StoreSymbol(Opened(s, ok), s)]
  BY DEF StoreLate
<1>2. ok \in BOOLEAN
  BY OutcomesAssumption
<1>3. HoldsOwn(StoreSymbol(Opened(s, ok), s))
  BY <1>2, OpenedType, OpenedHoldsOwn, StoreSymbolHoldsOwn
<1> QED  BY <1>1, <1>3 DEF SlotsHoldOwn, TypeOK

LEMMA FinishHoldsOwn ==
  ASSUME TypeOK, SlotsHoldOwn, NEW b \in Block, NEW c,
         HoldsOwn(b), Finish(b, c)
  PROVE  SlotsHoldOwn'
<1>1. CASE slots' = [slots EXCEPT ![Slot(b.id)] = FreeBlock]
  BY <1>1 DEF SlotsHoldOwn, TypeOK, FreeBlock
<1>2. CASE slots' = [slots EXCEPT ![Slot(b.id)] = b]
  BY <1>2 DEF SlotsHoldOwn, TypeOK
<1> QED  BY <1>1, <1>2 DEF Finish, FinalizeBlock

LEMMA ProcessFabricatesNothing ==
  ASSUME TypeOK, IdsIdentifyBlocks, SlotsHoldOwn, ~garbled,
         NEW s \in Symbols, Process(s)
  PROVE  SlotsHoldOwn' /\ ~garbled'
<1>1. PICK ok \in InitOutcomes, sendOk \in SendOutcomes :
        LET b0 == Opened(s, ok)
            b1 == IF HasEsi(b0, s.esi) THEN b0 ELSE StoreSymbol(b0, s)
            b2 == ForwardSource(b1, s, sendOk)
        IN  \E b3 \in TryDecode(b2) :
              /\ \E c : Finish(b3, c)
              /\ garbled' = (garbled \/ \E i \in b3.fwd \ b2.fwd :
                   \A o \in Origins : ~DecodesTo(b2, o))
  BY DEF Process
<1> DEFINE b0 == Opened(s, ok)
           b1 == IF HasEsi(b0, s.esi) THEN b0 ELSE StoreSymbol(b0, s)
           b2 == ForwardSource(b1, s, sendOk)
<1>2. ok \in BOOLEAN /\ sendOk \in BOOLEAN
  BY OutcomesAssumption
<1>3. b0 \in Block /\ b0.id = s.id /\ HoldsOwn(b0)
  BY <1>2, OpenedType, OpenedHoldsOwn
<1>4. b1 \in Block /\ b1.id = s.id /\ HoldsOwn(b1)
  BY <1>3, StoreSymbolType, StoreSymbolHoldsOwn
<1>5. b2 \in Block /\ b2.id = s.id /\ HoldsOwn(b2)
  <2>1. b2 \in Block
    BY <1>2, <1>4, ForwardSourceType
  <2> QED  BY <1>4, <2>1, ForwardingKeepsSymbols DEF HoldsOwn
<1>6. PICK b3 \in TryDecode(b2) :
        /\ \E c : Finish(b3, c)
        /\ garbled' = (garbled \/ \E i \in b3.fwd \ b2.fwd :
             \A o \in Origins : ~DecodesTo(b2, o))
  BY <1>1
<1>7. b3 \in Block /\ HoldsOwn(b3)
  <2>1. b3 \in Block
    BY <1>5, TryDecodeType
  <2> QED  BY <1>5, <2>1, ForwardingKeepsSymbols DEF HoldsOwn
<1>8. s.origin \in Origins /\ DecodesTo(b2, s.origin)
  <2>1. \A t \in b2.stored : t \in Symbols
    BY <1>5 DEF Block
  <2> HIDE DEF b2
  <2> QED  BY <1>5, <2>1 DEF HoldsOwn, DecodesTo, IdsIdentifyBlocks, Origins
<1>9. ~garbled'
  BY <1>6, <1>8
<1> QED  BY <1>6, <1>7, <1>9, FinishHoldsOwn

\* With ids that are not reused and block lengths the two sides agree on, no
\* datagram sequence, table size or failure makes the receiver forward a
\* packet the gateway did not send.
THEOREM NothingIsFabricated == Spec => []NothingFabricated
<1>1. Init => FabricationInv
  BY DEF Init, FabricationInv, SlotsHoldOwn, FreeBlock
<1>2. TypeOK /\ FabricationInv /\ [Next]_vars => FabricationInv'
  <2> SUFFICES ASSUME TypeOK, IdsIdentifyBlocks, SlotsHoldOwn, ~garbled,
                      [Next]_vars
               PROVE  SlotsHoldOwn' /\ ~garbled'
    BY DEF FabricationInv
  <2>1. ASSUME NEW s \in Symbols, DropMalformed(s)
        PROVE  SlotsHoldOwn' /\ ~garbled'
    BY <2>1 DEF DropMalformed, SlotsHoldOwn
  <2>2. ASSUME NEW s \in Symbols, StoreLate(s)
        PROVE  SlotsHoldOwn' /\ ~garbled'
    BY <2>2, StoreLateHoldsOwn DEF StoreLate
  <2>3. ASSUME NEW s \in Symbols, Process(s)
        PROVE  SlotsHoldOwn' /\ ~garbled'
    BY <2>3, ProcessFabricatesNothing
  <2>4. CASE UNCHANGED vars
    BY <2>4 DEF vars, SlotsHoldOwn
  <2> QED  BY <2>1, <2>2, <2>3, <2>4 DEF Next, HandleRqSymbol
<1>3. FabricationInv => NothingFabricated
  BY DEF FabricationInv, NothingFabricated
<1> QED  BY <1>1, <1>2, <1>3, ReceiverTypes, PTL DEF Spec

-----------------------------------------------------------------------------
(* Finished blocks do not stay *)

\* A block in use has a packet yet to leave, sits in the slot of its id, and,
\* if its id is completed, has forwarded nothing before its decoder was ready.
Held(i, b) ==
  /\ ~AllForwarded(b)
  /\ Slot(b.id) = i
  /\ IsBlockCompleted(b.id) /\ ~b.ready => b.fwd = {}

SlotsHeld == \A i \in SlotIds : slots[i].inUse => Held(i, slots[i])

LEMMA AllForwardedMeans ==
  ASSUME NEW b \in Block
  PROVE  ~AllForwarded(b) <=> \E j \in 0 .. b.K - 1 : j \notin b.fwd
  BY DEF AllForwarded

\* What opening the block of a symbol does to what it has forwarded.
LEMMA OpenedForwarded ==
  ASSUME TypeOK, SlotsHeld, NEW s \in Symbols, NEW ok \in BOOLEAN
  PROVE  LET b == Opened(s, ok)
         IN  /\ b.ready \/ b.stored = {}
             /\ IsBlockCompleted(s.id) => ~AllForwarded(b)
             /\ IsBlockCompleted(s.id) /\ ~b.ready => b.fwd = {}
<1> DEFINE g == GetBlock(s.id)
           b == Opened(s, ok)
           K == IF s.k = 0 \/ s.k > BlockSize THEN BlockSize ELSE s.k
<1>1. s.id \in Nat /\ s.k \in Nat
  BY SymbolsAssumption DEF Symbol
<1>2. g \in Block /\ g.id = s.id
  BY <1>1, GetBlockType
<1>3. IsBlockCompleted(s.id) =>
        /\ ~g.ready => g.fwd = {}
        /\ g.ready => ~AllForwarded(g)
  <2>1. CASE /\ slots[Slot(s.id)].inUse
             /\ slots[Slot(s.id)].id = s.id
    BY <1>1, <2>1, SlotInRange DEF GetBlock, SlotsHeld, Held
  <2>2. CASE ~(/\ slots[Slot(s.id)].inUse
               /\ slots[Slot(s.id)].id = s.id)
    <3>1. g = [FreeBlock EXCEPT !.inUse = TRUE, !.id = s.id]
      BY <2>2 DEF GetBlock
    <3>2. ~g.ready /\ g.fwd = {}
      BY <3>1 DEF FreeBlock
    <3> QED  BY <3>2
  <2> QED  BY <2>1, <2>2
<1>4. K \in 1 .. BlockSize
  BY <1>1, BlockLength
<1> HIDE DEF g, K
<1>5. CASE g.ready
  BY <1>3, <1>5 DEF Opened, InitDecoder, g
<1>6. CASE ~g.ready
  <2>1. b = [g EXCEPT !.ready = ok, !.K = K, !.stored = {}, !.fwdCount = 0,
                      !.nsrc = 0, !.npar = 0, !.counted = FALSE]
    BY <1>6 DEF Opened, InitDecoder, g, K
  <2> HIDE DEF b
  <2>2. b.stored = {} /\ b.K = K /\ b.fwd = g.fwd
    BY <1>2, <2>1, Zenon DEF Block
  <2>3. b.fwd = {} => ~AllForwarded(b)
    BY <1>4, <2>2, SizesAssumption DEF AllForwarded
  <2> QED  BY <1>3, <1>6, <2>2, <2>3 DEF b
<1> QED  BY <1>5, <1>6

LEMMA StoreSymbolForwards ==
  ASSUME NEW b \in Block, NEW s \in Symbols
  PROVE  LET d == StoreSymbol(b, s)
         IN  /\ d.ready = b.ready /\ d.K = b.K /\ d.fwd = b.fwd
             /\ d.fwdCount = b.fwdCount
  BY DEF StoreSymbol, Block

LEMMA ForwardingKeepsReady ==
  ASSUME NEW b \in Block, NEW s, NEW ok, NEW d,
         d = ForwardSource(b, s, ok) \/ d \in TryDecode(b)
  PROVE  d.ready = b.ready
<1>1. CASE d = ForwardSource(b, s, ok)
  BY <1>1 DEF ForwardSource, Block
<1>2. CASE d \in TryDecode(b)
  <2>1. d = b \/ \E sent : d = Decoded(b, sent)
    BY <1>2 DEF TryDecode
  <2> QED  BY <2>1, Zenon DEF Decoded, Block
<1> QED  BY <1>1, <1>2

LEMMA StoreLateHeld ==
  ASSUME TypeOK, SlotsHeld, NEW s \in Symbols, StoreLate(s)
  PROVE  SlotsHeld'
<1>1. PICK ok \in InitOutcomes :
        /\ ~PassesDiscard(Opened(s, ok), s)
        /\ slots' = [slots EXCEPT ![Slot(s.id)] = StoreSymbol(Opened(s, ok), s)]
  BY DEF StoreLate
<1> DEFINE b == Opened(s, ok)
           d == StoreSymbol(b, s)
<1>2. ok \in BOOLEAN /\ s.id \in Nat
  BY OutcomesAssumption, SymbolsAssumption DEF Symbol
<1>3. b \in Block /\ b.id = s.id
  BY <1>2, OpenedType
<1>4. IsBlockCompleted(s.id)
  BY <1>1 DEF PassesDiscard
<1>5. ~AllForwarded(b) /\ (~b.ready => b.fwd = {})
  BY <1>2, <1>4, OpenedForwarded
<1> HIDE DEF b
<1>6. d.id = s.id /\ ~AllForwarded(d) /\ (~d.ready => d.fwd = {})
  BY <1>3, <1>5, StoreSymbolType, StoreSymbolForwards DEF AllForwarded
<1> HIDE DEF d
<1>7. slots' = [slots EXCEPT ![Slot(s.id)] = d] /\ completed' = completed
  BY <1>1 DEF StoreLate, b, d
<1> QED  BY <1>6, <1>7 DEF SlotsHeld, Held, TypeOK, IsBlockCompleted,
                           AllForwarded

LEMMA ProcessHeld ==
  ASSUME TypeOK, SlotsHeld, NEW s \in Symbols, Process(s)
  PROVE  SlotsHeld'
<1>1. PICK ok \in InitOutcomes : \E b1, b2, b3 \in Block :
        /\ ProcessStages(s, Opened(s, ok), b1, b2, b3)
        /\ b1.id = s.id /\ b1.inUse
        /\ b2.id = s.id /\ b2.inUse
        /\ b3.id = s.id /\ b3.inUse
  BY ProcessInStages
<1> DEFINE b0 == Opened(s, ok)
<1>2. PICK b1 \in Block, b2 \in Block, b3 \in Block :
        ProcessStages(s, b0, b1, b2, b3) /\ b3.id = s.id
  BY <1>1
<1>3. ok \in BOOLEAN /\ s.id \in Nat
  BY OutcomesAssumption, SymbolsAssumption DEF Symbol
<1>4. IsBlockCompleted(s.id) => b0.ready
  <2>1. b0.ready \/ b0.stored = {}
    BY <1>3, OpenedForwarded
  <2> HIDE DEF b0
  <2> QED  BY <1>2, <2>1 DEF ProcessStages, PassesDiscard, HasEsi
<1>5. b0 \in Block
  BY <1>3, OpenedType
<1> HIDE DEF b0
<1>6. b3.ready = b0.ready
  <2>1. b1.ready = b0.ready
    BY <1>2, <1>5, StoreSymbolForwards DEF ProcessStages
  <2>2. b2.ready = b1.ready
    BY <1>2, ForwardingKeepsReady DEF ProcessStages
  <2>3. b3.ready = b2.ready
    BY <1>2, ForwardingKeepsReady DEF ProcessStages
  <2> QED  BY <2>1, <2>2, <2>3
<1>7. PICK c : Finish(b3, c)
  BY <1>2 DEF ProcessStages
<1>8. CASE AllForwarded(b3) /\ FinalizeBlock(b3, c)
  <2>1. slots' = [slots EXCEPT ![Slot(s.id)] = FreeBlock]
    BY <1>2, <1>8 DEF FinalizeBlock
  <2>2. \A id \in Nat : IsBlockCompleted(id)' =>
                          IsBlockCompleted(id) \/ id = s.id
    BY <1>2, <1>3, <1>8
       DEF FinalizeBlock, MarkBlockCompleted, IsBlockCompleted, TypeOK
  <2>3. ASSUME NEW i \in SlotIds, slots'[i].inUse
        PROVE  Held(i, slots[i])'
    <3>1. i # Slot(s.id) /\ slots'[i] = slots[i]
      BY <2>1, <2>3 DEF TypeOK, FreeBlock
    <3>2. slots[i].id \in Nat /\ Held(i, slots[i])
      BY <2>3, <3>1 DEF TypeOK, Block, SlotsHeld
    <3>3. slots[i].id # s.id
      BY <3>1, <3>2 DEF Held
    <3>4. /\ ~AllForwarded(slots'[i])
          /\ Slot(slots'[i].id) = i
      BY <3>1, <3>2 DEF Held
    <3>5. IsBlockCompleted(slots[i].id)' /\ ~slots'[i].ready
            => slots'[i].fwd = {}
      BY <2>2, <3>1, <3>2, <3>3 DEF Held
    <3> QED  BY <3>4, <3>5 DEF Held, AllForwarded
  <2> QED  BY <2>3 DEF SlotsHeld
<1>9. CASE /\ ~AllForwarded(b3)
           /\ slots' = [slots EXCEPT ![Slot(b3.id)] = b3]
           /\ UNCHANGED completed
  BY <1>2, <1>4, <1>6, <1>9
     DEF SlotsHeld, Held, TypeOK, IsBlockCompleted, AllForwarded
<1> QED  BY <1>7, <1>8, <1>9 DEF Finish

\* Whatever fails and whatever arrives, with ids reused or not, the handler
\* that makes a block complete also finalizes it: no block of the table has
\* all its packets out, so none is lost from the counters of the summary.
THEOREM FinishedNeverHeld == Spec => []NoFinishedBlockHeld
<1>1. Init => SlotsHeld
  BY DEF Init, SlotsHeld, FreeBlock
<1>2. TypeOK /\ SlotsHeld /\ [Next]_vars => SlotsHeld'
  <2> SUFFICES ASSUME TypeOK, SlotsHeld, [Next]_vars
               PROVE  SlotsHeld'
    OBVIOUS
  <2>1. ASSUME UNCHANGED <<slots, completed>>
        PROVE  SlotsHeld'
    BY <2>1 DEF SlotsHeld, Held, AllForwarded, IsBlockCompleted
  <2>2. ASSUME NEW s \in Symbols, DropMalformed(s)
        PROVE  SlotsHeld'
    BY <2>1, <2>2 DEF DropMalformed
  <2>3. ASSUME NEW s \in Symbols, StoreLate(s)
        PROVE  SlotsHeld'
    BY <2>3, StoreLateHeld
  <2>4. ASSUME NEW s \in Symbols, Process(s)
        PROVE  SlotsHeld'
    BY <2>4, ProcessHeld
  <2>5. CASE UNCHANGED vars
    BY <2>1, <2>5 DEF vars
  <2> QED  BY <2>2, <2>3, <2>4, <2>5 DEF Next, HandleRqSymbol
<1>3. TypeOK /\ SlotsHeld => NoFinishedBlockHeld
  BY AllForwardedMeans DEF TypeOK, SlotsHeld, Held, NoFinishedBlockHeld
<1> QED  BY <1>1, <1>2, <1>3, ReceiverTypes, PTL DEF Spec

-----------------------------------------------------------------------------
(* Counting the forwarded packets and flagging them *)

Behind(b) == b.fwdCount <= Cardinality(b.fwd)

LEMMA FlagsFinite ==
  ASSUME NEW b \in Block
  PROVE  IsFiniteSet(b.fwd) /\ Cardinality(b.fwd) \in Nat
<1>1. b.fwd \in SUBSET (0 .. BlockSize - 1)
  BY DEF Block
<1> QED  BY <1>1, IndexSetsFinite, FS_CardinalityType

LEMMA OpenedBehind ==
  ASSUME TypeOK, CountBehindFlags, NEW s \in Symbols, NEW ok \in BOOLEAN
  PROVE  Behind(Opened(s, ok))
<1> DEFINE g == GetBlock(s.id)
           K == IF s.k = 0 \/ s.k > BlockSize THEN BlockSize ELSE s.k
           b == Opened(s, ok)
<1>1. s.id \in Nat
  BY SymbolsAssumption DEF Symbol
<1>2. g \in Block
  BY <1>1, GetBlockType
<1>3. Behind(g)
  <2>1. CASE g = slots[Slot(s.id)]
    BY <1>1, <2>1, SlotInRange DEF CountBehindFlags, Behind
  <2>2. CASE g = [FreeBlock EXCEPT !.inUse = TRUE, !.id = s.id]
    <3>1. g.fwdCount = 0 /\ g.fwd = {}
      BY <2>2 DEF FreeBlock
    <3> QED  BY <3>1, FS_EmptySet DEF Behind
  <2> QED  BY <2>1, <2>2 DEF GetBlock
<1> HIDE DEF g, K
<1>4. CASE g.ready
  BY <1>3, <1>4 DEF Opened, InitDecoder, g
<1>5. CASE ~g.ready
  <2>1. b = [g EXCEPT !.ready = ok, !.K = K, !.stored = {}, !.fwdCount = 0,
                      !.nsrc = 0, !.npar = 0, !.counted = FALSE]
    BY <1>5 DEF Opened, InitDecoder, g, K
  <2> HIDE DEF b
  <2>2. b.fwdCount = 0 /\ b.fwd = g.fwd
    BY <1>2, <2>1, Zenon DEF Block
  <2>3. Behind(b)
    BY <1>2, <2>2, FlagsFinite DEF Behind
  <2> QED  BY <2>3 DEF b
<1> QED  BY <1>4, <1>5

LEMMA ForwardSourceBehind ==
  ASSUME NEW b \in Block, NEW s \in Symbols, NEW ok \in BOOLEAN, Behind(b)
  PROVE  Behind(ForwardSource(b, s, ok))
<1>1. CASE s.src /\ s.esi < b.K /\ s.esi \notin b.fwd /\ ok
  <2>1. Cardinality(b.fwd \cup {s.esi}) = Cardinality(b.fwd) + 1
    BY <1>1, FlagsFinite, FS_AddElement
  <2>2. /\ ForwardSource(b, s, ok).fwd = b.fwd \cup {s.esi}
        /\ ForwardSource(b, s, ok).fwdCount = b.fwdCount + 1
    BY <1>1 DEF ForwardSource, Block
  <2>3. b.fwdCount \in Nat
    BY DEF Block
  <2> QED  BY <2>1, <2>2, <2>3, FlagsFinite DEF Behind
<1>2. CASE ~(s.src /\ s.esi < b.K /\ s.esi \notin b.fwd /\ ok)
  BY <1>2 DEF ForwardSource
<1> QED  BY <1>1, <1>2

LEMMA TryDecodeBehind ==
  ASSUME NEW b \in Block, Behind(b), NEW d \in TryDecode(b)
  PROVE  Behind(d)
<1>1. CASE d = b
  BY <1>1
<1>2. ASSUME NEW sent \in SUBSET ((0 .. b.K - 1) \ b.fwd), d = Decoded(b, sent)
      PROVE  Behind(d)
  <2>1. sent \in SUBSET (0 .. BlockSize - 1) /\ sent \cap b.fwd = {}
    BY SizesAssumption DEF Block
  <2>2. IsFiniteSet(sent) /\ Cardinality(sent) \in Nat
    BY <2>1, IndexSetsFinite, FS_CardinalityType
  <2>3. Cardinality(b.fwd \cup sent) = Cardinality(b.fwd) + Cardinality(sent)
    <3>1. b.fwd \cap sent = {}
      BY <2>1
    <3>2. Cardinality(b.fwd \cap sent) = 0
      BY <3>1, FS_EmptySet
    <3>3. Cardinality(b.fwd \cup sent) =
            Cardinality(b.fwd) + Cardinality(sent)
              - Cardinality(b.fwd \cap sent)
      BY <2>2, FlagsFinite, FS_Union
    <3> QED  BY <2>2, <3>2, <3>3, FlagsFinite
  <2>4. d.fwd = b.fwd \cup sent /\ d.fwdCount = b.fwdCount + Cardinality(sent)
    BY <1>2, Zenon DEF Decoded, Block
  <2>5. b.fwdCount \in Nat
    BY DEF Block
  <2> QED  BY <2>2, <2>3, <2>4, <2>5, FlagsFinite DEF Behind
<1>3. d = b \/ \E sent \in SUBSET ((0 .. b.K - 1) \ b.fwd) : d = Decoded(b, sent)
  BY DEF TryDecode, SendResults
<1> QED  BY <1>1, <1>2, <1>3

LEMMA HandledBehind ==
  ASSUME TypeOK, CountBehindFlags, NEW s \in Symbols, HandleRqSymbol(s)
  PROVE  CountBehindFlags'
<1>0. Behind(FreeBlock)
  BY FS_EmptySet DEF FreeBlock, Behind
<1>1. ASSUME NEW j, NEW b, Behind(b), slots' = [slots EXCEPT ![j] = b]
      PROVE  CountBehindFlags'
  BY <1>1 DEF CountBehindFlags, Behind, TypeOK
<1>2. CASE DropMalformed(s)
  BY <1>2 DEF DropMalformed, CountBehindFlags
<1>3. CASE StoreLate(s)
  <2>1. PICK ok \in InitOutcomes :
          slots' = [slots EXCEPT ![Slot(s.id)] =
                      StoreSymbol(Opened(s, ok), s)]
    BY <1>3 DEF StoreLate
  <2>2. Behind(StoreSymbol(Opened(s, ok), s))
    BY OutcomesAssumption, OpenedType, OpenedBehind, StoreSymbolForwards
       DEF Behind
  <2> QED  BY <1>1, <2>1, <2>2
<1>4. CASE Process(s)
  <2>1. PICK ok \in InitOutcomes : \E b1, b2, b3 \in Block :
          ProcessStages(s, Opened(s, ok), b1, b2, b3)
    BY <1>4, ProcessInStages
  <2>2. PICK b1 \in Block, b2 \in Block, b3 \in Block :
          ProcessStages(s, Opened(s, ok), b1, b2, b3)
    BY <2>1
  <2>3. Behind(b1)
    BY <2>2, OutcomesAssumption, OpenedType, OpenedBehind,
       StoreSymbolForwards DEF Behind, ProcessStages
  <2>4. Behind(b2)
    BY <2>2, <2>3, OutcomesAssumption, ForwardSourceBehind
       DEF ProcessStages
  <2>5. Behind(b3)
    BY <2>2, <2>4, TryDecodeBehind DEF ProcessStages
  <2>6. \/ slots' = [slots EXCEPT ![Slot(b3.id)] = FreeBlock]
        \/ slots' = [slots EXCEPT ![Slot(b3.id)] = b3]
    BY <2>2 DEF ProcessStages, Finish, FinalizeBlock
  <2> QED  BY <1>0, <1>1, <2>5, <2>6
<1> QED  BY <1>2, <1>3, <1>4 DEF HandleRqSymbol

\* The count that guards decoding never runs ahead of the forwarded flags,
\* through every reset of the decoder, failed send and partial decoding, so no
\* block with a packet missing is kept from decoding by it.
THEOREM CountStaysBehind == Spec => []CountBehindFlags
<1>0. Behind(FreeBlock)
  BY FS_EmptySet DEF FreeBlock, Behind
<1>1. Init => CountBehindFlags
  BY <1>0 DEF Init, CountBehindFlags, Behind
<1>2. TypeOK /\ CountBehindFlags /\ [Next]_vars => CountBehindFlags'
  BY HandledBehind DEF Next, vars, CountBehindFlags
<1> QED  BY <1>1, <1>2, ReceiverTypes, PTL DEF Spec

-----------------------------------------------------------------------------
(* The symbols kept have arrived *)

StoredInv ==
  IsFiniteSet(arrived) /\ \A i \in SlotIds : slots[i].stored \subseteq arrived

LEMMA StoredFinite ==
  ASSUME StoredInv, NEW b, NEW s, b.stored \subseteq arrived \cup {s}
  PROVE  IsFiniteSet(b.stored) /\ Cardinality(b.stored) \in Nat
<1>1. IsFiniteSet(arrived \cup {s})
  BY FS_AddElement DEF StoredInv
<1>2. IsFiniteSet(b.stored)
  BY <1>1, FS_Subset
<1> QED  BY <1>2, FS_CardinalityType

LEMMA OpenedStored ==
  ASSUME TypeOK, StoredInv, NEW s \in Symbols, NEW ok \in BOOLEAN
  PROVE  Opened(s, ok).stored \subseteq arrived
<1> DEFINE g == GetBlock(s.id)
<1>1. s.id \in Nat
  BY SymbolsAssumption DEF Symbol
<1>2. g \in Block /\ g.stored \subseteq arrived
  <2>1. FreeBlock.stored = {} /\ slots[Slot(s.id)].stored \subseteq arrived
    BY <1>1, SlotInRange DEF FreeBlock, StoredInv
  <2>2. \/ g = slots[Slot(s.id)]
        \/ g = [FreeBlock EXCEPT !.inUse = TRUE, !.id = s.id]
    BY DEF GetBlock
  <2>3. g \in Block
    BY <1>1, GetBlockType
  <2> QED  BY <2>1, <2>2, <2>3 DEF FreeBlock
<1> HIDE DEF g
<1>3. Opened(s, ok) = InitDecoder(g, s.k, ok)
  BY DEF Opened, g
<1>4. InitDecoder(g, s.k, ok).stored \in {g.stored, {}}
  BY <1>2 DEF InitDecoder, Block
<1> QED  BY <1>2, <1>3, <1>4

LEMMA StagesStored ==
  ASSUME TypeOK, StoredInv, NEW s \in Symbols, NEW ok \in BOOLEAN,
         NEW b1 \in Block, NEW b2 \in Block, NEW b3 \in Block,
         ProcessStages(s, Opened(s, ok), b1, b2, b3)
  PROVE  /\ b1.stored \subseteq Opened(s, ok).stored \cup {s}
         /\ b2.stored = b1.stored /\ b3.stored = b2.stored
         /\ b3.stored \subseteq arrived \cup {s}
<1>1. Opened(s, ok) \in Block /\ Opened(s, ok).stored \subseteq arrived
  BY OpenedType, OpenedStored
<1>2. b1.stored \subseteq Opened(s, ok).stored \cup {s}
  BY <1>1 DEF ProcessStages, StoreSymbol, Block
<1>3. b2.stored = b1.stored
  BY ForwardingKeepsSymbols DEF ProcessStages
<1>4. b3.stored = b2.stored
  BY ForwardingKeepsSymbols DEF ProcessStages
<1> QED  BY <1>1, <1>2, <1>3, <1>4

LEMMA FinishedSlots ==
  ASSUME NEW b \in Block, NEW c, Finish(b, c)
  PROVE  \/ /\ AllForwarded(b)
            /\ slots' = [slots EXCEPT ![Slot(b.id)] = FreeBlock]
         \/ /\ ~AllForwarded(b) /\ completed' = completed
            /\ slots' = [slots EXCEPT ![Slot(b.id)] = b]
BY DEF Finish, FinalizeBlock

LEMMA HandledStored ==
  ASSUME TypeOK, StoredInv, NEW s \in Symbols, HandleRqSymbol(s)
  PROVE  StoredInv'
<1>1. ASSUME arrived' = arrived \cup {s}, NEW j, NEW b,
             b.stored \subseteq arrived',
             slots' = slots \/ slots' = [slots EXCEPT ![j] = b]
      PROVE  StoredInv'
  <2>1. IsFiniteSet(arrived')
    BY <1>1, FS_AddElement DEF StoredInv
  <2> QED  BY <1>1, <2>1 DEF StoredInv, TypeOK
<1>2. FreeBlock.stored = {}
  BY DEF FreeBlock
<1>3. CASE DropMalformed(s)
  BY <1>1, <1>2, <1>3 DEF DropMalformed
<1>4. CASE StoreLate(s)
  <2>1. PICK ok \in InitOutcomes :
          slots' = [slots EXCEPT ![Slot(s.id)] =
                      StoreSymbol(Opened(s, ok), s)]
    BY <1>4 DEF StoreLate
  <2>2. ok \in BOOLEAN
    BY OutcomesAssumption
  <2>3. /\ Opened(s, ok) \in Block
        /\ Opened(s, ok).stored \subseteq arrived
    BY <2>2, OpenedType, OpenedStored
  <2>4. StoreSymbol(Opened(s, ok), s).stored
          \subseteq Opened(s, ok).stored \cup {s}
    BY <2>3 DEF StoreSymbol, Block
  <2>5. arrived' = arrived \cup {s}
    BY <1>4 DEF StoreLate
  <2> QED  BY <1>1, <2>1, <2>3, <2>4, <2>5
<1>5. CASE Process(s)
  <2>1. PICK ok \in InitOutcomes : \E b1, b2, b3 \in Block :
          ProcessStages(s, Opened(s, ok), b1, b2, b3)
    BY <1>5, ProcessInStages
  <2>2. PICK b1 \in Block, b2 \in Block, b3 \in Block :
          ProcessStages(s, Opened(s, ok), b1, b2, b3)
    BY <2>1
  <2>3. b3.stored \subseteq arrived \cup {s}
    BY <2>2, OutcomesAssumption, StagesStored
  <2>4. \/ slots' = [slots EXCEPT ![Slot(b3.id)] = FreeBlock]
        \/ slots' = [slots EXCEPT ![Slot(b3.id)] = b3]
    BY <2>2, FinishedSlots DEF ProcessStages
  <2>5. arrived' = arrived \cup {s}
    BY <1>5 DEF Process
  <2> QED  BY <1>1, <1>2, <2>3, <2>4, <2>5
<1> QED  BY <1>3, <1>4, <1>5 DEF HandleRqSymbol

LEMMA StoredAlways == Spec => []StoredInv
<1>1. Init => StoredInv
  BY FS_EmptySet DEF Init, StoredInv, FreeBlock
<1>2. TypeOK /\ StoredInv /\ [Next]_vars => StoredInv'
  BY HandledStored DEF Next, vars, StoredInv
<1> QED  BY <1>1, <1>2, ReceiverTypes, PTL DEF Spec

-----------------------------------------------------------------------------
(* Blocks with enough symbols are delivered *)

\* When nothing fails, the blocks of the table are ready, undecoded and have
\* forwarded packets of theirs only.
Waiting(b) == b.ready /\ ~b.decoded /\ b.fwd \subseteq 0 .. b.K - 1

WaitInv ==
  NothingFails =>
    \A i \in SlotIds :
      slots[i].inUse =>
        /\ Waiting(slots[i])
        /\ IsBlockCompleted(slots[i].id)
           \/ Cardinality(slots[i].stored) < slots[i].K

LEMMA OpenedWaiting ==
  ASSUME TypeOK, WaitInv, NothingFails,
         NEW s \in Symbols, NEW ok \in InitOutcomes
  PROVE  Waiting(Opened(s, ok))
<1> DEFINE g == GetBlock(s.id)
           K == IF s.k = 0 \/ s.k > BlockSize THEN BlockSize ELSE s.k
           b == Opened(s, ok)
<1>1. s.id \in Nat /\ s.k \in Nat /\ ok = TRUE
  BY SymbolsAssumption DEF Symbol, NothingFails
<1>2. g \in Block
  BY <1>1, GetBlockType
<1>3. Waiting(g) \/ (~g.ready /\ ~g.decoded /\ g.fwd = {})
  <2>1. CASE /\ slots[Slot(s.id)].inUse
             /\ slots[Slot(s.id)].id = s.id
    BY <1>1, <2>1, SlotInRange DEF GetBlock, WaitInv
  <2>2. CASE ~(/\ slots[Slot(s.id)].inUse
               /\ slots[Slot(s.id)].id = s.id)
    <3>1. g = [FreeBlock EXCEPT !.inUse = TRUE, !.id = s.id]
      BY <2>2 DEF GetBlock
    <3> QED  BY <3>1 DEF FreeBlock
  <2> QED  BY <2>1, <2>2
<1> HIDE DEF g, K
<1>4. CASE g.ready
  BY <1>3, <1>4 DEF Opened, InitDecoder, g, Waiting
<1>5. CASE ~g.ready
  <2>1. b = [g EXCEPT !.ready = ok, !.K = K, !.stored = {}, !.fwdCount = 0,
                      !.nsrc = 0, !.npar = 0, !.counted = FALSE]
    BY <1>5 DEF Opened, InitDecoder, g, K
  <2> HIDE DEF b
  <2>2. b.ready = ok /\ b.decoded = g.decoded /\ b.fwd = g.fwd
    BY <1>2, <2>1, Zenon DEF Block
  <2>3. Waiting(b)
    BY <1>1, <1>3, <1>5, <2>2 DEF Waiting
  <2> QED  BY <2>3 DEF b
<1> QED  BY <1>4, <1>5

LEMMA StoreSymbolWaiting ==
  ASSUME NEW b \in Block, NEW s \in Symbols, Waiting(b)
  PROVE  Waiting(StoreSymbol(b, s))
<1>1. StoreSymbol(b, s).decoded = b.decoded
  BY DEF StoreSymbol, Block
<1> QED  BY <1>1, StoreSymbolForwards DEF Waiting

LEMMA ForwardSourceWaiting ==
  ASSUME NEW b \in Block, NEW s \in Symbols, NEW ok \in BOOLEAN, Waiting(b)
  PROVE  Waiting(ForwardSource(b, s, ok))
<1>1. s.esi \in Nat /\ b.K \in Nat
  BY SymbolsAssumption DEF Symbol, Block
<1>2. CASE s.src /\ s.esi < b.K /\ s.esi \notin b.fwd /\ ok
  <2>1. LET d == ForwardSource(b, s, ok)
        IN  /\ d.fwd = b.fwd \cup {s.esi} /\ d.K = b.K
            /\ d.ready = b.ready /\ d.decoded = b.decoded
    BY <1>2 DEF ForwardSource, Block
  <2>2. s.esi \in 0 .. b.K - 1
    BY <1>1, <1>2
  <2> QED  BY <2>1, <2>2 DEF Waiting
<1>3. CASE ~(s.src /\ s.esi < b.K /\ s.esi \notin b.fwd /\ ok)
  BY <1>3 DEF ForwardSource
<1> QED  BY <1>2, <1>3

\* A waiting block with enough symbols is complete once decoding was tried.
LEMMA TryDecodeDelivers ==
  ASSUME NothingFails, NEW b \in Block, Waiting(b), Behind(b),
         Cardinality(b.stored) \in Nat, NEW d \in TryDecode(b)
  PROVE  \/ AllForwarded(d)
         \/ d = b /\ Cardinality(b.stored) < b.K
<1>1. b.K \in Nat /\ b.fwdCount \in Nat
  BY DEF Block
<1>2. CASE CanDecode(b)
  <2>1. PICK sent \in SendResults((0 .. b.K - 1) \ b.fwd) :
          d = Decoded(b, sent)
    BY <1>2 DEF TryDecode, NothingFails
  <2>2. sent = (0 .. b.K - 1) \ b.fwd
    BY DEF SendResults, NothingFails
  <2>3. d.fwd = b.fwd \cup sent /\ d.K = b.K
    BY <2>1, Zenon DEF Decoded, Block
  <2> QED  BY <2>2, <2>3 DEF AllForwarded
<1>3. CASE ~CanDecode(b)
  <2>1. d = b
    BY <1>3 DEF TryDecode
  <2>2. b.fwdCount >= b.K \/ ~(Cardinality(b.stored) >= b.K)
    BY <1>1, <1>3 DEF CanDecode, Waiting
  <2>3. ASSUME b.fwdCount >= b.K
        PROVE  AllForwarded(b)
    <3>1. /\ IsFiniteSet(0 .. b.K - 1)
          /\ Cardinality(0 .. b.K - 1) = b.K
      <4>1. 0 \in Int /\ b.K - 1 \in Int
        BY <1>1
      <4>2. /\ IsFiniteSet(0 .. b.K - 1)
            /\ Cardinality(0 .. b.K - 1) =
                 IF 0 > b.K - 1 THEN 0 ELSE b.K - 1 - 0 + 1
        BY <4>1, FS_Interval
      <4> QED  BY <1>1, <4>2
    <3>2. b.fwd \in SUBSET (0 .. b.K - 1)
      BY DEF Waiting
    <3>3. Cardinality(b.fwd) <= b.K
      BY <3>1, <3>2, FS_Subset
    <3>4. Cardinality(b.fwd) \in Nat
      BY FlagsFinite
    <3>5. Cardinality(0 .. b.K - 1) = Cardinality(b.fwd)
      BY <1>1, <2>3, <3>1, <3>3, <3>4 DEF Behind
    <3>6. 0 .. b.K - 1 = b.fwd
      BY <3>1, <3>2, <3>5, FS_Subset
    <3> QED  BY <3>6 DEF AllForwarded
  <2>4. ~(Cardinality(b.stored) >= b.K) => Cardinality(b.stored) < b.K
    BY <1>1
  <2> QED  BY <2>1, <2>2, <2>3, <2>4
<1> QED  BY <1>2, <1>3

LEMMA ProcessWaits ==
  ASSUME TypeOK, StoredInv, CountBehindFlags, WaitInv, NothingFails,
         NEW s \in Symbols, Process(s)
  PROVE  WaitInv'
<1>1. PICK ok \in InitOutcomes : \E b1, b2, b3 \in Block :
        /\ ProcessStages(s, Opened(s, ok), b1, b2, b3)
        /\ b1.id = s.id /\ b1.inUse
        /\ b2.id = s.id /\ b2.inUse
        /\ b3.id = s.id /\ b3.inUse
  BY ProcessInStages
<1> DEFINE b0 == Opened(s, ok)
<1>2. PICK b1 \in Block, b2 \in Block, b3 \in Block :
        ProcessStages(s, b0, b1, b2, b3)
  BY <1>1
<1>3. ok \in BOOLEAN
  BY OutcomesAssumption
<1>4. b0 \in Block /\ Waiting(b0) /\ Behind(b0)
  BY <1>3, OpenedType, OpenedWaiting, OpenedBehind
<1>5. /\ b2.stored = b1.stored /\ b3.stored = b2.stored
      /\ b3.stored \subseteq arrived \cup {s}
  BY <1>2, <1>3, StagesStored
<1> HIDE DEF b0
<1>6. Waiting(b1) /\ Behind(b1)
  BY <1>2, <1>4, StoreSymbolWaiting, StoreSymbolForwards
     DEF ProcessStages, Behind
<1>7. Waiting(b2) /\ Behind(b2)
  BY <1>2, <1>6, OutcomesAssumption, ForwardSourceWaiting, ForwardSourceBehind
     DEF ProcessStages
<1>8. \/ AllForwarded(b3)
      \/ b3 = b2 /\ Cardinality(b3.stored) < b3.K
  <2>1. Cardinality(b2.stored) \in Nat
    BY <1>5, StoredFinite
  <2> QED  BY <1>2, <1>7, <2>1, TryDecodeDelivers DEF ProcessStages
<1>9. PICK c : Finish(b3, c)
  BY <1>2 DEF ProcessStages
<1>10. completed' = completed \/ \E id : completed' = Append(completed, id)
  BY <1>9 DEF Finish, FinalizeBlock, MarkBlockCompleted
<1>11. \A id : IsBlockCompleted(id) => IsBlockCompleted(id)'
  <2>1. completed \in Seq(Nat)
    BY DEF TypeOK
  <2>2. ASSUME NEW x
        PROVE  /\ DOMAIN completed \subseteq DOMAIN Append(completed, x)
               /\ \A j \in DOMAIN completed : Append(completed, x)[j] = completed[j]
    BY <2>1
  <2>3. /\ DOMAIN completed \subseteq DOMAIN completed'
        /\ \A j \in DOMAIN completed : completed'[j] = completed[j]
    <3>1. CASE completed' = completed
      BY <3>1
    <3>2. ASSUME NEW x, completed' = Append(completed, x)
          PROVE  /\ DOMAIN completed \subseteq DOMAIN completed'
                 /\ \A j \in DOMAIN completed : completed'[j] = completed[j]
      BY <2>2, <3>2, Zenon
    <3> QED  BY <1>10, <3>1, <3>2
  <2> QED  BY <2>3, Zenon DEF IsBlockCompleted
<1>12. CASE slots' = [slots EXCEPT ![Slot(b3.id)] = FreeBlock]
  <2>1. \A i \in SlotIds : slots'[i].inUse => slots'[i] = slots[i]
    BY <1>12 DEF TypeOK, FreeBlock
  <2> QED  BY <1>11, <2>1 DEF WaitInv
<1>13. CASE /\ ~AllForwarded(b3)
            /\ slots' = [slots EXCEPT ![Slot(b3.id)] = b3]
  <2>1. Waiting(b3) /\ Cardinality(b3.stored) < b3.K
    BY <1>7, <1>8, <1>13
  <2>2. \A i \in SlotIds : slots'[i] = slots[i] \/ slots'[i] = b3
    BY <1>13 DEF TypeOK
  <2> QED  BY <1>11, <2>1, <2>2 DEF WaitInv
<1> QED  BY <1>9, <1>12, <1>13, FinishedSlots

LEMMA HandledWaits ==
  ASSUME TypeOK, StoredInv, CountBehindFlags, WaitInv, NothingFails,
         NEW s \in Symbols, HandleRqSymbol(s)
  PROVE  WaitInv'
<1>1. CASE DropMalformed(s)
  BY <1>1 DEF DropMalformed, WaitInv, IsBlockCompleted
<1>2. CASE StoreLate(s)
  <2>1. PICK ok \in InitOutcomes :
          /\ ~PassesDiscard(Opened(s, ok), s)
          /\ slots' = [slots EXCEPT ![Slot(s.id)] =
                        StoreSymbol(Opened(s, ok), s)]
    BY <1>2 DEF StoreLate
  <2> DEFINE b == Opened(s, ok)
             d == StoreSymbol(b, s)
  <2>2. b \in Block /\ b.id = s.id /\ Waiting(b)
    BY OutcomesAssumption, OpenedType, OpenedWaiting
  <2>3. IsBlockCompleted(s.id)
    BY <2>1 DEF PassesDiscard
  <2> HIDE DEF b
  <2>4. Waiting(d) /\ d.id = s.id
    BY <2>2, StoreSymbolType, StoreSymbolWaiting
  <2> HIDE DEF d
  <2>5. slots' = [slots EXCEPT ![Slot(s.id)] = d] /\ completed' = completed
    BY <1>2, <2>1 DEF StoreLate, b, d
  <2>6. \A i \in SlotIds : slots'[i] = slots[i] \/ slots'[i] = d
    BY <2>5 DEF TypeOK
  <2> QED  BY <2>3, <2>4, <2>5, <2>6 DEF WaitInv, IsBlockCompleted
<1>3. CASE Process(s)
  BY <1>3, ProcessWaits
<1> QED  BY <1>1, <1>2, <1>3 DEF HandleRqSymbol

\* When the codec and the raw socket never fail, no block of the table holds
\* as many symbols as it has packets, unless its id was completed before: the
\* symbol that makes them enough delivers the block, whatever the order and
\* the mix of originals and repairs, ids reused and slots taken over.
THEOREM EnoughAlwaysDeliver == Spec => []EnoughSymbolsDeliver
<1>1. Init => WaitInv
  BY DEF Init, WaitInv, FreeBlock
<1>2. TypeOK /\ StoredInv /\ CountBehindFlags /\ WaitInv /\ [Next]_vars
        => WaitInv'
  <2> SUFFICES ASSUME TypeOK, StoredInv, CountBehindFlags, WaitInv,
                      NothingFails, [Next]_vars
               PROVE  WaitInv'
    BY DEF WaitInv, NothingFails
  <2>1. ASSUME NEW s \in Symbols, HandleRqSymbol(s)
        PROVE  WaitInv'
    BY <2>1, HandledWaits
  <2>2. CASE UNCHANGED vars
    BY <2>2 DEF vars, WaitInv, IsBlockCompleted
  <2> QED  BY <2>1, <2>2 DEF Next
<1>3. WaitInv => EnoughSymbolsDeliver
  BY DEF WaitInv, EnoughSymbolsDeliver
<1> QED  BY <1>1, <1>2, <1>3, ReceiverTypes, StoredAlways, CountStaysBehind,
            PTL DEF Spec

-----------------------------------------------------------------------------
(* Repairs are charged once, and only those received *)

\* The repair symbols kept by blocks no decoding has been charged for, when
\* slot i holds block b.
Spare(i, b) ==
  {x \in SlotIds \X Symbols :
     LET h == IF x[1] = i THEN b ELSE slots[x[1]]
     IN  h.inUse /\ ~h.counted /\ x[2] \in h.stored /\ ~x[2].src}
Spares == Spare(-1, FreeBlock)

Repairs(b) == {t \in b.stored : ~t.src}
Originals(b) == {t \in b.stored : t.src}

\* nsrc counts at least the originals kept.
SourcesCounted(b) == Cardinality(Originals(b)) <= b.nsrc

SpareInv ==
  /\ stats.consumed + Cardinality(Spares) <= stats.parity
  /\ \A i \in SlotIds : SourcesCounted(slots[i])

LEMMA SparesOfSlots ==
  ASSUME NEW i \in SlotIds
  PROVE  Spare(i, slots[i]) = Spares
<1>1. i # -1 /\ -1 \notin SlotIds
  BY SizesAssumption DEF SlotIds
<1> QED  BY <1>1 DEF Spare, Spares

LEMMA SparesNext ==
  ASSUME TypeOK, NEW i \in SlotIds, NEW b,
         slots' = [slots EXCEPT ![i] = b]
  PROVE  Spares' = Spare(i, b)
<1>1. -1 \notin SlotIds
  BY SizesAssumption DEF SlotIds
<1>2. \A j \in SlotIds : slots'[j] = IF j = i THEN b ELSE slots[j]
  BY DEF TypeOK
<1> QED  BY <1>1, <1>2 DEF Spare, Spares

LEMMA SlotsAreFinite == IsFiniteSet(SlotIds)
<1>1. 0 \in Int /\ MaxBlocks - 1 \in Int
  BY SizesAssumption
<1> QED  BY <1>1, FS_Interval DEF SlotIds

LEMMA SpareFinite ==
  ASSUME StoredInv, NEW i, NEW s, NEW b, b.stored \subseteq arrived \cup {s}
  PROVE  IsFiniteSet(Spare(i, b)) /\ Cardinality(Spare(i, b)) \in Nat
<1>1. IsFiniteSet(arrived \cup {s})
  BY FS_AddElement DEF StoredInv
<1>2. IsFiniteSet(SlotIds \X (arrived \cup {s}))
  BY <1>1, SlotsAreFinite, FS_Product
<1>3. Spare(i, b) \in SUBSET (SlotIds \X (arrived \cup {s}))
  BY DEF Spare, StoredInv
<1>4. IsFiniteSet(Spare(i, b))
  BY <1>2, <1>3, FS_Subset
<1> QED  BY <1>4, FS_CardinalityType

LEMMA SparesFinite ==
  ASSUME StoredInv
  PROVE  IsFiniteSet(Spares) /\ Cardinality(Spares) \in Nat
<1>1. FreeBlock.stored \subseteq arrived \cup {0}
  BY DEF FreeBlock
<1> QED  BY <1>1, SpareFinite DEF Spares

\* Opening a block may forget spare repairs, never find new ones.
LEMMA OpeningSpares ==
  ASSUME TypeOK, StoredInv, SpareInv, NEW s \in Symbols, NEW ok \in BOOLEAN
  PROVE  /\ Cardinality(Spare(Slot(s.id), Opened(s, ok)))
              <= Cardinality(Spares)
         /\ SourcesCounted(Opened(s, ok))
<1> DEFINE i == Slot(s.id)
           g == GetBlock(s.id)
           b == Opened(s, ok)
<1>1. i \in SlotIds
  BY SlotInRange, SymbolsAssumption DEF Symbol
<1>2. b \in Block
  BY OpenedType
<1>3. b = slots[i] \/ b.stored = {}
  <2>1. s.id \in Nat
    BY SymbolsAssumption DEF Symbol
  <2>2. g \in Block
    BY <2>1, GetBlockType
  <2>3. g = slots[i] \/ g = [FreeBlock EXCEPT !.inUse = TRUE, !.id = s.id]
    BY DEF GetBlock
  <2>4. g = slots[i] \/ ~g.ready
    <3>1. [FreeBlock EXCEPT !.inUse = TRUE, !.id = s.id].ready = FALSE
      BY DEF FreeBlock
    <3> QED  BY <2>3, <3>1
  <2> HIDE DEF g
  <2>5. b = InitDecoder(g, s.k, ok)
    BY DEF Opened, g
  <2>6. CASE g.ready
    BY <2>4, <2>5, <2>6 DEF InitDecoder
  <2>7. CASE ~g.ready
    <3>1. b.stored = {}
      BY <2>2, <2>5, <2>7 DEF InitDecoder, Block
    <3> QED  BY <3>1
  <2> QED  BY <2>6, <2>7
<1> HIDE DEF b
<1>4. CASE b = slots[i]
  <2>1. Spare(i, b) = Spares /\ SourcesCounted(b)
    BY <1>1, <1>4, SparesOfSlots DEF SpareInv
  <2>2. Cardinality(Spares) \in Nat
    BY SparesFinite
  <2> HIDE DEF i
  <2>3. Cardinality(Spare(i, b)) <= Cardinality(Spares)
    BY <2>1, <2>2
  <2> QED  BY <2>1, <2>3 DEF b, i
<1>5. CASE b.stored = {}
  <2>1. Spare(i, b) \in SUBSET Spare(i, slots[i])
    BY <1>5 DEF Spare
  <2>2. Cardinality(Spare(i, b)) <= Cardinality(Spares)
    BY <1>1, <2>1, SparesOfSlots, SparesFinite, FS_Subset
  <2>3. Originals(b) = {} /\ b.nsrc \in Nat
    BY <1>2, <1>5 DEF Originals, Block
  <2>4. SourcesCounted(b)
    BY <2>3, FS_EmptySet DEF SourcesCounted
  <2> QED  BY <2>2, <2>4 DEF b
<1> QED  BY <1>3, <1>4, <1>5

LEMMA StoringSpares ==
  ASSUME TypeOK, StoredInv, NEW s \in Symbols, NEW b \in Block, NEW i,
         b.stored \subseteq arrived \cup {s}, SourcesCounted(b)
  PROVE  LET d == StoreSymbol(b, s)
         IN  /\ Cardinality(Spare(i, d)) <=
                  Cardinality(Spare(i, b)) + IF s.src THEN 0 ELSE 1
             /\ SourcesCounted(d)
             /\ d.stored \subseteq arrived \cup {s}
<1> DEFINE d == StoreSymbol(b, s)
           more == IF s.src THEN 0 ELSE 1
<1>1. /\ d.inUse = b.inUse /\ d.counted = b.counted
      /\ d.nsrc = IF s.src THEN b.nsrc + 1 ELSE b.nsrc
      /\ d.stored = b.stored \/ d.stored = b.stored \cup {s}
  BY DEF StoreSymbol, Block
<1> HIDE DEF d
<1>2. d.stored \subseteq arrived \cup {s}
  BY <1>1
<1>3. /\ IsFiniteSet(Spare(i, b)) /\ Cardinality(Spare(i, b)) \in Nat
      /\ IsFiniteSet(Spare(i, d)) /\ Cardinality(Spare(i, d)) \in Nat
  BY <1>2, SpareFinite
<1>4. Cardinality(Spare(i, d)) <= Cardinality(Spare(i, b)) + more
  <2>1. CASE s.src
    <3>1. Spare(i, d) \in SUBSET Spare(i, b)
      BY <1>1, <2>1 DEF Spare
    <3>2. Cardinality(Spare(i, d)) <= Cardinality(Spare(i, b))
      BY <1>3, <3>1, FS_Subset
    <3> QED  BY <1>3, <2>1, <3>2
  <2>2. CASE ~s.src
    <3> DEFINE S == Spare(i, b) \cup {<<i, s>>}
    <3>1. Spare(i, d) \in SUBSET S
      BY <1>1 DEF Spare
    <3>2. /\ IsFiniteSet(S)
          /\ Cardinality(S) = IF <<i, s>> \in Spare(i, b)
                              THEN Cardinality(Spare(i, b))
                              ELSE Cardinality(Spare(i, b)) + 1
      BY <1>3, FS_AddElement
    <3>3. Cardinality(Spare(i, d)) <= Cardinality(S)
      BY <3>1, <3>2, FS_Subset
    <3> HIDE DEF S
    <3> QED  BY <1>3, <2>2, <3>2, <3>3
  <2> QED  BY <2>1, <2>2
<1>5. SourcesCounted(d)
  <2>1. IsFiniteSet(b.stored) /\ b.nsrc \in Nat
    BY StoredFinite DEF Block
  <2>2. Originals(b) \in SUBSET b.stored
    BY DEF Originals
  <2>3. IsFiniteSet(Originals(b)) /\ Cardinality(Originals(b)) \in Nat
    BY <2>1, <2>2, FS_Subset, FS_CardinalityType
  <2>4. CASE Originals(d) = Originals(b)
    BY <1>1, <2>1, <2>3, <2>4 DEF SourcesCounted
  <2>5. CASE s.src /\ Originals(d) = Originals(b) \cup {s}
    <3>1. Cardinality(Originals(b) \cup {s}) <= Cardinality(Originals(b)) + 1
      BY <2>3, FS_AddElement
    <3>2. Cardinality(Originals(b) \cup {s}) \in Nat
      BY <2>3, FS_AddElement, FS_CardinalityType
    <3> QED  BY <1>1, <2>1, <2>3, <2>5, <3>1, <3>2 DEF SourcesCounted
  <2>6. \/ Originals(d) = Originals(b)
        \/ s.src /\ Originals(d) = Originals(b) \cup {s}
    BY <1>1 DEF Originals
  <2> QED  BY <2>4, <2>5, <2>6
<1> QED  BY <1>2, <1>4, <1>5 DEF d

LEMMA SameSpares ==
  ASSUME NEW i, NEW b, NEW d, d.inUse = b.inUse, d.counted = b.counted,
         d.stored = b.stored, d.nsrc = b.nsrc
  PROVE  /\ Spare(i, d) = Spare(i, b)
         /\ SourcesCounted(b) => SourcesCounted(d)
BY DEF Spare, SourcesCounted, Originals

LEMMA ForwardSourceCharges ==
  ASSUME NEW b \in Block, NEW s \in Symbols, NEW ok
  PROVE  LET d == ForwardSource(b, s, ok)
         IN  /\ d.inUse = b.inUse /\ d.counted = b.counted
             /\ d.stored = b.stored /\ d.nsrc = b.nsrc
BY DEF ForwardSource, Block

(* Marking the symbols of a set with one slot counts the same. *)
LEMMA OneSlotsSymbols ==
  ASSUME NEW i, NEW S, IsFiniteSet(S), Cardinality(S) \in Nat
  PROVE  /\ IsFiniteSet({i} \X S)
         /\ Cardinality({i} \X S) = Cardinality(S)
  <1>1. IsFiniteSet({i}) /\ Cardinality({i}) = 1
    BY FS_Singleton
  <1>2. /\ IsFiniteSet({i} \X S)
        /\ Cardinality({i} \X S) = Cardinality({i}) * Cardinality(S)
    BY <1>1, FS_Product, Zenon
  <1>3. 1 * Cardinality(S) = Cardinality(S)
    OBVIOUS
  <1> QED  BY <1>1, <1>2, <1>3, Zenon

\* What a decoding is charged it had in repairs, which are spare no longer.
LEMMA DecodingSpares ==
  ASSUME TypeOK, StoredInv, NEW i \in SlotIds, NEW s, NEW b \in Block,
         b.inUse, b.stored \subseteq arrived \cup {s}, SourcesCounted(b),
         NEW d \in TryDecode(b)
  PROVE  /\ Cardinality(Spare(i, d)) +
              (IF d.decoded /\ ~b.decoded THEN Consumed(b) ELSE 0)
              <= Cardinality(Spare(i, b))
         /\ SourcesCounted(d)
<1> DEFINE charge == IF d.decoded /\ ~b.decoded THEN Consumed(b) ELSE 0
<1>1. /\ IsFiniteSet(Spare(i, b)) /\ Cardinality(Spare(i, b)) \in Nat
      /\ IsFiniteSet(b.stored)
  BY SpareFinite, StoredFinite
<1>2. CASE d = b
  <2>1. charge = 0
    BY <1>2
  <2> QED  BY <1>1, <1>2, <2>1
<1>3. CASE CanDecode(b) /\ \E sent : d = Decoded(b, sent)
  <2>1. /\ d.inUse = b.inUse /\ d.counted /\ d.decoded
        /\ d.stored = b.stored /\ d.nsrc = b.nsrc
    BY <1>3, Zenon DEF Decoded, Block
  <2>2. SourcesCounted(d)
    BY <2>1 DEF SourcesCounted, Originals
  <2>3. IsFiniteSet(Spare(i, d)) /\ Cardinality(Spare(i, d)) \in Nat
    BY <2>1, SpareFinite
  <2>4. Spare(i, d) \in SUBSET Spare(i, b)
    BY <2>1 DEF Spare
  <2>5. CASE b.counted \/ b.nsrc >= b.K
    <3>1. charge = 0
      BY <2>5 DEF Consumed
    <3>2. Cardinality(Spare(i, d)) <= Cardinality(Spare(i, b))
      BY <1>1, <2>4, FS_Subset
    <3> HIDE DEF charge
    <3>3. Cardinality(Spare(i, d)) + charge <= Cardinality(Spare(i, b))
      BY <1>1, <2>3, <3>1, <3>2
    <3> QED  BY <2>2, <3>3 DEF charge
  <2>6. CASE ~(b.counted \/ b.nsrc >= b.K)
    <3> DEFINE own == {i} \X Repairs(b)
    <3>1. charge = b.K - b.nsrc
      <4>1. ~b.decoded
        BY <1>3 DEF CanDecode
      <4> QED  BY <2>1, <2>6, <4>1 DEF Consumed
    <3>2. /\ IsFiniteSet(Repairs(b)) /\ Cardinality(Repairs(b)) \in Nat
          /\ IsFiniteSet(Originals(b)) /\ Cardinality(Originals(b)) \in Nat
      <4>1. /\ Repairs(b) \in SUBSET b.stored
            /\ Originals(b) \in SUBSET b.stored
        BY DEF Repairs, Originals
      <4> QED  BY <1>1, <4>1, FS_Subset, FS_CardinalityType
    <3>3. Cardinality(b.stored) =
            Cardinality(Repairs(b)) + Cardinality(Originals(b))
      <4>1. /\ Repairs(b) \cup Originals(b) = b.stored
            /\ Repairs(b) \cap Originals(b) = {}
        BY DEF Repairs, Originals
      <4>2. Cardinality(Repairs(b) \cup Originals(b)) =
              Cardinality(Repairs(b)) + Cardinality(Originals(b))
                - Cardinality(Repairs(b) \cap Originals(b))
        BY <3>2, FS_Union
      <4>3. Cardinality(Repairs(b) \cap Originals(b)) = 0
        BY <4>1, FS_EmptySet
      <4>4. Cardinality(Repairs(b) \cup Originals(b)) = Cardinality(b.stored)
        BY <4>1, Zenon
      <4> QED  BY <3>2, <4>2, <4>3, <4>4
    <3>4. charge <= Cardinality(Repairs(b)) /\ charge \in Nat
      <4>1. b.K \in Nat /\ b.nsrc \in Nat
        BY DEF Block
      <4>2. Cardinality(b.stored) >= b.K
        BY <1>3 DEF CanDecode
      <4> HIDE DEF charge
      <4>3. b.nsrc < b.K
        BY <2>6, <4>1
      <4>4. Cardinality(Originals(b)) <= b.nsrc
        BY DEF SourcesCounted
      <4> QED  BY <3>1, <3>2, <3>3, <4>1, <4>2, <4>3, <4>4
    <3>5. IsFiniteSet(own) /\ Cardinality(own) = Cardinality(Repairs(b))
      BY <3>2, OneSlotsSymbols, Zenon
    <3>6. Spare(i, d) \cup own \subseteq Spare(i, b)
      <4>1. \A t \in Repairs(b) : t \in Symbols /\ t \in b.stored /\ ~t.src
        BY DEF Repairs, Block
      <4>2. own \subseteq Spare(i, b)
        BY <2>6, <4>1 DEF Spare
      <4> QED  BY <2>4, <4>2
    <3>7. Spare(i, d) \cap own = {}
      BY <2>1 DEF Spare
    <3> HIDE DEF own, charge
    <3>8. /\ IsFiniteSet(Spare(i, d) \cup own)
          /\ Cardinality(Spare(i, d) \cup own) =
               Cardinality(Spare(i, d)) + Cardinality(own)
                 - Cardinality(Spare(i, d) \cap own)
      BY <2>3, <3>5, FS_Union
    <3>9. Cardinality(Spare(i, d) \cup own) <= Cardinality(Spare(i, b))
      BY <1>1, <3>6, FS_Subset
    <3>10. Cardinality(Spare(i, d) \cap own) = 0
      BY <3>7, FS_EmptySet
    <3>11. Cardinality(Spare(i, d)) + charge <= Cardinality(Spare(i, b))
      BY <1>1, <2>3, <3>2, <3>4, <3>5, <3>8, <3>9, <3>10
    <3> QED  BY <2>2, <3>11 DEF charge
  <2> QED  BY <2>5, <2>6
<1>4. d = b \/ (CanDecode(b) /\ \E sent : d = Decoded(b, sent))
  BY DEF TryDecode
<1> QED  BY <1>2, <1>3, <1>4

LEMMA FragmentCounted ==
  ASSUME TypeOK, NEW s \in Symbols
  PROVE  /\ CountFragment(s).parity = stats.parity + IF s.src THEN 0 ELSE 1
         /\ CountFragment(s).consumed = stats.consumed
         /\ stats.parity \in Nat /\ stats.consumed \in Nat
<1>1. stats \in Stats /\ stats.parity \in Nat /\ stats.consumed \in Nat
  BY DEF TypeOK, Stats
<1>2. CASE s.src
  <2>1. CountFragment(s) = [stats EXCEPT !.data = stats.data + 1]
    BY <1>2 DEF CountFragment
  <2> QED  BY <1>1, <1>2, <2>1 DEF Stats
<1>3. CASE ~s.src
  <2>1. CountFragment(s) = [stats EXCEPT !.parity = stats.parity + 1]
    BY <1>3 DEF CountFragment
  <2> QED  BY <1>1, <1>3, <2>1 DEF Stats
<1> QED  BY <1>2, <1>3

\* Putting b in its slot, or freeing the slot, keeps the account.
LEMMA PlacingSpares ==
  ASSUME TypeOK, StoredInv, SpareInv, NEW i \in SlotIds, NEW s, NEW b,
         b.stored \subseteq arrived \cup {s}, SourcesCounted(b),
         slots' = [slots EXCEPT ![i] = b] \/ slots' = [slots EXCEPT ![i] = FreeBlock]
  PROVE  /\ Cardinality(Spares') <= Cardinality(Spare(i, b))
         /\ Cardinality(Spares') \in Nat
         /\ \A j \in SlotIds : SourcesCounted(slots'[j])
<1>1. SourcesCounted(FreeBlock)
  <2>1. Originals(FreeBlock) = {} /\ FreeBlock.nsrc = 0
    BY DEF Originals, FreeBlock
  <2> QED  BY <2>1, FS_EmptySet DEF SourcesCounted
<1>2. \A j \in SlotIds : SourcesCounted(slots'[j])
  <2>1. \A j \in SlotIds : slots'[j] \in {slots[j], b, FreeBlock}
    BY DEF TypeOK
  <2> QED  BY <1>1, <2>1 DEF SpareInv
<1>3. Spares' = Spare(i, b) \/ Spares' = Spare(i, FreeBlock)
  BY SparesNext
<1>4. Spare(i, FreeBlock) \in SUBSET Spare(i, b)
  BY DEF Spare, FreeBlock
<1>5. Spares' \in SUBSET Spare(i, b)
  BY <1>3, <1>4
<1>6. IsFiniteSet(Spare(i, b)) /\ Cardinality(Spare(i, b)) \in Nat
  BY SpareFinite
<1> QED  BY <1>2, <1>5, <1>6, FS_Subset, FS_CardinalityType

LEMMA FinishKeepsParity ==
  ASSUME NEW b, NEW c \in Stats, Finish(b, c)
  PROVE  stats'.consumed = c.consumed /\ stats'.parity = c.parity
<1> DEFINE g == c.gens + 1
           n == IF AllForwarded(b) /\ ~b.usedFec THEN c.noLoss + 1
                ELSE c.noLoss
           r == IF AllForwarded(b) /\ b.usedFec THEN c.repaired + 1
                ELSE c.repaired
           f == IF AllForwarded(b) THEN c.decodeFail ELSE c.decodeFail + 1
<1>1. CASE FinalizeBlock(b, c)
  <2>1. stats' = [c EXCEPT !.gens = g, !.noLoss = n, !.repaired = r,
                           !.decodeFail = f]
    BY <1>1 DEF FinalizeBlock
  <2> HIDE DEF g, n, r, f
  <2> QED  BY <2>1, Zenon DEF Stats
<1>2. CASE stats' = c
  BY <1>2
<1> QED  BY <1>1, <1>2 DEF Finish

LEMMA ProcessSpares ==
  ASSUME TypeOK, StoredInv, SpareInv, NEW s \in Symbols, Process(s)
  PROVE  SpareInv'
<1>1. PICK ok \in InitOutcomes : \E b1, b2, b3 \in Block :
        /\ ProcessStages(s, Opened(s, ok), b1, b2, b3)
        /\ b2.inUse /\ b3.id = s.id
  BY ProcessInStages
<1>2. PICK b1 \in Block, b2 \in Block, b3 \in Block :
        /\ ProcessStages(s, Opened(s, ok), b1, b2, b3)
        /\ b2.inUse /\ b3.id = s.id
  BY <1>1
<1> DEFINE i == Slot(s.id)
           b0 == Opened(s, ok)
           more == IF s.src THEN 0 ELSE 1
           charge == IF b3.decoded /\ ~b2.decoded THEN Consumed(b2) ELSE 0
<1>3. ok \in BOOLEAN /\ i \in SlotIds
  BY OutcomesAssumption, SlotInRange, SymbolsAssumption DEF Symbol
<1>4. /\ b0 \in Block /\ b0.stored \subseteq arrived \cup {s}
      /\ Cardinality(Spare(i, b0)) <= Cardinality(Spares)
      /\ SourcesCounted(b0)
  BY <1>3, OpenedType, OpenedStored, OpeningSpares
<1>5. /\ b2.stored = b1.stored /\ b3.stored = b2.stored
      /\ b3.stored \subseteq arrived \cup {s}
  BY <1>2, <1>3, StagesStored
<1>6. b1 = b0 \/ b1 = StoreSymbol(b0, s)
  BY <1>2 DEF ProcessStages
<1>7. \E good \in SendOutcomes : b2 = ForwardSource(b1, s, good)
  BY <1>2 DEF ProcessStages
<1>8. b3 \in TryDecode(b2)
  BY <1>2 DEF ProcessStages
<1>9. Finish(b3, [CountFragment(s) EXCEPT !.consumed = @ + charge])
  BY <1>2 DEF ProcessStages
<1> HIDE DEF b0, i
<1>10. /\ Cardinality(Spare(i, b0)) \in Nat
       /\ Cardinality(Spare(i, b1)) \in Nat
       /\ Cardinality(Spare(i, b2)) \in Nat
       /\ Cardinality(Spare(i, b3)) \in Nat
       /\ Cardinality(Spares) \in Nat
  BY <1>4, <1>5, SpareFinite, SparesFinite
<1>11. /\ Cardinality(Spare(i, b1)) <= Cardinality(Spare(i, b0)) + more
       /\ SourcesCounted(b1)
  <2>1. CASE b1 = b0
    BY <1>4, <1>10, <2>1
  <2>2. CASE b1 = StoreSymbol(b0, s)
    BY <1>4, <2>2, StoringSpares
  <2> QED  BY <1>6, <2>1, <2>2
<1>12. Spare(i, b2) = Spare(i, b1) /\ SourcesCounted(b2)
  BY <1>7, <1>11, ForwardSourceCharges, SameSpares
<1>13. /\ Cardinality(Spare(i, b3)) + charge <= Cardinality(Spare(i, b2))
       /\ SourcesCounted(b3)
  BY <1>2, <1>3, <1>5, <1>8, <1>12, DecodingSpares
<1>14. charge \in Nat
  BY ConsumedType
<1> HIDE DEF charge
<1>15. /\ stats'.consumed = stats.consumed + charge
       /\ stats'.parity = stats.parity + more
  <2> DEFINE c == [CountFragment(s) EXCEPT !.consumed = @ + charge]
  <2>1. /\ c.consumed = stats.consumed + charge
        /\ c.parity = stats.parity + more
        /\ c \in Stats
    BY <1>14, CountFragmentType, FragmentCounted DEF Stats
  <2>2. Finish(b3, c)
    BY <1>9
  <2> HIDE DEF c
  <2>3. stats'.consumed = c.consumed /\ stats'.parity = c.parity
    BY <2>1, <2>2, FinishKeepsParity
  <2> QED  BY <2>1, <2>3
<1>16. \/ slots' = [slots EXCEPT ![i] = FreeBlock]
       \/ slots' = [slots EXCEPT ![i] = b3]
  BY <1>2, <1>9, FinishedSlots DEF i
<1>17. /\ Cardinality(Spares') <= Cardinality(Spare(i, b3))
       /\ Cardinality(Spares') \in Nat
       /\ \A j \in SlotIds : SourcesCounted(slots'[j])
  BY <1>3, <1>5, <1>13, <1>16, PlacingSpares DEF i
<1>18. more \in Nat /\ stats.consumed \in Nat /\ stats.parity \in Nat
  BY FragmentCounted
<1>19. stats.consumed + Cardinality(Spares) <= stats.parity
  BY DEF SpareInv
<1> HIDE DEF more
<1>20. stats.consumed + charge + Cardinality(Spares')
         <= stats.parity + more
  BY <1>4, <1>10, <1>11, <1>12, <1>13, <1>14, <1>17, <1>18, <1>19
<1> QED  BY <1>15, <1>17, <1>20 DEF SpareInv

\* The summary's consumed repairs never exceed the repairs received, though
\* they are computed from the originals, and symbols are stored, forgotten and
\* taken over in any order.
THEOREM ConsumedNeverExceeds == Spec => []ConsumedWithinReceived
<1>1. Init => SpareInv
  <2> SUFFICES ASSUME Init
               PROVE  SpareInv
    OBVIOUS
  <2>1. Spares = {}
    BY DEF Init, Spares, Spare, FreeBlock
  <2>2. \A i \in SlotIds : Originals(slots[i]) = {} /\ slots[i].nsrc = 0
    BY DEF Init, Originals, FreeBlock
  <2>3. stats.consumed = 0 /\ stats.parity = 0
    BY DEF Init
  <2> QED  BY <2>1, <2>2, <2>3, FS_EmptySet DEF SpareInv, SourcesCounted
<1>2. TypeOK /\ StoredInv /\ SpareInv /\ [Next]_vars => SpareInv'
  <2> SUFFICES ASSUME TypeOK, StoredInv, SpareInv, [Next]_vars
               PROVE  SpareInv'
    OBVIOUS
  <2>1. ASSUME UNCHANGED slots, NEW more \in Nat,
               stats'.consumed = stats.consumed,
               stats'.parity = stats.parity + more
        PROVE  SpareInv'
    <3>1. Spares' = Spares
      BY <2>1 DEF Spares, Spare
    <3>2. Cardinality(Spares) \in Nat
      BY SparesFinite
    <3>3. stats.consumed \in Nat /\ stats.parity \in Nat
      BY DEF TypeOK, Stats
    <3>4. stats.consumed + Cardinality(Spares) <= stats.parity + more
      BY <3>2, <3>3 DEF SpareInv
    <3> QED  BY <2>1, <3>1, <3>4 DEF SpareInv
  <2>2. ASSUME NEW s \in Symbols, DropMalformed(s)
        PROVE  SpareInv'
    <3>1. stats' = CountFragment(s) /\ UNCHANGED slots
      BY <2>2 DEF DropMalformed
    <3>2. (IF s.src THEN 0 ELSE 1) \in Nat
      OBVIOUS
    <3> QED  BY <2>1, <3>1, <3>2, FragmentCounted
  <2>3. ASSUME NEW s \in Symbols, StoreLate(s)
        PROVE  SpareInv'
    <3>1. PICK ok \in InitOutcomes :
            slots' = [slots EXCEPT ![Slot(s.id)] =
                        StoreSymbol(Opened(s, ok), s)]
      BY <2>3 DEF StoreLate
    <3> DEFINE i == Slot(s.id)
               b == Opened(s, ok)
               d == StoreSymbol(b, s)
               more == IF s.src THEN 0 ELSE 1
    <3>2. ok \in BOOLEAN /\ i \in SlotIds
      BY OutcomesAssumption, SlotInRange, SymbolsAssumption DEF Symbol
    <3>3. /\ b \in Block /\ b.stored \subseteq arrived \cup {s}
          /\ Cardinality(Spare(i, b)) <= Cardinality(Spares)
          /\ SourcesCounted(b)
      BY <3>2, OpenedType, OpenedStored, OpeningSpares
    <3> HIDE DEF b, i
    <3>4. /\ Cardinality(Spare(i, d)) <= Cardinality(Spare(i, b)) + more
          /\ SourcesCounted(d) /\ d.stored \subseteq arrived \cup {s}
      BY <3>3, StoringSpares
    <3>5. slots' = [slots EXCEPT ![i] = d] /\ stats' = CountFragment(s)
      BY <2>3, <3>1 DEF StoreLate, b, i
    <3> HIDE DEF d
    <3>6. /\ Cardinality(Spares') <= Cardinality(Spare(i, d))
          /\ Cardinality(Spares') \in Nat
          /\ \A j \in SlotIds : SourcesCounted(slots'[j])
      BY <3>2, <3>4, <3>5, PlacingSpares
    <3>7. /\ Cardinality(Spare(i, b)) \in Nat
          /\ Cardinality(Spare(i, d)) \in Nat
          /\ Cardinality(Spares) \in Nat
      BY <3>3, <3>4, SpareFinite, SparesFinite
    <3>8. /\ stats'.consumed = stats.consumed
          /\ stats'.parity = stats.parity + more
          /\ stats.consumed \in Nat /\ stats.parity \in Nat /\ more \in Nat
      BY <3>5, FragmentCounted
    <3>9. stats.consumed + Cardinality(Spares) <= stats.parity
      BY DEF SpareInv
    <3> HIDE DEF more
    <3>10. stats.consumed + Cardinality(Spares') <= stats.parity + more
      BY <3>3, <3>4, <3>6, <3>7, <3>8, <3>9
    <3> QED  BY <3>6, <3>8, <3>10 DEF SpareInv
  <2>4. ASSUME NEW s \in Symbols, Process(s)
        PROVE  SpareInv'
    BY <2>4, ProcessSpares
  <2>5. CASE UNCHANGED vars
    BY <2>5 DEF vars, SpareInv, Spares, Spare
  <2> QED  BY <2>2, <2>3, <2>4, <2>5 DEF Next, HandleRqSymbol
<1>3. TypeOK /\ StoredInv /\ SpareInv => ConsumedWithinReceived
  <2> SUFFICES ASSUME TypeOK, StoredInv, SpareInv
               PROVE  stats.consumed <= stats.parity
    BY DEF ConsumedWithinReceived
  <2>1. Cardinality(Spares) \in Nat
    BY SparesFinite
  <2>2. stats.consumed \in Nat /\ stats.parity \in Nat
    BY DEF TypeOK, Stats
  <2> QED  BY <2>1, <2>2 DEF SpareInv
<1> QED  BY <1>1, <1>2, <1>3, ReceiverTypes, StoredAlways, PTL DEF Spec

-----------------------------------------------------------------------------
(* What has arrived is delivered.  G is a set of symbols of full blocks    *)
(* that share neither ids nor slots; within a block an ESI names a symbol. *)

Apart(G) ==
  \A s, t \in G :
    /\ s.fits /\ s.k = BlockSize
    /\ s.src => s.esi < BlockSize
    /\ s.origin = t.origin <=> s.id = t.id
    /\ Slot(s.id) = Slot(t.id) => s.id = t.id
    /\ s.id = t.id /\ s.esi = t.esi => s = t

\* Of the block of s: the symbols that arrived, and whether packet j, or all
\* packets, have left.
Got(s) == {t \in arrived : t.origin = s.origin}
Out(s, j) == copies[<<s.origin, j>>] >= 1
AllOut(s) == \A j \in 0 .. BlockSize - 1 : Out(s, j)

\* The block b being gathered has what arrived of the block of s, and the
\* original packets among it have left.
GathersInto(s, b) ==
  /\ b.ready /\ b.K = BlockSize /\ b.stored = Got(s)
  /\ \A j \in b.fwd : Out(s, j)
  /\ \A t \in Got(s) : t.src => t.esi \in b.fwd

Gathering(s) ==
  /\ ~IsBlockCompleted(s.id)
  /\ LET b == slots[Slot(s.id)]
     IN  IF Got(s) = {} THEN ~(b.inUse /\ b.id = s.id)
         ELSE b.inUse /\ b.id = s.id /\ GathersInto(s, b)

ReachInv(G) == arrived \subseteq G /\ \A s \in G : AllOut(s) \/ Gathering(s)

LEMMA CopiesGrow ==
  ASSUME TypeOK, NEW out, CountCopies(out)
  PROVE  \A p \in Packets : /\ copies[p] >= 1 => copies'[p] >= 1
                            /\ p \in out => copies'[p] >= 1
<1> SUFFICES ASSUME NEW p \in Packets
             PROVE  /\ copies[p] >= 1 => copies'[p] >= 1
                    /\ p \in out => copies'[p] >= 1
  OBVIOUS
<1>1. copies'[p] = IF p \in out /\ copies[p] < 2 THEN copies[p] + 1 ELSE copies[p]
  BY DEF CountCopies
<1>2. copies[p] \in 0 .. 2
  BY DEF TypeOK
<1> QED  BY <1>1, <1>2

\* When nothing fails, a block being gathered is opened as it was left, or as
\* a new one when nothing of it arrived.
LEMMA OpenedGathers ==
  ASSUME TypeOK, StoredInv, WaitInv, NothingFails, NEW G, G \subseteq Symbols,
         Apart(G), arrived \subseteq G, NEW s \in G, Gathering(s),
         NEW ok \in InitOutcomes
  PROVE  /\ GathersInto(s, Opened(s, ok))
         /\ Cardinality(Opened(s, ok).stored) < BlockSize
<1> DEFINE a == slots[Slot(s.id)]
           g == GetBlock(s.id)
           b == Opened(s, ok)
<1>1. s \in Symbols /\ s.id \in Nat /\ Slot(s.id) \in SlotIds /\ ok = TRUE
      /\ s.k = BlockSize /\ BlockSize \in Nat \ {0}
  BY SymbolsAssumption, SizesAssumption, SlotInRange
  DEF Symbol, NothingFails, Apart
<1>2. a \in Block
  BY <1>1 DEF TypeOK
<1>3. b = InitDecoder(g, s.k, ok)
  BY DEF Opened
<1>4. CASE Got(s) = {}
  <2>1. ~(a.inUse /\ a.id = s.id)
    BY <1>4 DEF Gathering
  <2>2. g = [FreeBlock EXCEPT !.inUse = TRUE, !.id = s.id]
    BY <2>1 DEF GetBlock
  <2>3. ~g.ready /\ g.fwd = {}
    BY <2>2 DEF FreeBlock
  <2>4. g \in Block
    BY <1>1, GetBlockType
  <2> HIDE DEF g, b
  <2>5. b = [g EXCEPT !.ready = ok,
                      !.K = IF s.k = 0 \/ s.k > BlockSize THEN BlockSize ELSE s.k,
                      !.stored = {}, !.fwdCount = 0, !.nsrc = 0, !.npar = 0,
                      !.counted = FALSE]
    BY <1>3, <2>3 DEF InitDecoder
  <2>6. (IF s.k = 0 \/ s.k > BlockSize THEN BlockSize ELSE s.k) = BlockSize
    BY <1>1
  <2>7. b.ready = ok /\ b.K = BlockSize /\ b.stored = {} /\ b.fwd = g.fwd
    BY <2>4, <2>5, <2>6, Zenon DEF Block
  <2>8. Cardinality(b.stored) < BlockSize
    BY <1>1, <2>7, FS_EmptySet
  <2> QED  BY <1>1, <1>4, <2>3, <2>7, <2>8 DEF GathersInto, b
<1>5. CASE Got(s) # {}
  <2>1. a.inUse /\ a.id = s.id /\ GathersInto(s, a)
    BY <1>5 DEF Gathering
  <2>2. g = a
    BY <2>1 DEF GetBlock
  <2>3. b = a
    BY <1>3, <2>1, <2>2 DEF InitDecoder, GathersInto
  <2>4. Cardinality(a.stored) < a.K
    BY <1>1, <2>1 DEF WaitInv, Gathering
  <2> QED  BY <2>1, <2>3, <2>4 DEF GathersInto
<1> QED  BY <1>4, <1>5

\* One symbol of a block being gathered: all its packets have left, or the
\* block goes on gathering.
LEMMA ProcessGathers ==
  ASSUME TypeOK, StoredInv, CountBehindFlags, WaitInv, NothingFails,
         NEW G, G \subseteq Symbols, Apart(G), arrived \subseteq G,
         NEW s \in G, Gathering(s), Process(s)
  PROVE  AllOut(s)' \/ Gathering(s)'
<1>1. PICK ok \in InitOutcomes : \E b1, b2, b3 \in Block :
        /\ ProcessSends(s, Opened(s, ok), b1, b2, b3)
        /\ b1.id = s.id /\ b1.inUse
        /\ b2.id = s.id /\ b2.inUse
        /\ b3.id = s.id /\ b3.inUse
  BY ProcessInSends
<1> DEFINE b0 == Opened(s, ok)
<1>2. PICK b1 \in Block, b2 \in Block, b3 \in Block :
        /\ ProcessSends(s, b0, b1, b2, b3)
        /\ b1.id = s.id /\ b1.inUse
        /\ b2.id = s.id /\ b2.inUse
        /\ b3.id = s.id /\ b3.inUse
  BY <1>1
<1>3. ProcessStages(s, b0, b1, b2, b3)
  BY <1>2 DEF ProcessSends
<1>4. /\ s \in Symbols /\ ok \in BOOLEAN /\ s.id \in Nat
      /\ Slot(s.id) \in SlotIds /\ s.k = BlockSize /\ s.esi \in Nat
      /\ s.src => s.esi \in 0 .. BlockSize - 1
      /\ BlockSize \in Nat \ {0} /\ BlockSize <= MaxSyms /\ MaxSyms \in Nat
  BY SymbolsAssumption, SizesAssumption, OutcomesAssumption, SlotInRange
  DEF Symbol, Apart
<1>5. /\ b0 \in Block /\ GathersInto(s, b0) /\ Waiting(b0) /\ Behind(b0)
      /\ Cardinality(b0.stored) < BlockSize
  BY <1>4, OpenedType, OpenedGathers, OpenedWaiting, OpenedBehind
<1> HIDE DEF b0
<1>6. arrived' = arrived \cup {s} /\ Got(s)' = Got(s) \cup {s}
  BY <1>2 DEF ProcessSends, Got
<1>7. Waiting(b1) /\ Behind(b1)
  BY <1>3, <1>4, <1>5, StoreSymbolWaiting, StoreSymbolForwards
  DEF ProcessStages, Behind
<1>8. Waiting(b2) /\ Behind(b2)
  BY <1>3, <1>4, <1>7, OutcomesAssumption, ForwardSourceWaiting,
     ForwardSourceBehind DEF ProcessStages
<1>9. /\ b1.stored = Got(s) \cup {s} /\ b1.fwd = b0.fwd
      /\ b1.K = BlockSize /\ b1.ready
  <2>1. CASE HasEsi(b0, s.esi)
    <3>1. b1 = b0
      BY <1>3, <2>1 DEF ProcessStages
    <3>2. PICK t \in Got(s) : t.esi = s.esi
      BY <1>5, <2>1 DEF HasEsi, GathersInto
    <3>3. t \in G /\ t.origin = s.origin
      BY DEF Got
    <3>4. t = s
      BY <3>2, <3>3 DEF Apart
    <3> QED  BY <1>5, <3>1, <3>4 DEF GathersInto
  <2>2. CASE ~HasEsi(b0, s.esi)
    <3>1. b1 = StoreSymbol(b0, s)
      BY <1>3, <2>2 DEF ProcessStages
    <3>2. Cardinality(b0.stored) \in Nat
      <4>1. b0.stored \subseteq arrived \cup {s}
        BY <1>5 DEF GathersInto, Got
      <4> QED  BY <4>1, StoredFinite
    <3>3. Cardinality(b0.stored) < MaxSyms
      BY <1>4, <1>5, <3>2
    <3>4. b1.stored = b0.stored \cup {s}
      BY <1>5, <3>1, <3>3 DEF StoreSymbol, Block
    <3>5. b1.ready = b0.ready /\ b1.K = b0.K /\ b1.fwd = b0.fwd
      BY <1>4, <1>5, <3>1, StoreSymbolForwards
    <3> QED  BY <1>5, <3>4, <3>5 DEF GathersInto
  <2> QED  BY <2>1, <2>2
<1>10. /\ b2.stored = b1.stored /\ b2.K = b1.K /\ b2.ready
       /\ b3.stored = b2.stored /\ b3.K = b2.K
  <2>1. b2.ready
    BY <1>8 DEF Waiting
  <2> QED  BY <1>3, <2>1, ForwardingKeepsSymbols DEF ProcessStages
<1>11. /\ b1.fwd \subseteq b2.fwd /\ b2.fwd \subseteq b1.fwd \cup {s.esi}
       /\ s.src => s.esi \in b2.fwd
       /\ b2.fwd # b1.fwd => s.src
  <2>1. PICK sendOk \in SendOutcomes : b2 = ForwardSource(b1, s, sendOk)
    BY <1>3 DEF ProcessStages
  <2>2. sendOk = TRUE
    BY DEF NothingFails
  <2>3. CASE s.src /\ s.esi < b1.K /\ s.esi \notin b1.fwd
    <3>1. b2 = [b1 EXCEPT !.fwd = @ \cup {s.esi}, !.fwdCount = @ + 1]
      BY <2>1, <2>2, <2>3 DEF ForwardSource
    <3>2. b2.fwd = b1.fwd \cup {s.esi}
      BY <3>1 DEF Block
    <3> QED  BY <2>3, <3>2
  <2>4. CASE ~(s.src /\ s.esi < b1.K /\ s.esi \notin b1.fwd)
    <3>1. b2 = b1
      BY <2>1, <2>4 DEF ForwardSource
    <3>2. s.src => s.esi < b1.K
      BY <1>4, <1>9
    <3> QED  BY <2>4, <3>1, <3>2
  <2> QED  BY <2>3, <2>4
<1> DEFINE out == Leaving(s, b1, b2, b3)
<1>12. /\ \A p \in Packets : /\ copies[p] >= 1 => copies'[p] >= 1
                             /\ p \in out => copies'[p] >= 1
       /\ \A j \in 0 .. BlockSize - 1 : <<s.origin, j>> \in Packets
  <2>1. CountCopies(out)
    BY <1>2 DEF ProcessSends
  <2>2. s.origin \in Origins
    BY <1>4 DEF Origins
  <2> HIDE DEF out
  <2> QED  BY <2>1, <2>2, CopiesGrow DEF Packets
<1>13. \A j \in b2.fwd : Out(s, j)'
  <2> SUFFICES ASSUME NEW j \in b2.fwd
               PROVE  copies'[<<s.origin, j>>] >= 1
    BY DEF Out
  <2>1. j \in 0 .. BlockSize - 1
    BY DEF Block
  <2>2. CASE j \in b1.fwd
    BY <1>5, <1>9, <1>12, <2>1, <2>2 DEF GathersInto, Out
  <2>3. CASE j \notin b1.fwd
    <3>1. j = s.esi /\ b2.fwd # b1.fwd
      BY <1>11, <2>3
    <3>2. <<s.origin, j>> \in out
      BY <3>1 DEF Leaving
    <3> QED  BY <1>12, <2>1, <3>2
  <2> QED  BY <2>2, <2>3
<1>14. \A j \in b3.fwd : Out(s, j)'
  <2> SUFFICES ASSUME NEW j \in b3.fwd, j \notin b2.fwd
               PROVE  copies'[<<s.origin, j>>] >= 1
    BY <1>13 DEF Out
  <2>1. j \in 0 .. BlockSize - 1
    BY DEF Block
  <2>2. b2.stored # {} /\ DecodesTo(b2, s.origin)
    <3>1. \A t \in b2.stored : t.origin = s.origin /\ t \in G
      BY <1>9, <1>10 DEF Got
    <3>2. \A t \in G : t.k = BlockSize
      BY DEF Apart
    <3> QED  BY <1>9, <1>10, <3>1, <3>2 DEF DecodesTo
  <2>3. <<s.origin, j>> \in Packets
    BY <1>12, <2>1
  <2>4. <<s.origin, j>> \in out
    BY <2>2, <2>3 DEF Leaving, DecodedPackets
  <2> QED  BY <1>12, <2>3, <2>4
<1>15. \/ AllForwarded(b3)
       \/ b3 = b2
  <2>1. Cardinality(b2.stored) \in Nat
    <3>1. b2.stored \subseteq arrived \cup {s}
      BY <1>9, <1>10 DEF Got
    <3> QED  BY <3>1, StoredFinite
  <2> QED  BY <1>3, <1>8, <2>1, TryDecodeDelivers DEF ProcessStages
<1>16. CASE AllForwarded(b3)
  <2>1. 0 .. BlockSize - 1 \subseteq b3.fwd
    BY <1>9, <1>10, <1>16 DEF AllForwarded
  <2> QED  BY <1>14, <2>1 DEF AllOut
<1>17. CASE ~AllForwarded(b3)
  <2>1. b3 = b2
    BY <1>15, <1>17
  <2>2. /\ slots' = [slots EXCEPT ![Slot(b3.id)] = b3]
        /\ completed' = completed
    BY <1>3, <1>17, FinishedSlots DEF ProcessStages
  <2>3. slots'[Slot(s.id)] = b3
    BY <1>2, <1>4, <2>2 DEF TypeOK
  <2>4. GathersInto(s, b3)'
    <3>1. b3.ready /\ b3.K = BlockSize /\ b3.stored = Got(s)'
      BY <1>6, <1>9, <1>10, <2>1
    <3>2. \A t \in Got(s)' : t.src => t.esi \in b3.fwd
      <4>1. \A t \in Got(s) : t.src => t.esi \in b2.fwd
        BY <1>5, <1>9, <1>11 DEF GathersInto
      <4> QED  BY <1>6, <1>11, <2>1, <4>1
    <3>3. \A j \in b3.fwd : Out(s, j)'
      BY <1>14
    <3> QED  BY <3>1, <3>2, <3>3 DEF GathersInto
  <2>5. ~IsBlockCompleted(s.id)' /\ Got(s)' # {}
    BY <1>6, <2>2 DEF IsBlockCompleted, Gathering
  <2> QED  BY <1>2, <2>3, <2>4, <2>5 DEF Gathering
<1> QED  BY <1>16, <1>17

\* What a datagram of another block leaves of a block being gathered.
LEMMA OthersGather ==
  ASSUME TypeOK, NEW G, G \subseteq Symbols, Apart(G), arrived \subseteq G,
         NEW s \in G, NEW t \in G, t.id # s.id,
         arrived' = arrived \cup {s}, NEW b,
         slots' = [slots EXCEPT ![Slot(s.id)] = b],
         completed' = completed \/ completed' = Append(completed, s.id),
         \A p \in Packets : copies[p] >= 1 => copies'[p] >= 1,
         Gathering(t)
  PROVE  Gathering(t)'
<1>1. /\ t.origin # s.origin /\ Slot(t.id) # Slot(s.id)
      /\ Slot(t.id) \in SlotIds /\ t.origin \in Origins
  BY SymbolsAssumption, SlotInRange DEF Apart, Symbol, Origins
<1>2. Got(t)' = Got(t)
  BY <1>1 DEF Got
<1>3. slots'[Slot(t.id)] = slots[Slot(t.id)]
  BY <1>1 DEF TypeOK
<1>4. ~IsBlockCompleted(t.id)'
  <2>1. completed \in Seq(Nat) /\ ~IsBlockCompleted(t.id)
    BY DEF TypeOK, Gathering
  <2>2. CASE completed' = completed
    BY <2>1, <2>2 DEF IsBlockCompleted
  <2>3. CASE completed' = Append(completed, s.id)
    <3>1. ASSUME NEW i \in DOMAIN Append(completed, s.id)
          PROVE  Append(completed, s.id)[i] # t.id
      <4>1. s.id \in Nat
        BY SymbolsAssumption DEF Symbol
      <4>2. CASE i = Len(completed) + 1
        BY <2>1, <4>1, <4>2
      <4>3. CASE i # Len(completed) + 1
        <5>1. i \in DOMAIN completed /\ Append(completed, s.id)[i] = completed[i]
          BY <2>1, <3>1, <4>1, <4>3
        <5> QED  BY <2>1, <5>1 DEF IsBlockCompleted
      <4> QED  BY <4>2, <4>3
    <3> QED  BY <2>3, <3>1 DEF IsBlockCompleted
  <2> QED  BY <2>2, <2>3
<1>5. \A j \in 0 .. BlockSize - 1 : Out(t, j) => Out(t, j)'
  BY <1>1 DEF Out, Packets
<1>6. CASE Got(t) = {}
  BY <1>2, <1>3, <1>4, <1>6 DEF Gathering
<1>7. CASE Got(t) # {}
  <2> DEFINE a == slots[Slot(t.id)]
  <2>1. a.inUse /\ a.id = t.id /\ GathersInto(t, a)
    BY <1>7 DEF Gathering
  <2>2. a.fwd \subseteq 0 .. BlockSize - 1
    BY <1>1 DEF TypeOK, Block
  <2>3. GathersInto(t, a)'
    <3>1. a' = a
      BY <1>3
    <3> HIDE DEF a
    <3>2. \A j \in a.fwd : Out(t, j)'
      BY <1>5, <2>1, <2>2 DEF GathersInto
    <3> QED  BY <1>2, <2>1, <3>1, <3>2 DEF GathersInto
  <2> QED  BY <1>2, <1>3, <1>4, <1>7, <2>1, <2>3 DEF Gathering
<1> QED  BY <1>6, <1>7

\* What one datagram, however late or repeated, preserves.
LEMMA HandledReach ==
  ASSUME TypeOK, StoredInv, CountBehindFlags, WaitInv, NothingFails,
         NEW G, G \subseteq Symbols, Apart(G), ReachInv(G), NEW s \in G,
         HandleRqSymbol(s)
  PROVE  ReachInv(G)'
<1>1. StoreLate(s) \/ Process(s)
  BY DEF HandleRqSymbol, DropMalformed, Apart
<1>2. /\ arrived' = arrived \cup {s}
      /\ \E b : slots' = [slots EXCEPT ![Slot(s.id)] = b]
      /\ completed' = completed \/ completed' = Append(completed, s.id)
      /\ \A p \in Packets : copies[p] >= 1 => copies'[p] >= 1
  <2>1. CASE StoreLate(s)
    BY <2>1 DEF StoreLate
  <2>2. CASE Process(s)
    <3>1. PICK ok \in InitOutcomes : \E b1, b2, b3 \in Block :
            /\ ProcessSends(s, Opened(s, ok), b1, b2, b3)
            /\ b3.id = s.id
      BY <2>2, ProcessInSends
    <3>2. PICK b1 \in Block, b2 \in Block, b3 \in Block :
            /\ ProcessSends(s, Opened(s, ok), b1, b2, b3)
            /\ b3.id = s.id
      BY <3>1
    <3>3. PICK c : Finish(b3, c)
      BY <3>2 DEF ProcessSends, ProcessStages
    <3>4. \/ slots' = [slots EXCEPT ![Slot(s.id)] = FreeBlock]
          \/ slots' = [slots EXCEPT ![Slot(s.id)] = b3]
      BY <3>2, <3>3, FinishedSlots
    <3>5. completed' = completed \/ completed' = Append(completed, s.id)
      BY <3>2, <3>3 DEF Finish, FinalizeBlock, MarkBlockCompleted
    <3>6. CountCopies(Leaving(s, b1, b2, b3)) /\ arrived' = arrived \cup {s}
      BY <3>2 DEF ProcessSends
    <3>7. \A p \in Packets : copies[p] >= 1 => copies'[p] >= 1
      BY <3>6, CopiesGrow
    <3> QED  BY <3>4, <3>5, <3>6, <3>7
  <2> QED  BY <1>1, <2>1, <2>2
<1>3. arrived \subseteq G /\ \A t \in G : AllOut(t) \/ Gathering(t)
  BY DEF ReachInv
<1>4. ASSUME NEW t \in G
      PROVE  AllOut(t)' \/ Gathering(t)'
  <2>1. CASE AllOut(t)
    <3>1. t.origin \in Origins
      BY DEF Origins
    <3>2. \A j \in 0 .. BlockSize - 1 : copies'[<<t.origin, j>>] >= 1
      BY <1>2, <2>1, <3>1 DEF AllOut, Out, Packets
    <3> QED  BY <3>2 DEF AllOut, Out
  <2>2. CASE Gathering(t) /\ t.id # s.id
    <3>1. PICK b : slots' = [slots EXCEPT ![Slot(s.id)] = b]
      BY <1>2
    <3> QED  BY <1>2, <1>3, <2>2, <3>1, OthersGather
  <2>3. CASE Gathering(t) /\ t.id = s.id
    <3>1. t.origin = s.origin
      BY <2>3 DEF Apart
    <3>2. Gathering(s)
      BY <2>3, <3>1 DEF Gathering, GathersInto, Got, Out
    <3>3. Process(s)
      <4>1. ASSUME StoreLate(s)
            PROVE  FALSE
        BY <3>2, <4>1 DEF StoreLate, PassesDiscard, Gathering
      <4> QED  BY <1>1, <4>1
    <3>4. AllOut(s)' \/ Gathering(s)'
      BY <1>3, <3>2, <3>3, ProcessGathers
    <3> QED
      BY <2>3, <3>1, <3>4 DEF AllOut, Gathering, GathersInto, Got, Out
  <2> QED  BY <1>3, <2>1, <2>2, <2>3
<1> QED  BY <1>2, <1>3, <1>4 DEF ReachInv

\* What it says of the symbols that arrived.
LEMMA ReachedPackets ==
  ASSUME TypeOK, StoredInv, WaitInv, NothingFails, NEW G, G \subseteq Symbols,
         Apart(G), ReachInv(G), NEW s \in arrived
  PROVE  /\ s.src => Out(s, s.esi)
         /\ Cardinality(Got(s)) >= BlockSize => AllOut(s)
<1>1. s \in G /\ s \in Got(s) /\ s.id \in Nat /\ Slot(s.id) \in SlotIds
      /\ s.esi \in Nat /\ BlockSize \in Nat
  BY SymbolsAssumption, SlotInRange, SizesAssumption DEF ReachInv, Got, Symbol
<1>2. CASE AllOut(s)
  <2>1. s.src => s.esi \in 0 .. BlockSize - 1
    BY <1>1 DEF Apart
  <2> QED  BY <1>2, <2>1 DEF AllOut
<1>3. CASE Gathering(s)
  <2> DEFINE b == slots[Slot(s.id)]
  <2>1. b.inUse /\ b.id = s.id /\ GathersInto(s, b)
    BY <1>1, <1>3 DEF Gathering
  <2>2. s.src => Out(s, s.esi)
    BY <1>1, <2>1 DEF GathersInto
  <2>3. Cardinality(b.stored) < b.K
    BY <1>1, <1>3, <2>1 DEF WaitInv, Gathering
  <2>4. Cardinality(Got(s)) \in Nat
    <3>1. Got(s) \subseteq arrived
      BY DEF Got
    <3>2. IsFiniteSet(Got(s))
      BY <3>1, FS_Subset DEF StoredInv
    <3> QED  BY <3>2, FS_CardinalityType
  <2>5. ~(Cardinality(Got(s)) >= BlockSize)
    BY <1>1, <2>1, <2>3, <2>4 DEF GathersInto
  <2> QED  BY <2>2, <2>5
<1> QED  BY <1>1, <1>2, <1>3 DEF ReachInv

-----------------------------------------------------------------------------
(* Original packets leave at once, whatever becomes of the blocks of their *)
(* ids: slots may be taken over, the codec may fail.  G is a set of        *)
(* symbols of which each id names one block.                               *)

Named(G) ==
  \A s, t \in G :
    /\ s.fits /\ s.k \in 1 .. BlockSize
    /\ s.src => s.esi < s.k
    /\ s.id = t.id => s.origin = t.origin /\ s.k = t.k

\* A block of the id of s holds symbols of the block of s, and what it has
\* flagged has left.
Tracks(b, s) ==
  /\ b.ready => b.K = s.k
  /\ \A t \in b.stored : t.origin = s.origin /\ t.k = s.k
  /\ \A j \in b.fwd : Out(s, j)

OriginalsInv(G) ==
  /\ arrived \subseteq G
  /\ \A s \in arrived : s.src => Out(s, s.esi)
  /\ \A s \in G :
       /\ IsBlockCompleted(s.id) => \A j \in 0 .. s.k - 1 : Out(s, j)
       /\ \A i \in SlotIds :
            slots[i].inUse /\ slots[i].id = s.id => Tracks(slots[i], s)

LEMMA OpenedTracks ==
  ASSUME TypeOK, NEW G, G \subseteq Symbols, Named(G), OriginalsInv(G),
         NEW s \in G, NEW ok \in BOOLEAN
  PROVE  Tracks(Opened(s, ok), s) /\ Opened(s, ok).K = s.k
<1> DEFINE g == GetBlock(s.id)
           d == InitDecoder(g, s.k, ok)
<1>1. /\ s.id \in Nat /\ s.k \in 1 .. BlockSize /\ Slot(s.id) \in SlotIds
      /\ BlockSize \in Nat \ {0}
  BY SymbolsAssumption, SizesAssumption, SlotInRange DEF Symbol, Named
<1>2. g \in Block
  BY <1>1, GetBlockType
<1>3. Tracks(g, s)
  <2>1. CASE slots[Slot(s.id)].inUse /\ slots[Slot(s.id)].id = s.id
    BY <1>1, <2>1 DEF GetBlock, OriginalsInv
  <2>2. CASE ~(slots[Slot(s.id)].inUse /\ slots[Slot(s.id)].id = s.id)
    BY <2>2 DEF GetBlock, FreeBlock, Tracks
  <2> QED  BY <2>1, <2>2
<1> HIDE DEF g, d
<1>4. CASE g.ready
  BY <1>3, <1>4 DEF InitDecoder, Tracks, Opened, g, d
<1>5. CASE ~g.ready
  <2>1. d = [g EXCEPT !.ready = ok,
                      !.K = IF s.k = 0 \/ s.k > BlockSize THEN BlockSize ELSE s.k,
                      !.stored = {}, !.fwdCount = 0, !.nsrc = 0, !.npar = 0,
                      !.counted = FALSE]
    BY <1>5 DEF InitDecoder, d
  <2>2. (IF s.k = 0 \/ s.k > BlockSize THEN BlockSize ELSE s.k) = s.k
    BY <1>1
  <2>3. d.K = s.k /\ d.stored = {} /\ d.fwd = g.fwd
    BY <1>2, <2>1, <2>2, Zenon DEF Block
  <2> QED  BY <1>3, <2>3 DEF Tracks, Opened, g, d
<1> QED  BY <1>4, <1>5

LEMMA StoreSymbolTracks ==
  ASSUME NEW b \in Block, NEW s \in Symbols, Tracks(b, s), b.K = s.k
  PROVE  /\ Tracks(StoreSymbol(b, s), s)
         /\ StoreSymbol(b, s).K = s.k
         /\ StoreSymbol(b, s).fwd = b.fwd
<1> DEFINE d == StoreSymbol(b, s)
<1>1. /\ d.K = b.K /\ d.fwd = b.fwd
      /\ d.stored \subseteq b.stored \cup {s}
  BY DEF StoreSymbol, Block
<1> HIDE DEF d
<1> QED  BY <1>1 DEF Tracks, d

\* One symbol processed: what its block has flagged afterwards has left.
LEMMA ProcessTracks ==
  ASSUME TypeOK, StoredInv, SendOutcomes = {TRUE},
         NEW G, G \subseteq Symbols, Named(G), OriginalsInv(G),
         NEW s \in G, Process(s)
  PROVE  \E b \in Block :
           /\ \E c : Finish(b, c)
           /\ b.id = s.id /\ b.K = s.k
           /\ Tracks(b, s)'
           /\ s.src => Out(s, s.esi)'
           /\ \A p \in Packets : copies[p] >= 1 => copies'[p] >= 1
           /\ arrived' = arrived \cup {s}
<1>1. PICK ok \in InitOutcomes : \E b1, b2, b3 \in Block :
        /\ ProcessSends(s, Opened(s, ok), b1, b2, b3)
        /\ b3.id = s.id
  BY ProcessInSends
<1> DEFINE b0 == Opened(s, ok)
<1>2. PICK b1 \in Block, b2 \in Block, b3 \in Block :
        /\ ProcessSends(s, b0, b1, b2, b3)
        /\ b3.id = s.id
  BY <1>1
<1>3. ProcessStages(s, b0, b1, b2, b3)
  BY <1>2 DEF ProcessSends
<1>4. /\ s \in Symbols /\ ok \in BOOLEAN /\ s.k \in 1 .. BlockSize
      /\ s.src => s.esi < s.k
      /\ BlockSize \in Nat \ {0}
  BY SizesAssumption, OutcomesAssumption DEF Named
<1>5. b0 \in Block /\ Tracks(b0, s) /\ b0.K = s.k
  BY <1>4, OpenedType, OpenedTracks
<1>6. b0.stored \subseteq arrived
  BY <1>4, OpenedStored
<1> HIDE DEF b0
<1>7. Tracks(b1, s) /\ b1.K = s.k /\ b1.stored \subseteq arrived \cup {s}
  <2>1. CASE HasEsi(b0, s.esi)
    BY <1>3, <1>5, <1>6, <2>1 DEF ProcessStages
  <2>2. CASE ~HasEsi(b0, s.esi)
    <3>1. b1 = StoreSymbol(b0, s)
      BY <1>3, <2>2 DEF ProcessStages
    <3>2. b1.stored \subseteq b0.stored \cup {s}
      BY <1>5, <3>1 DEF StoreSymbol, Block
    <3> QED  BY <1>4, <1>5, <1>6, <3>1, <3>2, StoreSymbolTracks
  <2> QED  BY <2>1, <2>2
<1>8. /\ b2.stored = b1.stored /\ b2.K = s.k
      /\ b3.stored = b1.stored /\ b3.K = s.k
  <2>1. PICK sendOk \in SendOutcomes : b2 = ForwardSource(b1, s, sendOk)
    BY <1>3 DEF ProcessStages
  <2>2. b2.K = b1.K /\ b2.stored = b1.stored
    BY <2>1 DEF ForwardSource, Block
  <2>3. b3 \in TryDecode(b2)
    BY <1>3 DEF ProcessStages
  <2>4. b3.K = b2.K /\ b3.stored = b2.stored
    BY <2>3, ForwardingKeepsSymbols
  <2> QED  BY <1>7, <2>2, <2>4
<1>9. /\ b1.fwd \subseteq b2.fwd /\ b2.fwd \subseteq b1.fwd \cup {s.esi}
      /\ s.src => s.esi \in b2.fwd
  <2>1. b2 = ForwardSource(b1, s, TRUE)
    BY <1>3 DEF ProcessStages
  <2>2. CASE s.src /\ s.esi < b1.K /\ s.esi \notin b1.fwd
    <3>1. b2 = [b1 EXCEPT !.fwd = @ \cup {s.esi}, !.fwdCount = @ + 1]
      BY <2>1, <2>2 DEF ForwardSource
    <3>2. b2.fwd = b1.fwd \cup {s.esi}
      BY <3>1 DEF Block
    <3> QED  BY <2>2, <3>2
  <2>3. CASE ~(s.src /\ s.esi < b1.K /\ s.esi \notin b1.fwd)
    <3>1. b2 = b1
      BY <2>1, <2>3 DEF ForwardSource
    <3> QED  BY <1>4, <1>7, <2>3, <3>1
  <2> QED  BY <2>2, <2>3
<1> DEFINE out == Leaving(s, b1, b2, b3)
<1>10. /\ \A p \in Packets : /\ copies[p] >= 1 => copies'[p] >= 1
                             /\ p \in out => copies'[p] >= 1
       /\ \A j \in 0 .. BlockSize - 1 : <<s.origin, j>> \in Packets
       /\ arrived' = arrived \cup {s}
  <2>1. CountCopies(out) /\ arrived' = arrived \cup {s}
    BY <1>2 DEF ProcessSends
  <2>2. s.origin \in Origins
    BY <1>4 DEF Origins
  <2> HIDE DEF out
  <2> QED  BY <2>1, <2>2, CopiesGrow DEF Packets
<1>11. \A j \in b3.fwd : Out(s, j)'
  <2> SUFFICES ASSUME NEW j \in b3.fwd
               PROVE  copies'[<<s.origin, j>>] >= 1
    BY DEF Out
  <2>1. j \in 0 .. BlockSize - 1 /\ <<s.origin, j>> \in Packets
    BY <1>10 DEF Block
  <2>2. CASE j \in b1.fwd
    BY <1>7, <1>10, <2>1, <2>2 DEF Tracks, Out
  <2>3. CASE j \in b2.fwd /\ j \notin b1.fwd
    <3>1. j = s.esi /\ b2.fwd # b1.fwd
      BY <1>9, <2>3
    <3>2. <<s.origin, j>> \in out
      BY <3>1 DEF Leaving
    <3> QED  BY <1>10, <2>1, <3>2
  <2>4. CASE j \notin b2.fwd
    <3>1. b2.stored # {}
      <4>1. b3 # b2 /\ b3 \in TryDecode(b2)
        BY <1>3, <2>4 DEF ProcessStages
      <4>2. CanDecode(b2)
        BY <4>1 DEF TryDecode
      <4>3. Cardinality(b2.stored) >= s.k
        BY <1>8, <4>2 DEF CanDecode
      <4> QED  BY <1>4, <4>3, FS_EmptySet
    <3>2. DecodesTo(b2, s.origin)
      BY <1>7, <1>8 DEF Tracks, DecodesTo
    <3>3. <<s.origin, j>> \in out
      BY <2>1, <2>4, <3>1, <3>2 DEF Leaving, DecodedPackets
    <3> QED  BY <1>10, <2>1, <3>3
  <2> QED  BY <2>2, <2>3, <2>4
<1>12. Tracks(b3, s)'
  <2>1. \A t \in b3.stored : t.origin = s.origin /\ t.k = s.k
    BY <1>7, <1>8 DEF Tracks
  <2> QED  BY <1>8, <1>11, <2>1 DEF Tracks
<1>13. s.src => Out(s, s.esi)'
  <2>1. b2.fwd \subseteq b3.fwd
    <3>1. b3 = b2 \/ \E sent : b3 = Decoded(b2, sent)
      BY <1>3 DEF ProcessStages, TryDecode
    <3> QED  BY <3>1 DEF Decoded, Block
  <2> QED  BY <1>9, <1>11, <2>1
<1>14. PICK c : Finish(b3, c)
  BY <1>3 DEF ProcessStages
<1> QED  BY <1>2, <1>8, <1>10, <1>12, <1>13, <1>14

\* What becomes of the table when block b is put in the slot of s, and the id
\* of s is completed only when all its packets have left.
LEMMA PlacingTracks ==
  ASSUME TypeOK, NEW G, G \subseteq Symbols, Named(G), OriginalsInv(G),
         NEW s \in G, arrived' = arrived \cup {s},
         s.src => Out(s, s.esi)',
         \A p \in Packets : copies[p] >= 1 => copies'[p] >= 1,
         NEW b, slots' = [slots EXCEPT ![Slot(s.id)] = b],
         b.inUse => b.id = s.id /\ Tracks(b, s)',
         \/ completed' = completed
         \/ /\ completed' = Append(completed, s.id)
            /\ \A j \in 0 .. s.k - 1 : Out(s, j)'
  PROVE  OriginalsInv(G)'
<1>1. /\ \A t \in G : /\ t.id \in Nat /\ t.k \in 1 .. BlockSize /\ t.esi \in Nat
                      /\ t.origin \in Origins
                      /\ t.src => t.esi < t.k
      /\ BlockSize \in Nat \ {0}
  BY SymbolsAssumption, SizesAssumption DEF Symbol, Named, Origins
<1>2. \A t \in G : \A j \in 0 .. BlockSize - 1 : Out(t, j) => Out(t, j)'
  <2> SUFFICES ASSUME NEW t \in G, NEW j \in 0 .. BlockSize - 1, Out(t, j)
               PROVE  copies'[<<t.origin, j>>] >= 1
    BY DEF Out
  <2>1. <<t.origin, j>> \in Packets
    BY <1>1 DEF Packets
  <2> QED  BY <2>1 DEF Out
<1>3. \A t \in G : t.id = s.id => t.origin = s.origin /\ t.k = s.k
  BY DEF Named
<1>4. ASSUME NEW t \in arrived', t.src
      PROVE  Out(t, t.esi)'
  <2>1. t \in G
    BY DEF OriginalsInv
  <2>2. t \in arrived => Out(t, t.esi)
    BY <1>4 DEF OriginalsInv
  <2>3. t.esi \in 0 .. BlockSize - 1
    <3>1. t.esi \in Nat /\ t.k \in 1 .. BlockSize /\ t.esi < t.k
      BY <1>1, <1>4, <2>1
    <3> QED  BY <1>1, <3>1
  <2> QED  BY <1>2, <1>4, <2>1, <2>2, <2>3
<1>5. ASSUME NEW t \in G, IsBlockCompleted(t.id)', NEW j \in 0 .. t.k - 1
      PROVE  Out(t, j)'
  <2>0. j \in 0 .. BlockSize - 1
    BY <1>1
  <2>1. CASE IsBlockCompleted(t.id)
    BY <1>2, <2>0, <2>1 DEF OriginalsInv
  <2>2. CASE ~IsBlockCompleted(t.id)
    <3>1. completed' = Append(completed, s.id)
      BY <1>5, <2>2 DEF IsBlockCompleted
    <3>2. t.id = s.id
      <4>1. completed \in Seq(Nat) /\ s.id \in Nat
        BY <1>1 DEF TypeOK
      <4>2. PICK i \in DOMAIN Append(completed, s.id) :
              Append(completed, s.id)[i] = t.id
        BY <1>5, <3>1 DEF IsBlockCompleted
      <4>3. i \notin DOMAIN completed
        BY <2>2, <4>1, <4>2 DEF IsBlockCompleted
      <4> QED  BY <4>1, <4>2, <4>3
    <3>3. Len(completed') # Len(completed)
      BY <1>1, <3>1 DEF TypeOK
    <3>4. Out(s, j)'
      BY <1>3, <3>2, <3>3
    <3> QED  BY <1>3, <3>2, <3>4 DEF Out
  <2> QED  BY <2>1, <2>2
<1>6. ASSUME NEW t \in G, NEW i \in SlotIds,
             slots'[i].inUse, slots'[i].id = t.id
      PROVE  Tracks(slots[i], t)'
  <2>1. CASE i = Slot(s.id)
    <3>1. slots'[i] = b
      BY <2>1 DEF TypeOK
    <3>2. Tracks(b, s)' /\ t.id = s.id
      BY <1>6, <3>1
    <3> QED  BY <1>3, <3>1, <3>2 DEF Tracks, Out
  <2>2. CASE i # Slot(s.id)
    <3>1. slots'[i] = slots[i]
      BY <2>2 DEF TypeOK
    <3>2. Tracks(slots[i], t)
      BY <1>6, <3>1 DEF OriginalsInv
    <3>3. slots[i].fwd \subseteq 0 .. BlockSize - 1
      BY DEF TypeOK, Block
    <3>4. \A j \in slots[i].fwd : Out(t, j)'
      BY <1>2, <3>2, <3>3 DEF Tracks
    <3> QED  BY <3>1, <3>2, <3>4 DEF Tracks
  <2> QED  BY <2>1, <2>2
<1>7. arrived' \subseteq G
  BY DEF OriginalsInv
<1> QED  BY <1>4, <1>5, <1>6, <1>7 DEF OriginalsInv

\* What one datagram, however late or repeated, preserves.
LEMMA HandledOriginals ==
  ASSUME TypeOK, StoredInv, SendOutcomes = {TRUE},
         NEW G, G \subseteq Symbols, Named(G), OriginalsInv(G),
         NEW s \in G, HandleRqSymbol(s)
  PROVE  OriginalsInv(G)'
<1>1. /\ s \in Symbols /\ s.k \in 1 .. BlockSize /\ s.fits
      /\ s.src => s.esi < s.k /\ s.esi \in Nat
      /\ BlockSize \in Nat \ {0}
  BY SymbolsAssumption, SizesAssumption DEF Symbol, Named
<1>2. CASE StoreLate(s)
  <2>1. PICK ok \in InitOutcomes :
          /\ ~PassesDiscard(Opened(s, ok), s)
          /\ slots' = [slots EXCEPT ![Slot(s.id)] = StoreSymbol(Opened(s, ok), s)]
    BY <1>2 DEF StoreLate
  <2>2. ok \in BOOLEAN
    BY OutcomesAssumption
  <2> PICK b : b = StoreSymbol(Opened(s, ok), s)
    OBVIOUS
  <2>3. /\ Opened(s, ok) \in Block /\ Opened(s, ok).id = s.id
        /\ Tracks(Opened(s, ok), s) /\ Opened(s, ok).K = s.k
    BY <1>1, <2>2, OpenedType, OpenedTracks
  <2>4. b.id = s.id /\ Tracks(b, s)
    BY <1>1, <2>3, StoreSymbolType, StoreSymbolTracks
  <2>5. IsBlockCompleted(s.id)
    BY <2>1 DEF PassesDiscard
  <2>6. s.src => Out(s, s.esi)
    BY <1>1, <2>5 DEF OriginalsInv
  <2>7. /\ completed' = completed /\ copies' = copies
        /\ arrived' = arrived \cup {s}
        /\ slots' = [slots EXCEPT ![Slot(s.id)] = b]
    BY <1>2, <2>1 DEF StoreLate
  <2>8. Tracks(b, s)' /\ (s.src => Out(s, s.esi)')
    BY <2>4, <2>6, <2>7 DEF Tracks, Out
  <2> QED  BY <2>4, <2>7, <2>8, PlacingTracks
<1>3. CASE Process(s)
  <2>0. PICK b \in Block :
           /\ \E c : Finish(b, c)
           /\ b.id = s.id /\ b.K = s.k
           /\ Tracks(b, s)'
           /\ s.src => Out(s, s.esi)'
           /\ \A p \in Packets : copies[p] >= 1 => copies'[p] >= 1
           /\ arrived' = arrived \cup {s}
    BY <1>3, ProcessTracks
  <2>1. PICK c : Finish(b, c)
    BY <2>0
  <2>2. CASE AllForwarded(b)
    <3>1. /\ slots' = [slots EXCEPT ![Slot(s.id)] = FreeBlock]
          /\ completed' = completed \/ completed' = Append(completed, s.id)
      BY <2>0, <2>1, <2>2 DEF Finish, FinalizeBlock, MarkBlockCompleted
    <3>2. \A j \in 0 .. s.k - 1 : Out(s, j)'
      BY <2>0, <2>2 DEF AllForwarded, Tracks
    <3>3. ~FreeBlock.inUse
      BY DEF FreeBlock
    <3> HIDE DEF FreeBlock
    <3> QED  BY <2>0, <3>1, <3>2, <3>3, PlacingTracks
  <2>3. CASE ~AllForwarded(b)
    <3>1. slots' = [slots EXCEPT ![Slot(s.id)] = b] /\ completed' = completed
      BY <2>0, <2>1, <2>3 DEF Finish
    <3> QED  BY <2>0, <3>1, PlacingTracks
  <2> QED  BY <2>2, <2>3
<1> QED  BY <1>1, <1>2, <1>3 DEF HandleRqSymbol, DropMalformed

\* Where the invariants of this and the previous section start.
LEMMA InitReach ==
  ASSUME Init
  PROVE  /\ StoredInv /\ CountBehindFlags /\ WaitInv
         /\ \A G \in SUBSET Symbols : ReachInv(G) /\ OriginalsInv(G)
<1>1. /\ arrived = {} /\ completed = <<>>
      /\ \A i \in SlotIds : slots[i] = FreeBlock
  BY DEF Init
<1>2. StoredInv
  BY <1>1, FS_EmptySet DEF StoredInv, FreeBlock
<1>3. CountBehindFlags
  <2>1. Behind(FreeBlock)
    BY FS_EmptySet DEF FreeBlock, Behind
  <2> QED  BY <1>1, <2>1 DEF CountBehindFlags, Behind
<1>4. WaitInv
  BY <1>1 DEF WaitInv, FreeBlock
<1>5. \A id : ~IsBlockCompleted(id)
  BY <1>1 DEF IsBlockCompleted
<1>6. ASSUME NEW G \in SUBSET Symbols
      PROVE  ReachInv(G) /\ OriginalsInv(G)
  <2>1. \A s \in G : Slot(s.id) \in SlotIds /\ Got(s) = {}
    BY <1>1, SymbolsAssumption, SlotInRange DEF Symbol, Got
  <2>2. ReachInv(G)
    BY <1>1, <1>5, <2>1 DEF ReachInv, Gathering, FreeBlock
  <2>3. OriginalsInv(G)
    BY <1>1, <1>5 DEF OriginalsInv, FreeBlock
  <2> QED  BY <2>2, <2>3
<1> QED  BY <1>2, <1>3, <1>4, <1>6

-----------------------------------------------------------------------------
(* No packet leaves twice.  G is as for ReachInv; no ORIG symbol arrives   *)
(* twice, a repair may; calls may fail.                                    *)

\* The slot of s holds the block of s; the packets flagged and the symbols
\* stored in it.
Holds(s) == slots[Slot(s.id)].inUse /\ slots[Slot(s.id)].id = s.id
Flags(s) == IF Holds(s) THEN slots[Slot(s.id)].fwd ELSE {}
Stored(s) == IF Holds(s) THEN slots[Slot(s.id)].stored ELSE {}

OwnBlock(b, s) ==
  /\ b.ready => b.K = BlockSize
  /\ \A t \in b.stored : t.origin = s.origin

\* Of the block of s the packets F have left, and each once.
LeftOnce(s, F) ==
  \A j \in 0 .. BlockSize - 1 :
    copies[<<s.origin, j>>] = IF j \in F THEN 1 ELSE 0

\* The table of completed blocks names blocks of G, and each once.
CompletedOnce(G) ==
  /\ \A i, j \in DOMAIN completed : completed[i] = completed[j] => i = j
  /\ \A i \in DOMAIN completed : \E t \in G : completed[i] = t.id

OnceInv(G) ==
  /\ arrived \subseteq G
  /\ CompletedOnce(G)
  /\ \A t \in G :
       /\ Holds(t) => OwnBlock(slots[Slot(t.id)], t)
       /\ IF IsBlockCompleted(t.id) THEN Flags(t) = {} /\ AllOut(t)
                                     ELSE LeftOnce(t, Flags(t))

\* What symbol s makes leave: packets of its block that had not left, its own
\* if it is an ORIG symbol, others only if enough symbols have arrived.
LeavesOnce(s, out) ==
  /\ \A p \in out : /\ p[1] = s.origin /\ copies[p] = 0
                    /\ \/ s.src /\ p[2] = s.esi
                       \/ Cardinality(Got(s) \cup {s}) >= BlockSize
  /\ copies' = [p \in Packets |-> IF p \in out THEN 1 ELSE copies[p]]

\* A block is completed with nothing stored, and then stores what arrives late.
StoresLate(G, s) ==
  \A t \in G : IsBlockCompleted(t.id)' =>
    IF IsBlockCompleted(t.id)
    THEN Stored(t)' \subseteq Stored(t) \cup IF t.origin = s.origin THEN {s} ELSE {}
    ELSE Stored(t)' = {} /\ t.origin = s.origin

LEMMA OpenedOnce ==
  ASSUME TypeOK, NEW G, G \subseteq Symbols, Apart(G), OnceInv(G),
         NEW s \in G, NEW ok \in BOOLEAN
  PROVE  /\ OwnBlock(Opened(s, ok), s) /\ Opened(s, ok).K = BlockSize
         /\ Opened(s, ok).fwd = Flags(s)
         /\ Opened(s, ok).stored \subseteq Stored(s)
<1> DEFINE g == GetBlock(s.id)
           d == InitDecoder(g, s.k, ok)
<1>1. /\ s.id \in Nat /\ s.k = BlockSize /\ Slot(s.id) \in SlotIds
      /\ BlockSize \in Nat \ {0}
  BY SymbolsAssumption, SizesAssumption, SlotInRange DEF Symbol, Apart
<1>2. g \in Block
  BY <1>1, GetBlockType
<1>3. OwnBlock(g, s) /\ g.fwd = Flags(s) /\ g.stored = Stored(s)
  <2>1. CASE Holds(s)
    BY <1>1, <2>1 DEF GetBlock, Holds, OnceInv, Flags, Stored
  <2>2. CASE ~Holds(s)
    BY <2>2 DEF GetBlock, FreeBlock, Holds, OwnBlock, Flags, Stored
  <2> QED  BY <2>1, <2>2
<1> HIDE DEF g, d
<1>4. CASE g.ready
  BY <1>3, <1>4 DEF InitDecoder, OwnBlock, Opened, g, d
<1>5. CASE ~g.ready
  <2>1. d = [g EXCEPT !.ready = ok,
                      !.K = IF s.k = 0 \/ s.k > BlockSize THEN BlockSize ELSE s.k,
                      !.stored = {}, !.fwdCount = 0, !.nsrc = 0, !.npar = 0,
                      !.counted = FALSE]
    BY <1>5 DEF InitDecoder, d
  <2>2. (IF s.k = 0 \/ s.k > BlockSize THEN BlockSize ELSE s.k) = BlockSize
    BY <1>1
  <2>3. d.K = BlockSize /\ d.stored = {} /\ d.fwd = g.fwd
    BY <1>2, <2>1, <2>2, Zenon DEF Block
  <2> QED  BY <1>3, <2>3 DEF OwnBlock, Opened, g, d
<1> QED  BY <1>4, <1>5

\* A symbol that has not arrived meets no stored one of its ESI.
LEMMA NewIsNotStored ==
  ASSUME TypeOK, StoredInv, NEW G, G \subseteq Symbols, Apart(G), OnceInv(G),
         NEW s \in G, s \notin arrived, NEW ok \in BOOLEAN
  PROVE  ~HasEsi(Opened(s, ok), s.esi)
<1> SUFFICES ASSUME NEW t \in Opened(s, ok).stored, t.esi = s.esi
             PROVE  FALSE
  BY DEF HasEsi
<1>1. t \in arrived
  BY OpenedStored
<1>2. t \in G /\ t.origin = s.origin
  BY <1>1, OpenedOnce DEF OnceInv, OwnBlock
<1>3. t = s
  BY <1>2 DEF Apart
<1> QED  BY <1>1, <1>3

\* The table of completed blocks has room for one that is not in it: each of
\* its entries has a slot of its own.
LEMMA RoomForCompleted ==
  ASSUME TypeOK, NEW G, G \subseteq Symbols, Apart(G), CompletedOnce(G),
         NEW s \in G, ~IsBlockCompleted(s.id)
  PROVE  Len(completed) < MaxBlocks
<1> DEFINE S == 1 .. Len(completed)
           T == SlotIds \ {Slot(s.id)}
           f == [i \in S |-> Slot(completed[i])]
<1>1. /\ completed \in Seq(Nat) /\ DOMAIN completed = S
      /\ Len(completed) \in Nat /\ MaxBlocks \in Nat \ {0}
  BY SizesAssumption DEF TypeOK
<1>2. Slot(s.id) \in SlotIds
  BY SymbolsAssumption, SlotInRange DEF Symbol
<1>3. ASSUME NEW i \in S
      PROVE  f[i] \in T
  <2>1. PICK t \in G : completed[i] = t.id
    BY <1>1 DEF CompletedOnce
  <2>2. t.id # s.id
    BY <1>1, <2>1 DEF IsBlockCompleted
  <2>3. Slot(t.id) # Slot(s.id)
    BY <2>2 DEF Apart
  <2>4. Slot(t.id) \in SlotIds
    BY SymbolsAssumption, SlotInRange DEF Symbol
  <2> QED  BY <2>1, <2>3, <2>4
<1>4. ASSUME NEW i \in S, NEW j \in S, f[i] = f[j]
      PROVE  i = j
  <2>1. PICK t \in G : completed[i] = t.id
    BY <1>1 DEF CompletedOnce
  <2>2. PICK u \in G : completed[j] = u.id
    BY <1>1 DEF CompletedOnce
  <2>3. t.id = u.id
    BY <1>4, <2>1, <2>2 DEF Apart
  <2> QED  BY <1>1, <2>1, <2>2, <2>3 DEF CompletedOnce
<1>5. f \in Injection(S, T)
  <2>1. f \in [S -> T]
    BY <1>3
  <2> HIDE DEF f, S, T
  <2> QED  BY <1>4, <2>1 DEF Injection, IsInjective
<1>6. IsFiniteSet(T) /\ Cardinality(T) = MaxBlocks - 1
  <2>1. IsFiniteSet(SlotIds) /\ Cardinality(SlotIds) = MaxBlocks
    BY <1>1, FS_Interval DEF SlotIds
  <2> QED  BY <1>2, <2>1, FS_RemoveElement
<1>7. Cardinality(S) = Len(completed)
  <2>1. 1 \in Int /\ Len(completed) \in Int
    BY <1>1
  <2>2. Cardinality(1 .. Len(completed)) =
          IF 1 > Len(completed) THEN 0 ELSE Len(completed) - 1 + 1
    BY <2>1, FS_Interval
  <2> QED  BY <1>1, <2>2
<1> HIDE DEF f, S, T
<1>8. Cardinality(S) <= Cardinality(T)
  BY <1>5, <1>6, FS_Injection
<1> QED  BY <1>1, <1>6, <1>7, <1>8

\* One symbol of a block not completed: the packets it flags, and only these,
\* leave for the first time.
LEMMA ProcessOnce ==
  ASSUME TypeOK, StoredInv, NEW G, G \subseteq Symbols, Apart(G), OnceInv(G),
         NEW s \in G, ~IsBlockCompleted(s.id), Process(s)
  PROVE  \E b \in Block, out \in SUBSET Packets :
           /\ \E c : Finish(b, c)
           /\ b.id = s.id /\ b.inUse /\ b.K = BlockSize /\ OwnBlock(b, s)
           /\ LeavesOnce(s, out) /\ LeftOnce(s, b.fwd)'
           /\ garbled' = garbled /\ arrived' = arrived \cup {s}
<1>1. PICK ok \in InitOutcomes : \E b1, b2, b3 \in Block :
        /\ ProcessSends(s, Opened(s, ok), b1, b2, b3)
        /\ b1.id = s.id /\ b1.inUse
        /\ b2.id = s.id /\ b2.inUse
        /\ b3.id = s.id /\ b3.inUse
  BY ProcessInSends
<1> DEFINE b0 == Opened(s, ok)
<1>2. PICK b1 \in Block, b2 \in Block, b3 \in Block :
        /\ ProcessSends(s, b0, b1, b2, b3)
        /\ b3.id = s.id /\ b3.inUse
  BY <1>1
<1>3. ProcessStages(s, b0, b1, b2, b3)
  BY <1>2 DEF ProcessSends
<1>4. /\ s \in Symbols /\ ok \in BOOLEAN /\ s.origin \in Origins
      /\ BlockSize \in Nat \ {0} /\ s.src \in BOOLEAN /\ s.esi \in Nat
      /\ s.src => s.esi < BlockSize
  BY SymbolsAssumption, SizesAssumption, OutcomesAssumption
  DEF Symbol, Apart, Origins
<1>5. /\ b0 \in Block /\ OwnBlock(b0, s) /\ b0.K = BlockSize
      /\ b0.fwd = Flags(s)
  BY <1>4, OpenedType, OpenedOnce
<1>6. b3.stored \subseteq arrived \cup {s} /\ b2.stored = b3.stored
  BY <1>3, <1>4, StagesStored
<1> HIDE DEF b0
<1>7. /\ b1.K = BlockSize /\ b1.fwd = Flags(s)
      /\ \A t \in b1.stored : t.origin = s.origin
  <2>1. CASE b1 = b0
    BY <1>5, <2>1 DEF OwnBlock
  <2>2. CASE b1 = StoreSymbol(b0, s)
    <3>1. b1.stored \subseteq b0.stored \cup {s}
      BY <1>5, <2>2 DEF StoreSymbol, Block
    <3> QED  BY <1>4, <1>5, <2>2, <3>1, StoreSymbolForwards DEF OwnBlock
  <2> QED  BY <1>3, <2>1, <2>2 DEF ProcessStages
<1>8. /\ b2.K = BlockSize /\ b3.K = BlockSize
      /\ \A t \in b2.stored : t.origin = s.origin /\ t.k = BlockSize
      /\ OwnBlock(b3, s)
  <2>1. b2.K = b1.K /\ b2.stored = b1.stored
    BY <1>3, ForwardingKeepsSymbols DEF ProcessStages
  <2>2. b3.K = b2.K /\ b3.stored = b2.stored
    BY <1>3, ForwardingKeepsSymbols DEF ProcessStages
  <2>3. \A t \in b2.stored : t \in G
    BY <1>6 DEF OnceInv
  <2> QED  BY <1>7, <2>1, <2>2, <2>3 DEF OwnBlock, Apart
<1>9. \/ b2.fwd = b1.fwd
      \/ s.src /\ s.esi \notin b1.fwd /\ b2.fwd = b1.fwd \cup {s.esi}
  <2>1. PICK sendOk \in SendOutcomes : b2 = ForwardSource(b1, s, sendOk)
    BY <1>3 DEF ProcessStages
  <2>2. CASE s.src /\ s.esi < b1.K /\ s.esi \notin b1.fwd /\ sendOk
    <3>1. b2 = [b1 EXCEPT !.fwd = @ \cup {s.esi}, !.fwdCount = @ + 1]
      BY <2>1, <2>2 DEF ForwardSource
    <3>2. b2.fwd = b1.fwd \cup {s.esi}
      BY <3>1 DEF Block
    <3> QED  BY <2>2, <3>2
  <2>3. CASE ~(s.src /\ s.esi < b1.K /\ s.esi \notin b1.fwd /\ sendOk)
    BY <2>1, <2>3 DEF ForwardSource
  <2> QED  BY <2>2, <2>3
<1>10. \/ b3.fwd = b2.fwd
       \/ /\ CanDecode(b2)
          /\ b2.fwd \subseteq b3.fwd /\ b3.fwd \subseteq 0 .. BlockSize - 1
  <2>1. CASE b3 = b2
    BY <2>1
  <2>2. CASE b3 # b2
    <3>1. CanDecode(b2) /\ \E sent : b3 = Decoded(b2, sent)
      BY <1>3, <2>2 DEF ProcessStages, TryDecode
    <3>2. b2.fwd \subseteq b3.fwd
      BY <3>1 DEF Decoded, Block
    <3> QED  BY <3>1, <3>2 DEF Block
  <2> QED  BY <2>1, <2>2
<1>11. b3.fwd # b2.fwd => /\ b2.stored # {}
                          /\ Cardinality(Got(s) \cup {s}) >= BlockSize
  <2> SUFFICES ASSUME b3.fwd # b2.fwd
               PROVE  /\ b2.stored # {}
                      /\ Cardinality(Got(s) \cup {s}) >= BlockSize
    OBVIOUS
  <2>1. Cardinality(b2.stored) >= BlockSize
    BY <1>8, <1>10 DEF CanDecode
  <2>2. b2.stored \subseteq Got(s) \cup {s}
    BY <1>6, <1>8 DEF Got
  <2>3. IsFiniteSet(Got(s) \cup {s})
    <3>1. Got(s) \subseteq arrived
      BY DEF Got
    <3>2. IsFiniteSet(Got(s))
      BY <3>1, FS_Subset DEF StoredInv
    <3> QED  BY <3>2, FS_AddElement
  <2>4. /\ Cardinality(b2.stored) <= Cardinality(Got(s) \cup {s})
        /\ Cardinality(b2.stored) \in Nat
        /\ Cardinality(Got(s) \cup {s}) \in Nat
    BY <2>2, <2>3, FS_Subset, FS_CardinalityType
  <2> QED  BY <1>4, <2>1, <2>4, FS_EmptySet
<1>12. b2.stored # {} => \A o : DecodesTo(b2, o) <=> o = s.origin
  BY <1>8 DEF DecodesTo
<1> DEFINE out == Leaving(s, b1, b2, b3)
<1>13. \A p \in Packets :
         p \in out <=> p[1] = s.origin /\ p[2] \in b3.fwd \ b1.fwd
  <2> SUFFICES ASSUME NEW p \in Packets
               PROVE  p \in out <=> p[1] = s.origin /\ p[2] \in b3.fwd \ b1.fwd
    OBVIOUS
  <2>1. p \in DecodedPackets(b2, b3.fwd \ b2.fwd) <=>
          p[1] = s.origin /\ p[2] \in b3.fwd \ b2.fwd
    BY <1>11, <1>12 DEF DecodedPackets
  <2>2. p \in (IF b2.fwd # b1.fwd THEN {<<s.origin, s.esi>>} ELSE {}) <=>
          p[1] = s.origin /\ p[2] \in b2.fwd \ b1.fwd
    <3>1. p = <<p[1], p[2]>>
      BY DEF Packets
    <3> QED  BY <1>9, <3>1
  <2>3. b1.fwd \subseteq b2.fwd /\ b2.fwd \subseteq b3.fwd
    BY <1>9, <1>10
  <2> QED  BY <2>1, <2>2, <2>3 DEF Leaving
<1>14. out \in SUBSET Packets
  <2>1. b2.fwd # b1.fwd => <<s.origin, s.esi>> \in Packets
    BY <1>4, <1>9 DEF Packets
  <2> QED  BY <2>1 DEF Leaving, DecodedPackets
<1>15. /\ CountCopies(out) /\ arrived' = arrived \cup {s}
       /\ garbled' = (garbled \/ \E i \in b3.fwd \ b2.fwd :
                        \A o \in Origins : ~DecodesTo(b2, o))
  BY <1>2 DEF ProcessSends
<1> HIDE DEF out
<1>16. garbled' = garbled
  <2>1. \A i \in b3.fwd \ b2.fwd : DecodesTo(b2, s.origin)
    BY <1>11, <1>12
  <2>2. garbled \in BOOLEAN
    BY DEF TypeOK
  <2> QED  BY <1>4, <1>15, <2>1, <2>2
<1>17. \A p \in Packets : /\ p[1] = s.origin =>
                               copies[p] = IF p[2] \in b1.fwd THEN 1 ELSE 0
                          /\ copies[p] \in 0 .. 2
  <2>1. LeftOnce(s, b1.fwd) /\ copies \in [Packets -> 0 .. 2]
    BY <1>7 DEF OnceInv, TypeOK
  <2> QED  BY <2>1 DEF LeftOnce, Packets
<1>18. copies' = [p \in Packets |-> IF p \in out THEN 1 ELSE copies[p]]
  <2>1. ASSUME NEW p \in Packets
        PROVE  (IF p \in out /\ copies[p] < 2 THEN copies[p] + 1 ELSE copies[p])
                 = IF p \in out THEN 1 ELSE copies[p]
    BY <1>13, <1>17
  <2> QED  BY <1>15, <2>1 DEF CountCopies
<1>19. LeavesOnce(s, out)
  <2>1. ASSUME NEW p \in out
        PROVE  /\ p[1] = s.origin /\ copies[p] = 0
               /\ \/ s.src /\ p[2] = s.esi
                  \/ Cardinality(Got(s) \cup {s}) >= BlockSize
    <3>1. p \in Packets /\ p[1] = s.origin /\ p[2] \in b3.fwd \ b1.fwd
      BY <1>13, <1>14
    <3> QED  BY <1>9, <1>11, <1>17, <3>1
  <2> QED  BY <1>18, <2>1 DEF LeavesOnce
<1>20. LeftOnce(s, b3.fwd)'
  <2> SUFFICES ASSUME NEW j \in 0 .. BlockSize - 1
               PROVE  copies'[<<s.origin, j>>] = IF j \in b3.fwd THEN 1 ELSE 0
    BY DEF LeftOnce
  <2>1. <<s.origin, j>> \in Packets
    BY <1>4 DEF Packets
  <2>2. copies'[<<s.origin, j>>] =
          IF <<s.origin, j>> \in out THEN 1 ELSE copies[<<s.origin, j>>]
    BY <1>18, <2>1
  <2>3. <<s.origin, j>> \in out <=> j \in b3.fwd \ b1.fwd
    BY <1>13, <2>1
  <2>4. copies[<<s.origin, j>>] = IF j \in b1.fwd THEN 1 ELSE 0
    BY <1>17, <2>1
  <2>5. b1.fwd \subseteq b3.fwd
    BY <1>9, <1>10
  <2> QED  BY <2>2, <2>3, <2>4, <2>5
<1>21. \E c : Finish(b3, c)
  BY <1>3 DEF ProcessStages
<1> QED
  BY <1>2, <1>8, <1>14, <1>15, <1>16, <1>19, <1>20, <1>21

PlacedAs(G, s, b) ==
  \A t \in G : Stored(t)' = IF t.origin # s.origin THEN Stored(t)
                            ELSE IF b.inUse THEN b.stored ELSE {}

\* What becomes of the table when block b is put in the slot of s, and only
\* packets of the block of s have left.
LEMMA PlacingOnce ==
  ASSUME TypeOK, NEW G, G \subseteq Symbols, Apart(G), OnceInv(G), NEW s \in G,
         arrived' = arrived \cup {s}, CompletedOnce(G)',
         NEW b, slots' = [slots EXCEPT ![Slot(s.id)] = b],
         b.inUse => b.id = s.id /\ OwnBlock(b, s),
         \A id : id # s.id => (IsBlockCompleted(id)' <=> IsBlockCompleted(id)),
         \A p \in Packets : p[1] # s.origin => copies'[p] = copies[p],
         IsBlockCompleted(s.id)' => AllOut(s)' /\ (b.inUse => b.fwd = {}),
         ~IsBlockCompleted(s.id)' => b.inUse /\ LeftOnce(s, b.fwd)'
  PROVE  OnceInv(G)' /\ PlacedAs(G, s, b)
<1>1. \A t \in G : /\ Slot(t.id) \in SlotIds /\ t.origin \in Origins
                   /\ t.origin # s.origin <=> Slot(t.id) # Slot(s.id)
                   /\ t.origin # s.origin <=> t.id # s.id
  BY SymbolsAssumption, SlotInRange DEF Symbol, Origins, Apart
<1>2. slots'[Slot(s.id)] = b
  BY <1>1 DEF TypeOK
<1>3. ASSUME NEW t \in G
      PROVE  /\ Holds(t)' => OwnBlock(slots[Slot(t.id)], t)'
             /\ IF IsBlockCompleted(t.id)' THEN Flags(t)' = {} /\ AllOut(t)'
                                           ELSE LeftOnce(t, Flags(t))'
             /\ Stored(t)' = IF t.origin # s.origin THEN Stored(t)
                             ELSE IF b.inUse THEN b.stored ELSE {}
  <2>1. CASE t.origin = s.origin
    <3>1. t.id = s.id
      BY <1>1, <2>1
    <3>2. Holds(t)' => OwnBlock(slots[Slot(t.id)], t)'
      BY <1>2, <2>1, <3>1 DEF Holds, OwnBlock
    <3>3. /\ Flags(t)' = IF b.inUse THEN b.fwd ELSE {}
          /\ Stored(t)' = IF b.inUse THEN b.stored ELSE {}
      BY <1>2, <3>1 DEF Flags, Stored, Holds
    <3>4. /\ AllOut(s)' => AllOut(t)'
          /\ LeftOnce(s, b.fwd)' => LeftOnce(t, b.fwd)'
      BY <2>1 DEF AllOut, Out, LeftOnce
    <3>5. CASE IsBlockCompleted(t.id)'
      BY <2>1, <3>1, <3>2, <3>3, <3>4, <3>5
    <3>6. CASE ~IsBlockCompleted(t.id)'
      <4>1. b.inUse /\ LeftOnce(t, b.fwd)'
        BY <3>1, <3>4, <3>6
      <4>2. LeftOnce(t, Flags(t))'
        BY <3>3, <4>1 DEF LeftOnce
      <4> QED  BY <2>1, <3>2, <3>3, <3>6, <4>2
    <3> QED  BY <3>5, <3>6
  <2>2. CASE t.origin # s.origin
    <3>1. slots'[Slot(t.id)] = slots[Slot(t.id)]
      BY <1>1, <2>2 DEF TypeOK
    <3>2. (Holds(t)' <=> Holds(t)) /\ Flags(t)' = Flags(t) /\ Stored(t)' = Stored(t)
      BY <3>1 DEF Holds, Flags, Stored
    <3>3. Holds(t)' => OwnBlock(slots[Slot(t.id)], t)'
      BY <3>1, <3>2 DEF OnceInv, OwnBlock
    <3>4. \A j \in 0 .. BlockSize - 1 :
            copies'[<<t.origin, j>>] = copies[<<t.origin, j>>]
      BY <1>1, <2>2 DEF Packets
    <3>5. /\ AllOut(t) => AllOut(t)'
          /\ LeftOnce(t, Flags(t)) => LeftOnce(t, Flags(t))'
      BY <3>2, <3>4 DEF AllOut, Out, LeftOnce
    <3>6. IsBlockCompleted(t.id)' <=> IsBlockCompleted(t.id)
      BY <1>1, <2>2
    <3> QED  BY <2>2, <3>2, <3>3, <3>5, <3>6 DEF OnceInv
  <2> QED  BY <2>1, <2>2
<1>4. arrived' \subseteq G
  BY DEF OnceInv
<1> QED  BY <1>3, <1>4 DEF OnceInv, PlacedAs

\* One entry more in the table of completed blocks.
LEMMA CompletingOnce ==
  ASSUME TypeOK, NEW G, G \subseteq Symbols, CompletedOnce(G), NEW s \in G,
         ~IsBlockCompleted(s.id), completed' = Append(completed, s.id)
  PROVE  /\ CompletedOnce(G)' /\ IsBlockCompleted(s.id)'
         /\ \A id : id # s.id => (IsBlockCompleted(id)' <=> IsBlockCompleted(id))
<1> DEFINE n == Len(completed)
<1>1. completed \in Seq(Nat) /\ s.id \in Nat
  BY SymbolsAssumption DEF TypeOK, Symbol
<1>2. /\ n \in Nat /\ DOMAIN completed = 1 .. n
      /\ DOMAIN completed' = 1 .. n + 1
      /\ \A i \in 1 .. n : completed'[i] = completed[i]
      /\ completed'[n + 1] = s.id
  BY <1>1
<1> HIDE DEF n
<1>3. \A i \in 1 .. n : completed[i] # s.id
  BY <1>2 DEF IsBlockCompleted
<1>4. \A i \in 1 .. n + 1 : i \in 1 .. n \/ i = n + 1
  BY <1>2
<1>5. CompletedOnce(G)'
  <2>1. \A i, j \in 1 .. n + 1 : completed'[i] = completed'[j] => i = j
    BY <1>2, <1>3, <1>4 DEF CompletedOnce
  <2>2. \A i \in 1 .. n + 1 : \E t \in G : completed'[i] = t.id
    BY <1>2, <1>4 DEF CompletedOnce
  <2> QED  BY <1>2, <2>1, <2>2 DEF CompletedOnce
<1>6. n + 1 \in 1 .. n + 1 /\ \A i \in 1 .. n : i \in 1 .. n + 1
  BY <1>2
<1> QED  BY <1>2, <1>5, <1>6 DEF IsBlockCompleted

\* A late repair with a stored ESI gets past the discard of late symbols, but
\* nothing comes of it while fewer symbols are stored than decoding takes.
LEMMA RepeatedLate ==
  ASSUME TypeOK, StoredInv, NEW G, G \subseteq Symbols, Apart(G), OnceInv(G),
         NEW s \in G, ~s.src, IsBlockCompleted(s.id),
         Cardinality(Stored(s)) < BlockSize, IsFiniteSet(Stored(s)), Process(s)
  PROVE  \E ok \in BOOLEAN :
           /\ slots' = [slots EXCEPT ![Slot(s.id)] = Opened(s, ok)]
           /\ UNCHANGED <<completed, copies, garbled>>
           /\ arrived' = arrived \cup {s}
<1>1. PICK ok \in InitOutcomes : \E b1, b2, b3 \in Block :
        /\ ProcessSends(s, Opened(s, ok), b1, b2, b3)
        /\ b3.id = s.id
  BY ProcessInSends
<1> DEFINE b0 == Opened(s, ok)
<1>2. PICK b1 \in Block, b2 \in Block, b3 \in Block :
        ProcessSends(s, b0, b1, b2, b3) /\ b3.id = s.id
  BY <1>1
<1>3. ok \in BOOLEAN /\ s \in Symbols /\ BlockSize \in Nat \ {0}
  BY OutcomesAssumption, SizesAssumption
<1>4. /\ b0 \in Block /\ b0.K = BlockSize /\ b0.fwd = {}
      /\ b0.stored \subseteq Stored(s)
  BY <1>3, OpenedType, OpenedOnce DEF OnceInv
<1>5. Cardinality(b0.stored) < BlockSize
  <2>1. /\ IsFiniteSet(b0.stored) /\ Cardinality(b0.stored) <= Cardinality(Stored(s))
    BY <1>4, FS_Subset
  <2>2. Cardinality(b0.stored) \in Nat /\ Cardinality(Stored(s)) \in Nat
    BY <2>1, FS_CardinalityType
  <2> QED  BY <1>3, <2>1, <2>2
<1> HIDE DEF b0
<1>6. b1 = b0
  BY <1>2 DEF ProcessSends, ProcessStages, PassesDiscard
<1>7. b2 = b0
  BY <1>2, <1>6 DEF ProcessSends, ProcessStages, ForwardSource
<1>8. b3 = b0
  <2>1. ~CanDecode(b0)
    <3>1. Cardinality(b0.stored) \in Nat
      <4>1. IsFiniteSet(b0.stored)
        BY <1>4, FS_Subset
      <4> QED  BY <4>1, FS_CardinalityType
    <3> QED  BY <1>3, <1>4, <1>5, <3>1 DEF CanDecode
  <2> QED  BY <1>2, <1>7, <2>1 DEF ProcessSends, ProcessStages, TryDecode
<1>9. ~AllForwarded(b0)
  <2>1. 0 \in 0 .. b0.K - 1
    BY <1>3, <1>4
  <2> QED  BY <1>4, <2>1 DEF AllForwarded
<1>10. slots' = [slots EXCEPT ![Slot(s.id)] = b0] /\ completed' = completed
  BY <1>2, <1>8, <1>9 DEF ProcessSends, ProcessStages, Finish
<1>11. Leaving(s, b1, b2, b3) = {}
  BY <1>6, <1>7, <1>8 DEF Leaving, DecodedPackets
<1>12. copies' = copies
  <2>1. CountCopies({}) /\ copies \in [Packets -> 0 .. 2]
    BY <1>2, <1>11 DEF ProcessSends, TypeOK
  <2> QED  BY <2>1 DEF CountCopies
<1>13. garbled' = garbled /\ arrived' = arrived \cup {s}
  BY <1>2, <1>7, <1>8 DEF ProcessSends, TypeOK
<1> QED  BY <1>3, <1>10, <1>12, <1>13 DEF b0

\* What one datagram makes leave: no packet for the second time, unless an
\* ORIG symbol is repeated, or a repair that comes late and with as many
\* symbols stored as decoding takes.
LEMMA HandledOnce ==
  ASSUME TypeOK, StoredInv, NEW G, G \subseteq Symbols, Apart(G), OnceInv(G),
         NEW s \in G, HandleRqSymbol(s),
         s \in arrived => ~s.src,
         s \in arrived /\ IsBlockCompleted(s.id) => Cardinality(Stored(s)) < BlockSize
  PROVE  /\ OnceInv(G)' /\ garbled' = garbled /\ arrived' = arrived \cup {s}
         /\ \E out \in SUBSET Packets : LeavesOnce(s, out)
         /\ StoresLate(G, s)
<1>1. CompletedOnce(G)
  BY DEF OnceInv
<1>2. CASE IsBlockCompleted(s.id)
  <2>1. StoreLate(s) \/ (Process(s) /\ s \in arrived)
    <3>1. ASSUME Process(s), s \notin arrived
          PROVE  FALSE
      <4>1. PICK ok \in InitOutcomes : \E b1, b2, b3 \in Block :
              ProcessStages(s, Opened(s, ok), b1, b2, b3)
        BY <3>1, ProcessInStages
      <4>2. PassesDiscard(Opened(s, ok), s)
        BY <4>1 DEF ProcessStages
      <4>3. ~HasEsi(Opened(s, ok), s.esi)
        BY <3>1, NewIsNotStored, OutcomesAssumption
      <4> QED  BY <1>2, <4>2, <4>3 DEF PassesDiscard
    <3> QED  BY <3>1 DEF HandleRqSymbol, DropMalformed, Apart
  <2>2. \E ok \in BOOLEAN : \E b :
          /\ b = Opened(s, ok) \/ b = StoreSymbol(Opened(s, ok), s)
          /\ slots' = [slots EXCEPT ![Slot(s.id)] = b]
          /\ UNCHANGED <<completed, copies, garbled>>
          /\ arrived' = arrived \cup {s}
    <3>1. CASE StoreLate(s)
      <4>1. PICK ok \in InitOutcomes :
              slots' = [slots EXCEPT ![Slot(s.id)] = StoreSymbol(Opened(s, ok), s)]
        BY <3>1 DEF StoreLate
      <4>2. /\ UNCHANGED <<completed, copies, garbled>>
            /\ arrived' = arrived \cup {s} /\ ok \in BOOLEAN
        BY <3>1, OutcomesAssumption DEF StoreLate
      <4> QED  BY <4>1, <4>2
    <3>2. CASE Process(s) /\ s \in arrived
      <4>1. IsFiniteSet(Stored(s))
        <5>1. Slot(s.id) \in SlotIds
          BY SymbolsAssumption, SlotInRange DEF Symbol
        <5>2. Stored(s) \subseteq arrived
          BY <5>1 DEF Stored, StoredInv
        <5> QED  BY <5>2, FS_Subset DEF StoredInv
      <4> QED  BY <1>2, <3>2, <4>1, RepeatedLate
    <3> QED  BY <2>1, <3>1, <3>2
  <2>3. PICK ok \in BOOLEAN : \E b :
              /\ b = Opened(s, ok) \/ b = StoreSymbol(Opened(s, ok), s)
              /\ slots' = [slots EXCEPT ![Slot(s.id)] = b]
              /\ UNCHANGED <<completed, copies, garbled>>
              /\ arrived' = arrived \cup {s}
    BY <2>2
  <2>4. PICK b : /\ b = Opened(s, ok) \/ b = StoreSymbol(Opened(s, ok), s)
                 /\ slots' = [slots EXCEPT ![Slot(s.id)] = b]
                 /\ UNCHANGED <<completed, copies, garbled>>
                 /\ arrived' = arrived \cup {s}
    BY <2>3
  <2>5. /\ b.id = s.id /\ OwnBlock(b, s) /\ b.fwd = {}
        /\ b.stored \subseteq Stored(s) \cup {s}
    <3>1. /\ Opened(s, ok) \in Block /\ Opened(s, ok).id = s.id
          /\ OwnBlock(Opened(s, ok), s) /\ Opened(s, ok).fwd = {}
          /\ Opened(s, ok).stored \subseteq Stored(s)
      BY <1>2, OpenedType, OpenedOnce DEF OnceInv
    <3>2. CASE b = Opened(s, ok)
      BY <3>1, <3>2
    <3>3. CASE b = StoreSymbol(Opened(s, ok), s)
      <4>1. /\ b.id = Opened(s, ok).id /\ b.ready = Opened(s, ok).ready
            /\ b.K = Opened(s, ok).K /\ b.fwd = Opened(s, ok).fwd
        BY <3>1, <3>3, StoreSymbolType, StoreSymbolForwards
      <4>2. b.stored \subseteq Opened(s, ok).stored \cup {s}
        BY <3>1, <3>3 DEF StoreSymbol, Block
      <4> QED  BY <3>1, <4>1, <4>2 DEF OwnBlock
    <3> QED  BY <2>4, <3>2, <3>3
  <2>6. /\ CompletedOnce(G)' /\ IsBlockCompleted(s.id)' /\ AllOut(s)'
        /\ \A id : IsBlockCompleted(id)' <=> IsBlockCompleted(id)
    BY <1>1, <1>2, <2>4 DEF CompletedOnce, IsBlockCompleted, OnceInv, AllOut, Out
  <2>7. OnceInv(G)' /\ PlacedAs(G, s, b)
    BY <2>4, <2>5, <2>6, PlacingOnce
  <2>8. LeavesOnce(s, {})
    BY <2>4 DEF LeavesOnce, TypeOK
  <2>9. StoresLate(G, s)
    <3> SUFFICES ASSUME NEW t \in G, IsBlockCompleted(t.id)'
                 PROVE  IF IsBlockCompleted(t.id)
                        THEN Stored(t)' \subseteq Stored(t) \cup
                               IF t.origin = s.origin THEN {s} ELSE {}
                        ELSE Stored(t)' = {} /\ t.origin = s.origin
      BY DEF StoresLate
    <3>1. IsBlockCompleted(t.id)
      BY <2>6
    <3>2. t.origin = s.origin => Stored(t) = Stored(s)
      BY DEF Apart, Stored, Holds
    <3> QED  BY <2>5, <2>7, <3>1, <3>2 DEF PlacedAs
  <2> QED  BY <2>4, <2>7, <2>8, <2>9
<1>3. CASE ~IsBlockCompleted(s.id)
  <2>1. Process(s)
    BY <1>3 DEF HandleRqSymbol, DropMalformed, StoreLate, PassesDiscard, Apart
  <2>2. PICK b \in Block, out \in SUBSET Packets :
           /\ \E c : Finish(b, c)
           /\ b.id = s.id /\ b.inUse /\ b.K = BlockSize /\ OwnBlock(b, s)
           /\ LeavesOnce(s, out) /\ LeftOnce(s, b.fwd)'
           /\ garbled' = garbled /\ arrived' = arrived \cup {s}
    BY <1>3, <2>1, ProcessOnce
  <2>3. PICK c : Finish(b, c)
    BY <2>2
  <2>4. \A p \in Packets : p[1] # s.origin => copies'[p] = copies[p]
    BY <2>2 DEF LeavesOnce
  <2>5. OnceInv(G)' /\ StoresLate(G, s)
    <3>1. CASE AllForwarded(b)
      <4>1. Len(completed) < MaxBlocks
        BY <1>1, <1>3, RoomForCompleted
      <4>2. /\ slots' = [slots EXCEPT ![Slot(s.id)] = FreeBlock]
            /\ completed' = Append(completed, s.id)
        BY <2>2, <2>3, <3>1, <4>1 DEF Finish, FinalizeBlock, MarkBlockCompleted
      <4>3. /\ CompletedOnce(G)' /\ IsBlockCompleted(s.id)'
            /\ \A id : id # s.id => (IsBlockCompleted(id)' <=> IsBlockCompleted(id))
        BY <1>1, <1>3, <4>2, CompletingOnce
      <4>4. ~FreeBlock.inUse
        BY DEF FreeBlock
      <4>5. AllOut(s)'
        <5>1. 0 .. BlockSize - 1 \subseteq b.fwd
          BY <2>2, <3>1 DEF AllForwarded
        <5> QED  BY <2>2, <5>1 DEF LeftOnce, AllOut, Out
      <4> HIDE DEF FreeBlock
      <4>6. OnceInv(G)' /\ PlacedAs(G, s, FreeBlock)
        BY <2>2, <2>4, <4>2, <4>3, <4>4, <4>5, PlacingOnce
      <4>7. \A t \in G : t.id = s.id <=> t.origin = s.origin
        BY DEF Apart
      <4> QED  BY <1>3, <4>3, <4>4, <4>6, <4>7 DEF StoresLate, PlacedAs
    <3>2. CASE ~AllForwarded(b)
      <4>1. slots' = [slots EXCEPT ![Slot(s.id)] = b] /\ completed' = completed
        BY <2>2, <2>3, <3>2 DEF Finish
      <4>2. /\ CompletedOnce(G)' /\ ~IsBlockCompleted(s.id)'
            /\ \A id : IsBlockCompleted(id)' <=> IsBlockCompleted(id)
        BY <1>1, <1>3, <4>1 DEF CompletedOnce, IsBlockCompleted
      <4>3. OnceInv(G)' /\ PlacedAs(G, s, b)
        BY <2>2, <2>4, <4>1, <4>2, PlacingOnce
      <4>4. \A t \in G : t.id = s.id <=> t.origin = s.origin
        BY DEF Apart
      <4> QED  BY <4>2, <4>3, <4>4 DEF StoresLate, PlacedAs
    <3> QED  BY <3>1, <3>2
  <2> QED  BY <2>2, <2>5
<1> QED  BY <1>2, <1>3

LEMMA InitOnce ==
  ASSUME Init, NEW G \in SUBSET Symbols
  PROVE  OnceInv(G)
<1>1. /\ arrived = {} /\ completed = <<>>
      /\ copies = [p \in Packets |-> 0]
      /\ \A i \in SlotIds : ~slots[i].inUse
  BY DEF Init, FreeBlock
<1>2. \A t \in G : Slot(t.id) \in SlotIds /\ t.origin \in Origins
  BY SymbolsAssumption, SlotInRange DEF Symbol, Origins
<1>3. CompletedOnce(G)
  BY <1>1 DEF CompletedOnce
<1>4. \A t \in G : ~Holds(t) /\ Flags(t) = {}
  BY <1>1, <1>2 DEF Holds, Flags
<1>5. \A t \in G : LeftOnce(t, {}) /\ ~IsBlockCompleted(t.id)
  BY <1>1, <1>2 DEF LeftOnce, Packets, IsBlockCompleted
<1> QED  BY <1>1, <1>3, <1>4, <1>5 DEF OnceInv

-----------------------------------------------------------------------------
(* Late symbols are discarded *)

\* An ESI names one symbol of an id, and an origin has one id: ids are not
\* reused and the repairs of a block have drawn different ESIs.
EsisIdentifySymbols ==
  /\ \A s, t \in Symbols : s.id = t.id /\ s.esi = t.esi => s = t
  /\ \A s, t \in Symbols : s.origin = t.origin => s.id = t.id

\* A slot in use stores symbols of its id only.
IdsApart ==
  \A i \in SlotIds : slots[i].inUse =>
    \A t \in slots[i].stored : t.id = slots[i].id

\* A block opened for a symbol has symbols of its id.
LEMMA OpenedApart ==
  ASSUME TypeOK, IdsApart, NEW s \in Symbols, NEW ok \in BOOLEAN
  PROVE  \A t \in Opened(s, ok).stored : t.id = s.id
<1> DEFINE g == GetBlock(s.id)
<1>1. s.id \in Nat /\ Slot(s.id) \in SlotIds
  BY SymbolsAssumption, SlotInRange DEF Symbol
<1>2. g \in Block
  BY <1>1, GetBlockType
<1>3. \A t \in g.stored : t.id = s.id
  BY <1>1 DEF GetBlock, FreeBlock, IdsApart
<1> HIDE DEF g
<1>4. InitDecoder(g, s.k, ok).stored \in {g.stored, {}}
  BY <1>2 DEF InitDecoder, Block
<1> QED  BY <1>3, <1>4 DEF Opened, g

\* So does it after every symbol.
LEMMA HandledApart ==
  ASSUME TypeOK, StoredInv, IdsApart, NEW s \in Symbols, HandleRqSymbol(s)
  PROVE  IdsApart'
<1>1. ASSUME NEW j, NEW b, \A t \in b.stored : t.id = b.id,
             slots' = slots \/ slots' = [slots EXCEPT ![j] = b]
      PROVE  IdsApart'
  BY <1>1 DEF IdsApart, TypeOK
<1>2. \A t \in FreeBlock.stored : t.id = FreeBlock.id
  BY DEF FreeBlock
<1>3. CASE DropMalformed(s)
  BY <1>1, <1>2, <1>3 DEF DropMalformed
<1>4. CASE StoreLate(s)
  <2>1. PICK ok \in InitOutcomes :
          slots' = [slots EXCEPT ![Slot(s.id)] =
                      StoreSymbol(Opened(s, ok), s)]
    BY <1>4 DEF StoreLate
  <2>2. ok \in BOOLEAN
    BY OutcomesAssumption
  <2> DEFINE o == Opened(s, ok)
  <2>3. o \in Block /\ o.id = s.id /\ \A t \in o.stored : t.id = s.id
    BY <2>2, OpenedType, OpenedApart
  <2> HIDE DEF o
  <2>4. /\ StoreSymbol(o, s).stored \subseteq o.stored \cup {s}
        /\ StoreSymbol(o, s).id = s.id
    BY <2>3 DEF StoreSymbol, Block
  <2> QED  BY <1>1, <2>1, <2>3, <2>4 DEF o
<1>5. CASE Process(s)
  <2>1. PICK ok \in InitOutcomes : \E b1, b2, b3 \in Block :
          /\ ProcessStages(s, Opened(s, ok), b1, b2, b3)
          /\ b1.id = s.id /\ b1.inUse
          /\ b2.id = s.id /\ b2.inUse
          /\ b3.id = s.id /\ b3.inUse
    BY <1>5, ProcessInStages
  <2>2. PICK b1 \in Block, b2 \in Block, b3 \in Block :
          ProcessStages(s, Opened(s, ok), b1, b2, b3) /\ b3.id = s.id
    BY <2>1
  <2>3. ok \in BOOLEAN
    BY OutcomesAssumption
  <2>4. \A t \in b3.stored : t.id = b3.id
    BY <2>2, <2>3, StagesStored, OpenedApart
  <2>5. \/ slots' = [slots EXCEPT ![Slot(b3.id)] = FreeBlock]
        \/ slots' = [slots EXCEPT ![Slot(b3.id)] = b3]
    BY <2>2, FinishedSlots DEF ProcessStages
  <2> QED  BY <1>1, <1>2, <2>4, <2>5
<1> QED  BY <1>3, <1>4, <1>5 DEF HandleRqSymbol

\* A symbol that has not arrived before is processed only if its block is not
\* completed, and what leaves then is of that block.
LEMMA NewLeavesOwn ==
  ASSUME TypeOK, StoredInv, IdsApart, EsisIdentifySymbols,
         NEW s \in Symbols, s \notin arrived, HandleRqSymbol(s),
         NEW p \in Packets, copies'[p] # copies[p]
  PROVE  /\ ~IsBlockCompleted(s.id)
         /\ \E t \in Symbols : t.id = s.id /\ t.origin = p[1]
<1>1. Process(s)
  BY DEF HandleRqSymbol, DropMalformed, StoreLate
<1>2. PICK ok \in InitOutcomes : \E b1, b2, b3 \in Block :
        /\ ProcessSends(s, Opened(s, ok), b1, b2, b3)
        /\ b1.id = s.id /\ b1.inUse
        /\ b2.id = s.id /\ b2.inUse
        /\ b3.id = s.id /\ b3.inUse
  BY <1>1, ProcessInSends
<1>3. PICK b1 \in Block, b2 \in Block, b3 \in Block :
        ProcessSends(s, Opened(s, ok), b1, b2, b3)
  BY <1>2
<1>4. ok \in BOOLEAN /\ ProcessStages(s, Opened(s, ok), b1, b2, b3)
  BY <1>3, OutcomesAssumption DEF ProcessSends
<1> DEFINE b0 == Opened(s, ok)
<1>5. /\ \A t \in b0.stored : t.id = s.id
      /\ b0.stored \subseteq arrived /\ b0 \in Block
  BY <1>4, OpenedApart, OpenedStored, OpenedType
<1>6. ~HasEsi(b0, s.esi)
  BY <1>5 DEF HasEsi, EsisIdentifySymbols, Block
<1>7. ~IsBlockCompleted(s.id)
  BY <1>4, <1>6 DEF ProcessStages, PassesDiscard
<1>8. \A t \in b2.stored : t \in Symbols /\ t.id = s.id
  <2>1. b2.stored \subseteq b0.stored \cup {s}
    BY <1>4, StagesStored
  <2> QED  BY <1>5, <2>1 DEF Block
<1>9. p \in Leaving(s, b1, b2, b3)
  BY <1>3 DEF ProcessSends, CountCopies
<1>10. CASE p = <<s.origin, s.esi>>
  BY <1>7, <1>10
<1>11. CASE p \in DecodedPackets(b2, b3.fwd \ b2.fwd)
  <2>1. PICK t \in b2.stored : t.origin = p[1]
    BY <1>11 DEF DecodedPackets, DecodesTo
  <2> QED  BY <1>7, <1>8, <2>1
<1> QED  BY <1>9, <1>10, <1>11 DEF Leaving

\* When the network repeats nothing and ESIs identify symbols, no symbol of a
\* completed block makes anything leave, whatever arrives in which order and
\* whatever calls fail: the test for a stored ESI, which jumps over the
\* discard of handle_rq_symbol, is never met by a late symbol.
THEOREM LateAlwaysDiscarded ==
  ASSUME ~Duplication, EsisIdentifySymbols
  PROVE  Spec => LateSymbolsDiscarded
<1>1. Init => IdsApart
  BY DEF Init, IdsApart, FreeBlock
<1>2. TypeOK /\ StoredInv /\ IdsApart /\ [Next]_vars => IdsApart'
  <2>1. CASE UNCHANGED vars
    BY <2>1 DEF vars, IdsApart
  <2> QED  BY <2>1, HandledApart DEF Next
<1>3. TypeOK /\ StoredInv /\ IdsApart /\ [Next]_vars =>
        [\A p \in Packets : \A s \in Symbols :
           s.origin = p[1] /\ IsBlockCompleted(s.id)
             => copies'[p] = copies[p]]_vars
  <2> SUFFICES ASSUME TypeOK, StoredInv, IdsApart, Next,
                      NEW p \in Packets, NEW s \in Symbols,
                      s.origin = p[1], copies'[p] # copies[p]
               PROVE  ~IsBlockCompleted(s.id)
    OBVIOUS
  <2>1. PICK t \in Symbols : t \notin arrived /\ HandleRqSymbol(t)
    BY DEF Next, MayArrive
  <2>2. /\ ~IsBlockCompleted(t.id)
        /\ \E u \in Symbols : u.id = t.id /\ u.origin = p[1]
    BY <2>1, NewLeavesOwn
  <2> QED  BY <2>2 DEF EsisIdentifySymbols
<1> QED  BY <1>1, <1>2, <1>3, ReceiverTypes, StoredAlways, PTL
         DEF Spec, LateSymbolsDiscarded
=============================================================================
