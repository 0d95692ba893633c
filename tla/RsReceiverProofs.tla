-------------------------- MODULE RsReceiverProofs --------------------------
(***************************************************************************)
(* Theorems about the Reed-Solomon edge receiver, for every K, number of   *)
(* parities, table size and network.                                       *)
(***************************************************************************)
EXTENDS RsReceiver, FiniteSetTheorems, TLAPS

LEMMA SlotInRange == \A id \in Nat : Slot(id) \in SlotIds
  BY RsSizesAssumption DEF RsSizesAssumption, Slot, SlotIds

-----------------------------------------------------------------------------
(* What the helpers do to one generation. *)

LEMMA FragmentTypes ==
  ASSUME NEW f \in Fragments
  PROVE  /\ f.origin \in Origins /\ f.origin \in Nat
         /\ f.id \in Nat /\ f.len \in Nat \ {0} /\ f.index \in Nat
         /\ Slot(f.id) \in SlotIds
<1>1. f \in Fragment /\ Origins \subseteq Nat
  BY FragmentsAssumption DEF FragmentsAssumption
<1>2. f.origin \in Origins /\ f.id \in Nat /\ f.len \in Nat \ {0}
        /\ f.index \in Nat
  BY <1>1 DEF Fragment
<1> QED BY <1>1, <1>2, SlotInRange

LEMMA FreeGenType == FreeGen \in Gen
BY DEF FreeGen, Gen

LEMMA OriginNotAbsent ==
  ASSUME NEW o \in Origins
  PROVE  o # Absent /\ o # Garbage
BY FragmentsAssumption DEF FragmentsAssumption, Absent, Garbage

\* The generation a fragment finds is well typed, in use, of the fragment's id
\* and length, and either the one in the slot or empty.
LEMMA OpenedFacts ==
  ASSUME RsTypeOK, NEW f \in Fragments
  PROVE  /\ Opened(f) \in Gen
         /\ Opened(f).inUse /\ Opened(f).id = f.id /\ Opened(f).len = f.len
         /\ \/ Opened(f) = gens[Slot(f.id)]
            \/ /\ Opened(f).data = FreeGen.data
               /\ Opened(f).parity = FreeGen.parity
               /\ Opened(f).fwd = {}
               /\ ~Opened(f).attempted /\ ~Opened(f).reported
<1>1. gens[Slot(f.id)] \in Gen
  BY FragmentTypes DEF RsTypeOK
<1>2. CASE IsKnown(f) /\ ~IsReset(f)
  BY <1>1, <1>2 DEF Opened, IsKnown, IsReset
<1>3. CASE ~(IsKnown(f) /\ ~IsReset(f))
  <2>1. Opened(f) = [[FreeGen EXCEPT !.inUse = TRUE, !.id = f.id]
                       EXCEPT !.len = f.len]
    BY <1>3 DEF Opened, NewGen
  <2> QED BY <2>1, FreeGenType, FragmentTypes DEF FreeGen, Gen
<1> QED BY <1>2, <1>3

LEMMA StoreFacts ==
  ASSUME NEW g \in Gen, NEW f \in Fragments, IsData(f) \/ IsParity(f)
  PROVE  LET h == StoreFragment(g, f) IN
         /\ h \in Gen
         /\ h.inUse = g.inUse /\ h.id = g.id /\ h.len = g.len
         /\ h.fwd = g.fwd /\ h.reported = g.reported
         /\ h.attempted = g.attempted /\ h.succeeded = g.succeeded
         /\ \A i \in Indices : h.data[i] = g.data[i]
                               \/ (g.data[i] = Absent /\ h.data[i] = f.origin)
         /\ \A p \in ParityIndices :
              h.parity[p] = g.parity[p] \/ h.parity[p] = f.origin
<1>1. CASE IsData(f)
  BY <1>1, FragmentTypes DEF StoreFragment, IsData, Gen
<1>2. CASE IsParity(f) /\ ~IsData(f)
  BY <1>2, FragmentTypes DEF StoreFragment, IsParity, Gen
<1> QED BY <1>1, <1>2

LEMMA ForwardFacts ==
  ASSUME NEW g \in Gen
  PROVE  LET h == Forwarded(g) IN
         /\ h \in Gen
         /\ h.inUse = g.inUse /\ h.id = g.id /\ h.len = g.len
         /\ h.data = g.data /\ h.parity = g.parity
         /\ h.fwd = g.fwd \cup Present(g)
         /\ h.reported = g.reported
         /\ h.attempted = g.attempted /\ h.succeeded = g.succeeded
BY DEF Forwarded, Gen, Present

LEMMA RecoveredFacts ==
  ASSUME NEW g
  PROVE  \/ Recovered(g) = Garbage
         \/ Recovered(g) \in Origins /\ DecodesTo(g, Recovered(g))
BY DEF Recovered

\* Decoding leaves nothing missing and fills gaps only.
LEMMA DecodeFacts ==
  ASSUME NEW g \in Gen
  PROVE  LET h == Decoded(g) IN
         /\ h \in Gen
         /\ h.inUse = g.inUse /\ h.id = g.id /\ h.len = g.len
         /\ h.parity = g.parity /\ h.reported = g.reported
         /\ ~CanDecode(g) => h = g
         /\ CanDecode(g) => /\ h.fwd = Indices
                            /\ Present(h) = Indices
                            /\ h.attempted /\ h.succeeded
         /\ \A i \in Indices : h.data[i] = g.data[i] \/ h.data[i] = Recovered(g)
<1>1. CASE ~CanDecode(g)
  BY <1>1 DEF Decoded
<1>2. CASE CanDecode(g)
  <2>1. Recovered(g) \in Origins \cup {Garbage}
    BY RecoveredFacts
  <2>2. Recovered(g) # Absent
    BY <2>1, OriginNotAbsent DEF Absent, Garbage
  <2>3. Decoded(g) = [g EXCEPT !.data = [i \in Indices |->
                         IF g.data[i] = Absent THEN Recovered(g) ELSE g.data[i]],
                       !.fwd = Indices, !.attempted = TRUE, !.succeeded = TRUE]
    BY <1>2 DEF Decoded, Gen
  <2> DEFINE d == [i \in Indices |->
                     IF g.data[i] = Absent THEN Recovered(g) ELSE g.data[i]]
  <2>4. /\ d \in [Indices -> Origins \cup {Absent, Garbage}]
        /\ \A i \in Indices : d[i] # Absent
        /\ \A i \in Indices : d[i] = g.data[i] \/ d[i] = Recovered(g)
    BY <2>1, <2>2 DEF Gen
  <2> HIDE DEF d
  <2>5. /\ Decoded(g) \in Gen
        /\ Decoded(g).inUse = g.inUse /\ Decoded(g).id = g.id
        /\ Decoded(g).len = g.len /\ Decoded(g).parity = g.parity
        /\ Decoded(g).reported = g.reported /\ Decoded(g).fwd = Indices
        /\ Decoded(g).attempted /\ Decoded(g).succeeded
        /\ Decoded(g).data = d
    <3>1. Decoded(g) = [g EXCEPT !.data = d, !.fwd = Indices,
                                 !.attempted = TRUE, !.succeeded = TRUE]
      BY <2>3 DEF d
    <3> QED BY <3>1, <2>4 DEF Gen
  <2>6. Present(Decoded(g)) = Indices
    BY <2>4, <2>5 DEF Present
  <2> QED BY <1>2, <2>4, <2>5, <2>6
<1> QED BY <1>1, <1>2

-----------------------------------------------------------------------------
(* Types *)

\* The generation AcceptFragment leaves in the slot of f, but for reported.
Handled(f) == Decoded(Forwarded(StoreFragment(Opened(f), f)))
Kept(f) ==
  [Handled(f) EXCEPT !.reported = @ \/ Handled(f).fwd = Indices]

LEMMA HandledType ==
  ASSUME RsTypeOK, NEW f \in Fragments, IsData(f) \/ IsParity(f)
  PROVE  /\ StoreFragment(Opened(f), f) \in Gen
         /\ Forwarded(StoreFragment(Opened(f), f)) \in Gen
         /\ Handled(f) \in Gen
         /\ Handled(f).inUse /\ Handled(f).id = f.id /\ Handled(f).len = f.len
<1>1. /\ Opened(f) \in Gen
      /\ Opened(f).inUse /\ Opened(f).id = f.id /\ Opened(f).len = f.len
  BY OpenedFacts
<1> DEFINE g1 == StoreFragment(Opened(f), f)
<1>2. g1 \in Gen /\ g1.inUse /\ g1.id = f.id /\ g1.len = f.len
  BY <1>1, StoreFacts
<1> DEFINE g2 == Forwarded(g1)
<1> HIDE DEF g1
<1>3. g2 \in Gen /\ g2.inUse /\ g2.id = f.id /\ g2.len = f.len
  BY <1>2, ForwardFacts
<1> HIDE DEF g2
<1>4. Decoded(g2) \in Gen /\ Decoded(g2).inUse /\ Decoded(g2).id = f.id
        /\ Decoded(g2).len = f.len
  BY <1>3, DecodeFacts
<1> QED BY <1>2, <1>3, <1>4 DEF g1, g2, Handled

LEMMA KeptFacts ==
  ASSUME RsTypeOK, NEW f \in Fragments, IsData(f) \/ IsParity(f)
  PROVE  /\ Kept(f) \in Gen
         /\ Kept(f).inUse = Handled(f).inUse
         /\ Kept(f).id = Handled(f).id /\ Kept(f).len = Handled(f).len
         /\ Kept(f).data = Handled(f).data
         /\ Kept(f).parity = Handled(f).parity
         /\ Kept(f).fwd = Handled(f).fwd
         /\ Kept(f).attempted = Handled(f).attempted
         /\ Kept(f).succeeded = Handled(f).succeeded
         /\ Kept(f).reported = (Handled(f).reported \/ Handled(f).fwd = Indices)
<1>1. Handled(f) \in Gen
  BY HandledType
<1> QED BY <1>1 DEF Kept, Gen

\* What a step does to the slots: one slot changes, or none.
LEMMA SlotStep ==
  ASSUME NEW f \in Fragments, HandleFragment(f)
  PROVE  \/ gens' = gens
         \/ gens' = [gens EXCEPT ![Slot(f.id)] = Opened(f)]
         \/ /\ IsData(f) \/ IsParity(f)
            /\ gens' = [gens EXCEPT ![Slot(f.id)] = Kept(f)]
<1>1. CASE DropMalformed(f)
  BY <1>1 DEF DropMalformed
<1>2. CASE RejectIndex(f)
  BY <1>2 DEF RejectIndex
<1>3. CASE AcceptFragment(f)
  BY <1>3 DEF AcceptFragment, Kept, Handled
<1> QED BY <1>1, <1>2, <1>3 DEF HandleFragment

LEMMA CountersTyped ==
  ASSUME RsTypeOK, NEW f \in Fragments
  PROVE  /\ [stats EXCEPT !.received = @ + 1] \in Stats
         /\ CountOpened(f) \in Stats
<1>1. stats \in Stats
  BY DEF RsTypeOK
<1>2. [stats EXCEPT !.received = @ + 1] \in Stats
  BY <1>1 DEF Stats
<1> DEFINE n == IF IsKnown(f) /\ ~IsReset(f) THEN stats.gens
                                             ELSE stats.gens + 1
           r == stats.received + 1
<1>3. n \in Nat /\ r \in Nat
  BY <1>1 DEF Stats
<1>5. CountOpened(f) = [stats EXCEPT !.received = r, !.gens = n]
  BY <1>1 DEF CountOpened, Stats
<1> HIDE DEF n, r
<1>4. [stats EXCEPT !.received = r, !.gens = n] \in Stats
  BY <1>1, <1>3 DEF Stats
<1> QED BY <1>2, <1>4, <1>5

LEMMA CountStoredTyped ==
  ASSUME NEW c \in Stats, NEW g, NEW f \in Fragments
  PROVE  CountStored(c, g, f) \in Stats
<1> DEFINE d == IF IsData(f) /\ g.data[f.index] = Absent
                THEN c.data + 1 ELSE c.data
           p == IF IsParity(f) /\ g.parity[f.index - K] = Absent
                THEN c.parity + 1 ELSE c.parity
<1>1. d \in Nat /\ p \in Nat
  BY DEF Stats
<1>2. CountStored(c, g, f) = [c EXCEPT !.data = d, !.parity = p]
  BY DEF CountStored, Stats
<1> HIDE DEF d, p
<1> QED BY <1>1, <1>2 DEF Stats

LEMMA ConsumedTyped ==
  ASSUME NEW c \in Stats, NEW g
  PROVE  [c EXCEPT !.consumed = @ + Consumed(g)] \in Stats
BY RsSizesAssumption DEF RsSizesAssumption, Stats, Consumed

LEMMA CountReportTyped ==
  ASSUME NEW c \in Stats, NEW g
  PROVE  CountReport(c, g) \in Stats
BY DEF Stats, CountReport

LEMMA AcceptStatsTyped ==
  ASSUME RsTypeOK, NEW f \in Fragments, AcceptFragment(f)
  PROVE  stats' \in Stats
<1> DEFINE g0 == Opened(f)
           g2 == Forwarded(StoreFragment(g0, f))
           c1 == CountStored(CountOpened(f), g0, f)
           c2 == IF CanDecode(g2)
                 THEN [c1 EXCEPT !.consumed = @ + Consumed(g2)] ELSE c1
<1>1. stats' = CountReport(c2, Decoded(g2))
  BY DEF AcceptFragment
<1>2. c1 \in Stats
  BY CountersTyped, CountStoredTyped
<1> HIDE DEF c1, g2
<1>3. c2 \in Stats
  BY <1>2, ConsumedTyped
<1> HIDE DEF c2
<1> QED BY <1>1, <1>3, CountReportTyped

LEMMA CountOutTyped ==
  ASSUME RsTypeOK, NEW out, CountOut(out)
  PROVE  copies' \in [Packets -> 0 .. 2] /\ garbled' \in BOOLEAN
<1>1. copies' \in [Packets -> 0 .. 2]
  BY DEF RsTypeOK, CountOut
<1>2. garbled' \in BOOLEAN
  BY DEF RsTypeOK, CountOut
<1> QED BY <1>1, <1>2

LEMMA TypeInit == RsInit => RsTypeOK
<1> SUFFICES ASSUME RsInit PROVE RsTypeOK
  OBVIOUS
<1>1. gens \in [SlotIds -> Gen] /\ \A s \in SlotIds : ~gens[s].inUse
  <2>1. ~FreeGen.inUse
    BY DEF FreeGen
  <2> QED BY <2>1, FreeGenType DEF RsInit
<1>2. stats \in Stats
  BY DEF RsInit, Stats
<1>3. copies \in [Packets -> 0 .. 2]
  BY DEF RsInit
<1>4. garbled \in BOOLEAN /\ arrived \subseteq Fragments
  BY DEF RsInit
<1> QED BY <1>1, <1>2, <1>3, <1>4 DEF RsTypeOK

LEMMA TypeStep == RsTypeOK /\ [RsNext]_rsVars => RsTypeOK'
<1> SUFFICES ASSUME RsTypeOK, [RsNext]_rsVars PROVE RsTypeOK'
  OBVIOUS
<1>1. CASE UNCHANGED rsVars
  BY <1>1 DEF rsVars, RsTypeOK
<1>2. CASE RsNext
  <2>1. PICK f \in Fragments : HandleFragment(f)
    BY <1>2 DEF RsNext
  <2>2. Opened(f) \in Gen /\ Opened(f).len > 0
    BY OpenedFacts, FragmentTypes
  <2>3. IsData(f) \/ IsParity(f) => Kept(f) \in Gen /\ Kept(f).len > 0
    BY KeptFacts, HandledType, FragmentTypes
  <2>4. /\ gens' \in [SlotIds -> Gen]
        /\ \A s \in SlotIds : gens'[s].inUse => gens'[s].len > 0
    BY <2>1, <2>2, <2>3, SlotStep, FragmentTypes DEF RsTypeOK
  <2>5. /\ stats' \in Stats
        /\ copies' \in [Packets -> 0 .. 2] /\ garbled' \in BOOLEAN
        /\ arrived' \subseteq Fragments
    <3>1. CASE DropMalformed(f)
      BY <3>1, CountersTyped DEF DropMalformed, Received, RsTypeOK
    <3>2. CASE RejectIndex(f)
      BY <3>2, CountersTyped DEF RejectIndex, Received, RsTypeOK
    <3>3. CASE AcceptFragment(f)
      <4>1. stats' \in Stats
        BY <3>3, AcceptStatsTyped
      <4>2. PICK out : CountOut(out)
        BY <3>3 DEF AcceptFragment
      <4>3. arrived' \subseteq Fragments
        BY <3>3 DEF AcceptFragment, Received, RsTypeOK
      <4> QED BY <4>1, <4>2, <4>3, CountOutTyped
    <3> QED BY <2>1, <3>1, <3>2, <3>3 DEF HandleFragment
  <2> QED BY <2>4, <2>5 DEF RsTypeOK
<1> QED BY <1>1, <1>2

\* Every reachable state of the receiver is well typed, and a generation in
\* use knows its length: handle_fragment, whatever arrives.
THEOREM RsTypes == RsSpec => []RsTypeOK
<1>1. RsTypeOK /\ [RsNext]_rsVars => RsTypeOK'
  BY TypeStep
<1> QED BY <1>1, TypeInit, PTL DEF RsSpec

-----------------------------------------------------------------------------
(* Nothing is left pending and no failure is ever reported. *)

\* NothingPending for one generation.
Settled(g) ==
  g.inUse =>
    /\ g.fwd = Present(g)
    /\ Repairs > 0 /\ AllParity(g) => Missing(g) = {}
    /\ g.reported <=> Missing(g) = {}

DecodesSucceeded ==
  \A s \in SlotIds : gens[s].attempted => gens[s].succeeded

SettledInv ==
  /\ RsTypeOK
  /\ NothingPending
  /\ DecodesSucceeded
  /\ NoFailureReported

LEMMA PendingIsSettled ==
  NothingPending <=> \A s \in SlotIds : Settled(gens[s])
BY DEF NothingPending, Settled

\* A generation just opened has nothing to forward and nothing to decode from.
LEMMA OpenedSettled ==
  ASSUME RsTypeOK, NothingPending, DecodesSucceeded, NEW f \in Fragments
  PROVE  /\ Settled(Opened(f))
         /\ Opened(f).attempted => Opened(f).succeeded
<1>1. Slot(f.id) \in SlotIds
  BY FragmentTypes
<1>2. CASE Opened(f) = gens[Slot(f.id)]
  BY <1>1, <1>2, PendingIsSettled DEF DecodesSucceeded
<1>3. CASE /\ Opened(f).data = FreeGen.data
           /\ Opened(f).parity = FreeGen.parity
           /\ Opened(f).fwd = {}
           /\ ~Opened(f).attempted /\ ~Opened(f).reported
  <2>1. Present(Opened(f)) = {}
    BY <1>3 DEF Present, FreeGen
  <2>2. Missing(Opened(f)) # {}
    <3>1. 0 \in Indices
      BY RsSizesAssumption DEF RsSizesAssumption, Indices
    <3> QED BY <2>1, <3>1 DEF Missing
  <2>3. ~(Repairs > 0 /\ AllParity(Opened(f)))
    <3>1. Repairs > 0 => 0 \in ParityIndices
      BY RsSizesAssumption DEF RsSizesAssumption, ParityIndices
    <3> QED BY <1>3, <3>1 DEF AllParity, FreeGen
  <2> QED BY <1>3, <2>1, <2>2, <2>3 DEF Settled
<1> QED BY <1>2, <1>3, OpenedFacts

\* Storing a fragment may unsettle the generation; forwarding, decoding and
\* reporting settle it again.
LEMMA KeptSettled ==
  ASSUME RsTypeOK, NothingPending, DecodesSucceeded,
         NEW f \in Fragments, IsData(f) \/ IsParity(f)
  PROVE  /\ Settled(Kept(f))
         /\ Kept(f).attempted => Kept(f).succeeded
         /\ Reports(Handled(f)) =>
              /\ Missing(Handled(f)) = {}
              /\ Handled(f).attempted => Handled(f).succeeded
<1> DEFINE g0 == Opened(f)
           g1 == StoreFragment(g0, f)
           g2 == Forwarded(g1)
           g3 == Handled(f)
<1>1. /\ g0 \in Gen /\ g0.inUse /\ Settled(g0)
      /\ g0.attempted => g0.succeeded
  BY OpenedFacts, OpenedSettled
<1>2. /\ g1 \in Gen /\ g2 \in Gen /\ g3 \in Gen /\ g3.inUse
      /\ g3 = Decoded(g2)
  BY HandledType DEF Handled
<1>3. /\ g1.fwd = g0.fwd /\ g1.reported = g0.reported
      /\ g1.attempted = g0.attempted /\ g1.succeeded = g0.succeeded
      /\ Present(g0) \subseteq Present(g1)
  <2>1. \A i \in Indices : g0.data[i] # Absent => g1.data[i] # Absent
    BY <1>1, StoreFacts
  <2> QED BY <1>1, <2>1, StoreFacts DEF Present
<1> HIDE DEF g1
<1>4. /\ g2.fwd = Present(g2) /\ Present(g2) = Present(g1)
      /\ g2.reported = g0.reported
      /\ g2.attempted = g0.attempted /\ g2.succeeded = g0.succeeded
  BY <1>1, <1>2, <1>3, ForwardFacts DEF Settled, Present
<1>5. g0.reported => Missing(g2) = {}
  BY <1>1, <1>3, <1>4 DEF Settled, Missing
<1> HIDE DEF g0, g2, g3
<1>6. /\ g3.fwd = Present(g3)
      /\ Repairs > 0 /\ AllParity(g3) => Missing(g3) = {}
      /\ g3.reported => Missing(g3) = {}
      /\ g3.attempted => g3.succeeded
  <2>1. CASE CanDecode(g2)
    BY <1>2, <2>1, DecodeFacts DEF Missing
  <2>2. CASE ~CanDecode(g2)
    <3>1. g3 = g2
      BY <1>2, <2>2, DecodeFacts
    <3>2. Missing(g2) # {} => g2.fwd # Indices
      BY <1>4 DEF Missing
    <3> QED BY <1>1, <1>4, <1>5, <2>2, <3>1, <3>2 DEF CanDecode
  <2> QED BY <2>1, <2>2
<1>7. g3.fwd = Indices <=> Missing(g3) = {}
  BY <1>6 DEF Missing, Present
<1>8. /\ Kept(f).data = g3.data /\ Kept(f).parity = g3.parity
      /\ Kept(f).fwd = g3.fwd
      /\ Kept(f).attempted = g3.attempted /\ Kept(f).succeeded = g3.succeeded
      /\ Kept(f).reported = (g3.reported \/ g3.fwd = Indices)
  BY KeptFacts DEF g3
<1>9. Settled(Kept(f))
  <2>1. /\ Present(Kept(f)) = Present(g3)
        /\ Missing(Kept(f)) = Missing(g3)
        /\ AllParity(Kept(f)) = AllParity(g3)
    BY <1>8 DEF Present, Missing, AllParity
  <2> QED BY <1>6, <1>7, <1>8, <2>1 DEF Settled
<1> QED BY <1>6, <1>7, <1>8, <1>9 DEF Reports, g3

LEMMA FailuresStep ==
  ASSUME SettledInv, NEW f \in Fragments, HandleFragment(f)
  PROVE  NoFailureReported'
<1>1. stats \in Stats /\ stats.decodeFailed = 0
  BY DEF SettledInv, RsTypeOK, NoFailureReported
<1>2. CountOpened(f) \in Stats /\ CountOpened(f).decodeFailed = 0
  BY <1>1, CountersTyped DEF CountOpened, Stats, SettledInv
<1>3. CASE DropMalformed(f)
  BY <1>1, <1>3 DEF DropMalformed, NoFailureReported, Stats
<1>4. CASE RejectIndex(f)
  BY <1>2, <1>4 DEF RejectIndex, NoFailureReported
<1>5. CASE AcceptFragment(f)
  <2> DEFINE g0 == Opened(f)
             g2 == Forwarded(StoreFragment(g0, f))
             c1 == CountStored(CountOpened(f), g0, f)
             c2 == IF CanDecode(g2)
                   THEN [c1 EXCEPT !.consumed = @ + Consumed(g2)] ELSE c1
  <2>1. stats' = CountReport(c2, Handled(f)) /\ (IsData(f) \/ IsParity(f))
    BY <1>5 DEF AcceptFragment, Handled
  <2>2. c1 \in Stats /\ c1.decodeFailed = 0
    <3>1. c1 \in Stats
      BY <1>2, CountStoredTyped
    <3> QED BY <1>2, <3>1 DEF CountStored, Stats
  <2> HIDE DEF c1, g0, g2
  <2>3. c2 \in Stats /\ c2.decodeFailed = 0
    <3>1. c2 \in Stats
      BY <2>2, ConsumedTyped
    <3> QED BY <2>2, <3>1 DEF Stats
  <2> HIDE DEF c2
  <2>4. Reports(Handled(f)) =>
          /\ Missing(Handled(f)) = {}
          /\ Handled(f).attempted => Handled(f).succeeded
    BY <2>1, KeptSettled DEF SettledInv
  <2> QED BY <2>1, <2>3, <2>4 DEF CountReport, NoFailureReported, Stats
<1> QED BY <1>3, <1>4, <1>5 DEF HandleFragment

LEMMA SettledInit == RsInit => SettledInv
<1> SUFFICES ASSUME RsInit PROVE SettledInv
  OBVIOUS
<1>1. \A s \in SlotIds : ~gens[s].inUse /\ ~gens[s].attempted
  BY DEF RsInit, FreeGen
<1>2. stats.decodeFailed = 0
  BY DEF RsInit
<1> QED BY <1>1, <1>2, TypeInit, PendingIsSettled
        DEF SettledInv, Settled, DecodesSucceeded, NoFailureReported

LEMMA SettledStep == SettledInv /\ [RsNext]_rsVars => SettledInv'
<1> SUFFICES ASSUME SettledInv, [RsNext]_rsVars PROVE SettledInv'
  OBVIOUS
<1>1. RsTypeOK'
  BY TypeStep DEF SettledInv
<1>2. CASE UNCHANGED rsVars
  BY <1>1, <1>2 DEF rsVars, SettledInv, NothingPending, DecodesSucceeded,
                    NoFailureReported
<1>3. CASE RsNext
  <2>1. PICK f \in Fragments : HandleFragment(f)
    BY <1>3 DEF RsNext
  <2> DEFINE Fine(g) == Settled(g) /\ (g.attempted => g.succeeded)
  <2>2. \A s \in SlotIds : Fine(gens[s])
    BY PendingIsSettled DEF SettledInv, DecodesSucceeded
  <2>3. Fine(Opened(f))
    BY OpenedSettled DEF SettledInv
  <2>4. IsData(f) \/ IsParity(f) => Fine(Kept(f))
    BY KeptSettled DEF SettledInv
  <2> HIDE DEF Fine
  <2>5. gens \in [SlotIds -> Gen]
    BY DEF SettledInv, RsTypeOK
  <2>6. \A s \in SlotIds : Fine(gens'[s])
    BY <2>1, <2>2, <2>3, <2>4, <2>5, SlotStep
  <2>7. NothingPending' /\ DecodesSucceeded'
    BY <2>6 DEF Fine, NothingPending, Settled, DecodesSucceeded
  <2>8. NoFailureReported'
    BY <2>1, FailuresStep
  <2> QED BY <1>1, <2>7, <2>8 DEF SettledInv
<1> QED BY <1>2, <1>3

\* After every call of handle_fragment each generation has been forwarded,
\* decoded and reported as far as its fragments allow: process_generation
\* leaves nothing for a later fragment, which may never come, to trigger.
THEOREM NothingEverPending == RsSpec => []NothingPending
<1>1. SettledInv /\ [RsNext]_rsVars => SettledInv'
  BY SettledStep
<1>2. SettledInv => NothingPending
  BY DEF SettledInv
<1> QED BY <1>1, <1>2, SettledInit, PTL DEF RsSpec

\* The counter of failed decodings stays zero for every K, number of parities
\* and network, also when more packets are missing than there are parities.
THEOREM FailuresNeverReported == RsSpec => []NoFailureReported
<1>1. SettledInv /\ [RsNext]_rsVars => SettledInv'
  BY SettledStep
<1>2. SettledInv => NoFailureReported
  BY DEF SettledInv
<1> QED BY <1>1, <1>2, SettledInit, PTL DEF RsSpec

-----------------------------------------------------------------------------
(* The fragments in a slot are of one generation. *)

\* Origin o sent a fragment with the id and length of g.
HasSource(g, o) ==
  \E f \in Fragments : f.id = g.id /\ f.len = g.len /\ f.origin = o

\* Everything in g comes from a fragment with its id and length.
Sourced(g) ==
  /\ \A i \in Indices : g.data[i] \in {Absent, Garbage}
                        \/ HasSource(g, g.data[i])
  /\ \A p \in ParityIndices : g.parity[p] \in {Absent, Garbage}
                              \/ HasSource(g, g.parity[p])

SourcedInv == RsTypeOK /\ \A s \in SlotIds : Sourced(gens[s])

LEMMA OpenedSourced ==
  ASSUME SourcedInv, NEW f \in Fragments
  PROVE  Sourced(Opened(f))
<1>1. Sourced(gens[Slot(f.id)])
  BY FragmentTypes DEF SourcedInv
<1> QED BY <1>1, OpenedFacts DEF SourcedInv, Sourced, FreeGen

LEMMA KeptSourced ==
  ASSUME SourcedInv, NEW f \in Fragments, IsData(f) \/ IsParity(f)
  PROVE  Sourced(Kept(f))
<1> DEFINE g0 == Opened(f)
           g1 == StoreFragment(g0, f)
           g2 == Forwarded(g1)
           g3 == Decoded(g2)
           Known(o) == o \in {Absent, Garbage} \/
                       \E h \in Fragments : h.id = f.id /\ h.len = f.len
                                            /\ h.origin = o
<1>1. g0 \in Gen /\ g0.id = f.id /\ g0.len = f.len /\ Sourced(g0)
  BY OpenedFacts, OpenedSourced DEF SourcedInv
<1>2. /\ g1 \in Gen /\ g2 \in Gen
      /\ \A i \in Indices : Known(g1.data[i])
      /\ \A p \in ParityIndices : Known(g1.parity[p])
  <2>1. \A i \in Indices : Known(g0.data[i])
    BY <1>1 DEF Sourced, HasSource
  <2>2. \A p \in ParityIndices : Known(g0.parity[p])
    BY <1>1 DEF Sourced, HasSource
  <2>3. Known(f.origin)
    OBVIOUS
  <2>4. g1 \in Gen /\ g2 \in Gen
    BY HandledType DEF SourcedInv
  <2> HIDE DEF Known, g0
  <2> QED BY <1>1, <2>1, <2>2, <2>3, <2>4, StoreFacts
<1> HIDE DEF Known, g0, g1
<1>3. /\ g2.data = g1.data /\ g2.parity = g1.parity
  BY <1>2, ForwardFacts
<1> HIDE DEF g2
\* What is decoded has the origin of the parities it was decoded from.
<1>4. CanDecode(g2) => Known(Recovered(g2))
  <2> SUFFICES ASSUME CanDecode(g2) PROVE Known(Recovered(g2))
    OBVIOUS
  <2>1. 0 \in ParityIndices
    BY RsSizesAssumption DEF RsSizesAssumption, CanDecode, ParityIndices
  <2>2. CASE Recovered(g2) = Garbage
    BY <2>2 DEF Known
  <2>3. CASE DecodesTo(g2, Recovered(g2))
    <3>1. g2.parity[0] = Recovered(g2)
      BY <2>1, <2>3 DEF DecodesTo
    <3> QED BY <1>2, <1>3, <2>1, <3>1
  <2> QED BY <2>2, <2>3, RecoveredFacts
<1>5. /\ \A i \in Indices : Known(g3.data[i])
      /\ \A p \in ParityIndices : Known(g3.parity[p])
  <2>1. CASE CanDecode(g2)
    BY <1>2, <1>3, <1>4, <2>1, DecodeFacts
  <2>2. CASE ~CanDecode(g2)
    BY <1>2, <1>3, <2>2, DecodeFacts
  <2> QED BY <2>1, <2>2
<1>6. g3 = Handled(f)
  BY DEF Handled, g0, g1, g2
<1> HIDE DEF g3
<1>7. /\ Kept(f).id = f.id /\ Kept(f).len = f.len
      /\ Kept(f).data = g3.data /\ Kept(f).parity = g3.parity
  BY <1>6, KeptFacts, HandledType DEF SourcedInv
<1> QED BY <1>5, <1>7 DEF Sourced, HasSource, Known

LEMMA SourcedInit == RsInit => SourcedInv
<1> SUFFICES ASSUME RsInit PROVE SourcedInv
  OBVIOUS
<1>1. \A s \in SlotIds : gens[s] = FreeGen
  BY DEF RsInit
<1>2. Sourced(FreeGen)
  BY DEF Sourced, FreeGen
<1> QED BY <1>1, <1>2, TypeInit DEF SourcedInv

LEMMA SourcedStep == SourcedInv /\ [RsNext]_rsVars => SourcedInv'
<1> SUFFICES ASSUME SourcedInv, [RsNext]_rsVars PROVE SourcedInv'
  OBVIOUS
<1>1. RsTypeOK'
  BY TypeStep DEF SourcedInv
<1>2. CASE UNCHANGED rsVars
  BY <1>1, <1>2 DEF rsVars, SourcedInv
<1>3. CASE RsNext
  <2>1. PICK f \in Fragments : HandleFragment(f)
    BY <1>3 DEF RsNext
  <2>2. gens \in [SlotIds -> Gen] /\ \A s \in SlotIds : Sourced(gens[s])
    BY DEF SourcedInv, RsTypeOK
  <2>3. Sourced(Opened(f))
    BY OpenedSourced
  <2>4. IsData(f) \/ IsParity(f) => Sourced(Kept(f))
    BY KeptSourced
  <2>5. \A s \in SlotIds : Sourced(gens'[s])
    BY <2>1, <2>2, <2>3, <2>4, SlotStep
  <2> QED BY <1>1, <2>5 DEF SourcedInv
<1> QED BY <1>2, <1>3

LEMMA SourcedImpliesUnmixed == SourcedInv => NothingMixed
<1> SUFFICES ASSUME SourcedInv, IdsIdentifyGenerations,
                    NEW s \in SlotIds,
                    NEW a \in SlotOrigins(gens[s]),
                    NEW b \in SlotOrigins(gens[s])
             PROVE  a = b
  BY DEF NothingMixed
<1>1. Sourced(gens[s])
  BY DEF SourcedInv
<1>2. HasSource(gens[s], a) /\ HasSource(gens[s], b)
  BY <1>1 DEF Sourced, SlotOrigins
<1> QED BY <1>2 DEF HasSource, IdsIdentifyGenerations

\* However slots and ids are reused, as long as id and length identify a
\* generation among the fragments the network delivers, get_gen_state and the
\* reset on a change of length keep the fragments of two generations apart.
THEOREM NeverMixed == RsSpec => []NothingMixed
<1>1. SourcedInv /\ [RsNext]_rsVars => SourcedInv'
  BY SourcedStep
<1> QED BY <1>1, SourcedInit, SourcedImpliesUnmixed, PTL DEF RsSpec

-----------------------------------------------------------------------------
(* What has been counted of the generations and parities in the table *)

\* The table with generation g in slot i.
With(i, g) == [s \in SlotIds |-> IF s = i THEN g ELSE gens[s]]

LEMMA WithExcept ==
  ASSUME RsTypeOK, NEW i, NEW g
  PROVE  [gens EXCEPT ![i] = g] = With(i, g)
BY DEF RsTypeOK, With

LEMMA WithSame ==
  ASSUME RsTypeOK, NEW i
  PROVE  With(i, gens[i]) = gens
BY DEF RsTypeOK, With

\* How the counters grow while fragment f is accepted.
LEMMA AcceptCounts ==
  ASSUME RsTypeOK, NEW f \in Fragments, AcceptFragment(f)
  PROVE  /\ IsData(f) \/ IsParity(f)
         /\ gens' = With(Slot(f.id), Kept(f))
         /\ stats'.gens = CountOpened(f).gens
         /\ IF Reports(Handled(f))
            THEN stats'.noLoss + stats'.repaired
                   <= stats.noLoss + stats.repaired + 1
            ELSE stats'.noLoss + stats'.repaired = stats.noLoss + stats.repaired
         /\ stats'.parity = stats.parity +
              IF IsParity(f) /\ Opened(f).parity[f.index - K] = Absent
              THEN 1 ELSE 0
         /\ LET g == Forwarded(StoreFragment(Opened(f), f))
            IN  stats'.consumed =
                  stats.consumed + IF CanDecode(g) THEN Consumed(g) ELSE 0
<1> DEFINE g0 == Opened(f)
           g2 == Forwarded(StoreFragment(g0, f))
           c0 == CountOpened(f)
           c1 == CountStored(c0, g0, f)
           c2 == IF CanDecode(g2)
                 THEN [c1 EXCEPT !.consumed = @ + Consumed(g2)] ELSE c1
           more == IF IsParity(f) /\ g0.parity[f.index - K] = Absent
                   THEN 1 ELSE 0
<1>1. /\ IsData(f) \/ IsParity(f)
      /\ gens' = With(Slot(f.id), Kept(f))
      /\ stats' = CountReport(c2, Handled(f))
  <2>1. gens' = [gens EXCEPT ![Slot(f.id)] = Kept(f)]
    BY DEF AcceptFragment, Handled, Kept
  <2> QED BY <2>1, WithExcept DEF AcceptFragment, Handled
<1>2. /\ c0 \in Stats /\ c0.noLoss = stats.noLoss
      /\ c0.repaired = stats.repaired /\ c0.parity = stats.parity
      /\ c0.consumed = stats.consumed
  BY CountersTyped DEF CountOpened, Stats, RsTypeOK
<1> HIDE DEF c0, g0
<1>3. /\ c1 \in Stats /\ c1.noLoss = c0.noLoss /\ c1.gens = c0.gens
      /\ c1.repaired = c0.repaired /\ c1.parity = c0.parity + more
      /\ c1.consumed = c0.consumed
  <2>1. c1 \in Stats
    BY <1>2, CountStoredTyped
  <2> QED BY <1>2, <2>1 DEF CountStored, Stats
<1> HIDE DEF c1, g2, more
<1>4. /\ c2 \in Stats /\ c2.noLoss = c1.noLoss /\ c2.gens = c1.gens
      /\ c2.repaired = c1.repaired /\ c2.parity = c1.parity
      /\ c2.consumed = c1.consumed + IF CanDecode(g2) THEN Consumed(g2) ELSE 0
  <2>1. [c1 EXCEPT !.consumed = @ + Consumed(g2)] \in Stats
    BY <1>3, ConsumedTyped
  <2> QED BY <1>3, <2>1 DEF Stats
<1> HIDE DEF c2
<1>5. /\ stats'.gens = c2.gens /\ stats'.parity = c2.parity
      /\ stats'.consumed = c2.consumed
      /\ IF Reports(Handled(f))
         THEN stats'.noLoss + stats'.repaired <= c2.noLoss + c2.repaired + 1
         ELSE stats'.noLoss + stats'.repaired = c2.noLoss + c2.repaired
  BY <1>1, <1>4 DEF CountReport, Stats
<1> QED BY <1>1, <1>2, <1>3, <1>4, <1>5 DEF c0, g0, g2, more

-----------------------------------------------------------------------------
(* Each generation opened is reported at most once. *)

Unreported(gs) == {s \in SlotIds : gs[s].inUse /\ ~gs[s].reported}

ReportInv ==
  stats.noLoss + stats.repaired + Cardinality(Unreported(gens)) <= stats.gens

LEMMA SlotsFinite ==
  /\ IsFiniteSet(SlotIds)
  /\ \A S \in SUBSET SlotIds : IsFiniteSet(S) /\ Cardinality(S) \in Nat
<1>1. MaxGens - 1 \in Int /\ 0 \in Int
  BY RsSizesAssumption DEF RsSizesAssumption
<1>2. IsFiniteSet(SlotIds)
  BY <1>1, FS_Interval DEF SlotIds
<1> QED BY <1>2, FS_Subset, FS_CardinalityType

LEMMA UnreportedSlots == \A gs : Unreported(gs) \in SUBSET SlotIds
BY DEF Unreported

\* Opening a generation counts it before it can be reported.
LEMMA OpeningCounts ==
  ASSUME RsTypeOK, ReportInv, NEW f \in Fragments
  PROVE  LET gs == With(Slot(f.id), Opened(f))
         IN  /\ stats.noLoss + stats.repaired + Cardinality(Unreported(gs))
                  <= CountOpened(f).gens
             /\ Slot(f.id) \in Unreported(gs) <=> ~Opened(f).reported
<1> DEFINE i == Slot(f.id)
           gs == With(i, Opened(f))
<1>1. i \in SlotIds /\ stats \in Stats
  BY FragmentTypes DEF RsTypeOK
<1>2. i \in Unreported(gs) <=> ~Opened(f).reported
  BY <1>1, OpenedFacts DEF Unreported, With
<1>3. CASE IsKnown(f) /\ ~IsReset(f)
  <2>1. gs = gens
    BY <1>3, WithSame DEF Opened
  <2>2. CountOpened(f).gens = stats.gens
    BY <1>1, <1>3 DEF CountOpened, Stats
  <2> QED BY <1>2, <2>1, <2>2 DEF ReportInv
<1>4. CASE ~(IsKnown(f) /\ ~IsReset(f))
  <2>1. CountOpened(f).gens = stats.gens + 1
    BY <1>1, <1>4 DEF CountOpened, Stats
  <2>2. Unreported(gs) \in SUBSET (Unreported(gens) \cup {i})
    BY DEF Unreported, With
  <2>3. /\ IsFiniteSet(Unreported(gens) \cup {i})
        /\ Cardinality(Unreported(gens) \cup {i})
             <= Cardinality(Unreported(gens)) + 1
    BY SlotsFinite, UnreportedSlots, FS_AddElement
  <2>4. Cardinality(Unreported(gs)) <= Cardinality(Unreported(gens) \cup {i})
    BY <2>2, <2>3, FS_Subset
  <2>5. /\ Cardinality(Unreported(gs)) \in Nat
        /\ Cardinality(Unreported(gens)) \in Nat
        /\ Cardinality(Unreported(gens) \cup {i}) \in Nat
    BY <2>3, SlotsFinite, UnreportedSlots, FS_CardinalityType
  <2>6. stats.noLoss \in Nat /\ stats.repaired \in Nat /\ stats.gens \in Nat
    BY <1>1 DEF Stats
  <2>7. stats.noLoss + stats.repaired + Cardinality(Unreported(gs))
          <= CountOpened(f).gens
    BY <2>1, <2>3, <2>4, <2>5, <2>6 DEF ReportInv
  <2> QED BY <1>2, <2>7
<1> QED BY <1>3, <1>4

LEMMA HandledUnreported ==
  ASSUME RsTypeOK, NEW f \in Fragments, IsData(f) \/ IsParity(f)
  PROVE  Handled(f).reported = Opened(f).reported
<1>1. StoreFragment(Opened(f), f).reported = Opened(f).reported
  BY OpenedFacts, StoreFacts
<1>2. Forwarded(StoreFragment(Opened(f), f)).reported = Opened(f).reported
  BY <1>1, HandledType, ForwardFacts
<1> QED BY <1>2, HandledType, DecodeFacts DEF Handled

LEMMA AcceptReports ==
  ASSUME RsTypeOK, ReportInv, NEW f \in Fragments, AcceptFragment(f)
  PROVE  ReportInv'
<1> DEFINE i == Slot(f.id)
           U == Unreported(With(i, Opened(f)))
           V == Unreported(With(i, Kept(f)))
<1>1. /\ IsData(f) \/ IsParity(f)
      /\ gens' = With(i, Kept(f)) /\ stats'.gens = CountOpened(f).gens
      /\ IF Reports(Handled(f))
         THEN stats'.noLoss + stats'.repaired
                <= stats.noLoss + stats.repaired + 1
         ELSE stats'.noLoss + stats'.repaired = stats.noLoss + stats.repaired
  BY AcceptCounts
<1>2. /\ stats.noLoss + stats.repaired + Cardinality(U) <= CountOpened(f).gens
      /\ i \in U <=> ~Opened(f).reported
  BY OpeningCounts
<1>3. /\ i \in SlotIds
      /\ Opened(f).inUse /\ Kept(f).inUse
      /\ Kept(f).reported = (Opened(f).reported \/ Reports(Handled(f)))
  BY <1>1, FragmentTypes, OpenedFacts, HandledType, HandledUnreported, KeptFacts
     DEF Reports
<1>4. V = IF Reports(Handled(f)) THEN U \ {i} ELSE U
  BY <1>3 DEF Unreported, With
<1>5. /\ IsFiniteSet(U) /\ Cardinality(U) \in Nat
      /\ Cardinality(V) \in Nat
  BY SlotsFinite, UnreportedSlots
<1>6. Unreported(gens') = V
  BY <1>1
<1>7. /\ stats.noLoss \in Nat /\ stats.repaired \in Nat
      /\ CountOpened(f).gens \in Nat
  BY CountersTyped DEF RsTypeOK, Stats
<1>8. stats'.noLoss \in Nat /\ stats'.repaired \in Nat
  BY AcceptStatsTyped DEF Stats
<1> HIDE DEF U, V
<1>9. CASE Reports(Handled(f))
  <2>1. i \in U
    BY <1>1, <1>2, <1>9, HandledUnreported DEF Reports
  <2>2. Cardinality(V) = Cardinality(U) - 1
    BY <1>4, <1>5, <1>9, <2>1, FS_RemoveElement
  <2> QED BY <1>1, <1>2, <1>5, <1>6, <1>7, <1>8, <1>9, <2>2 DEF ReportInv
<1>10. CASE ~Reports(Handled(f))
  BY <1>1, <1>2, <1>4, <1>6, <1>10 DEF ReportInv
<1> QED BY <1>9, <1>10

LEMMA ReportStep == RsTypeOK /\ ReportInv /\ [RsNext]_rsVars => ReportInv'
<1> SUFFICES ASSUME RsTypeOK, ReportInv, [RsNext]_rsVars
             PROVE  ReportInv'
  OBVIOUS
<1>1. CASE UNCHANGED rsVars
  BY <1>1 DEF rsVars, ReportInv
<1>2. ASSUME NEW f \in Fragments, DropMalformed(f)
      PROVE  ReportInv'
  <2>1. /\ stats'.noLoss = stats.noLoss /\ stats'.repaired = stats.repaired
        /\ stats'.gens = stats.gens /\ gens' = gens
    BY <1>2 DEF DropMalformed, RsTypeOK, Stats
  <2> QED BY <2>1 DEF ReportInv
<1>3. ASSUME NEW f \in Fragments, RejectIndex(f)
      PROVE  ReportInv'
  <2>1. gens' = With(Slot(f.id), Opened(f)) /\ stats' = CountOpened(f)
    BY <1>3, WithExcept DEF RejectIndex
  <2>2. /\ CountOpened(f).noLoss = stats.noLoss
        /\ CountOpened(f).repaired = stats.repaired
    BY DEF CountOpened, RsTypeOK, Stats
  <2> QED BY <2>1, <2>2, OpeningCounts DEF ReportInv
<1>4. ASSUME NEW f \in Fragments, AcceptFragment(f)
      PROVE  ReportInv'
  BY <1>4, AcceptReports
<1> QED BY <1>1, <1>2, <1>3, <1>4 DEF RsNext, HandleFragment

\* No decoding failure is ever counted, and evictions, resets and reopened
\* generations never make the complete generations more than the opened ones.
THEOREM ReportedWithinOpened == RsSpec => []FailuresUnreported
<1>1. RsInit => ReportInv
  <2> SUFFICES ASSUME RsInit
               PROVE  ReportInv
    OBVIOUS
  <2>1. Unreported(gens) = {}
    BY DEF RsInit, Unreported, FreeGen
  <2>2. stats.noLoss = 0 /\ stats.repaired = 0 /\ stats.gens = 0
    BY DEF RsInit
  <2> QED BY <2>1, <2>2, FS_EmptySet DEF ReportInv
<1>2. RsTypeOK /\ ReportInv /\ NoFailureReported => FailuresUnreported
  <2> SUFFICES ASSUME RsTypeOK, ReportInv
               PROVE  stats.noLoss + stats.repaired <= stats.gens
    BY DEF FailuresUnreported
  <2>1. Cardinality(Unreported(gens)) \in Nat
    BY SlotsFinite, UnreportedSlots
  <2> QED BY <2>1 DEF ReportInv, RsTypeOK, Stats
<1> QED BY <1>1, <1>2, ReportStep, RsTypes, FailuresNeverReported, PTL
        DEF RsSpec

-----------------------------------------------------------------------------
(* Parities are charged once, and only those received. *)

\* The parity fragments of the table no decoding has been charged for.
Uncharged(gs) ==
  {x \in SlotIds \X ParityIndices :
     LET g == gs[x[1]]
     IN  g.inUse /\ ~g.attempted /\ g.parity[x[2]] # Absent}

ChargeInv == stats.consumed + Cardinality(Uncharged(gens)) <= stats.parity

LEMMA ParitiesFinite ==
  /\ IsFiniteSet(ParityIndices) /\ Cardinality(ParityIndices) = Repairs
  /\ \A gs : /\ IsFiniteSet(Uncharged(gs))
             /\ Cardinality(Uncharged(gs)) \in Nat
<1>1. IsFiniteSet(ParityIndices) /\ Cardinality(ParityIndices) = Repairs
  <2>1. 0 \in Int /\ Repairs - 1 \in Int /\ Repairs \in Nat
    BY RsSizesAssumption DEF RsSizesAssumption
  <2>2. /\ IsFiniteSet(0 .. Repairs - 1)
        /\ Cardinality(0 .. Repairs - 1) =
             IF 0 > Repairs - 1 THEN 0 ELSE Repairs - 1 - 0 + 1
    BY <2>1, FS_Interval
  <2> QED BY <2>1, <2>2 DEF ParityIndices
<1>2. IsFiniteSet(SlotIds \X ParityIndices)
  BY <1>1, SlotsFinite, FS_Product
<1>3. \A gs : Uncharged(gs) \in SUBSET (SlotIds \X ParityIndices)
  BY DEF Uncharged
<1> QED BY <1>1, <1>2, <1>3, FS_Subset, FS_CardinalityType

\* The parities of one generation.
ParitiesOf(i) == {i} \X ParityIndices

LEMMA ParitiesOfOne ==
  ASSUME NEW i
  PROVE  IsFiniteSet(ParitiesOf(i)) /\ Cardinality(ParitiesOf(i)) = Repairs
<1>1. IsFiniteSet({i}) /\ Cardinality({i}) = 1
  BY FS_Singleton
<1>2. /\ IsFiniteSet({i} \X ParityIndices)
      /\ Cardinality({i} \X ParityIndices) = 1 * Repairs
  BY <1>1, ParitiesFinite, FS_Product
<1>3. Repairs \in Nat
  BY RsSizesAssumption DEF RsSizesAssumption
<1> QED BY <1>2, <1>3 DEF ParitiesOf

LEMMA OpeningUncharged ==
  ASSUME RsTypeOK, NEW f \in Fragments
  PROVE  Cardinality(Uncharged(With(Slot(f.id), Opened(f))))
           <= Cardinality(Uncharged(gens))
<1> DEFINE i == Slot(f.id)
           gs == With(i, Opened(f))
<1>1. Uncharged(gs) \in SUBSET Uncharged(gens)
  <2>1. CASE Opened(f) = gens[i]
    BY <2>1, WithSame
  <2>2. CASE Opened(f).parity = FreeGen.parity
    <3>1. \A p \in ParityIndices : Opened(f).parity[p] = Absent
      BY <2>2 DEF FreeGen
    <3> QED BY <3>1 DEF Uncharged, With
  <2> QED BY <2>1, <2>2, OpenedFacts
<1> QED BY <1>1, ParitiesFinite, FS_Subset

\* Storing a parity that was absent may add it to the uncharged ones.
LEMMA StoringUncharged ==
  ASSUME RsTypeOK, NEW f \in Fragments, IsData(f) \/ IsParity(f)
  PROVE  Cardinality(Uncharged(With(Slot(f.id), StoreFragment(Opened(f), f))))
           <= Cardinality(Uncharged(With(Slot(f.id), Opened(f)))) +
              IF IsParity(f) /\ Opened(f).parity[f.index - K] = Absent
              THEN 1 ELSE 0
<1> DEFINE i == Slot(f.id)
           g0 == Opened(f)
           g1 == StoreFragment(g0, f)
           U == Uncharged(With(i, g0))
           V == Uncharged(With(i, g1))
           x == <<i, f.index - K>>
<1>1. g0 \in Gen
  BY OpenedFacts
<1> HIDE DEF g0
<1>2. /\ g1.inUse = g0.inUse /\ g1.attempted = g0.attempted
      /\ \A p \in ParityIndices :
           g1.parity[p] = g0.parity[p]
           \/ /\ IsParity(f) /\ p = f.index - K
              /\ g0.parity[p] = Absent
  <2>1. CASE IsData(f)
    BY <1>1, <2>1 DEF StoreFragment, Gen
  <2>2. CASE ~IsData(f)
    <3> DEFINE o == IF g0.parity[f.index - K] = Absent
                    THEN f.origin ELSE g0.parity[f.index - K]
               q == [g0.parity EXCEPT ![f.index - K] = o]
    <3>1. IsParity(f)
      BY <2>2
    <3>2. g1 = [g0 EXCEPT !.parity = q]
      BY <1>1, <2>2, <3>1 DEF StoreFragment, IsParity, Gen
    <3>3. \A p \in ParityIndices :
            q[p] = g0.parity[p]
            \/ (p = f.index - K /\ g0.parity[p] = Absent)
      BY <1>1, <3>1 DEF IsParity, Gen
    <3> HIDE DEF q
    <3>4. g1.inUse = g0.inUse /\ g1.attempted = g0.attempted /\ g1.parity = q
      BY <1>1, <3>2, Zenon DEF Gen
    <3> QED BY <3>1, <3>3, <3>4
  <2> QED BY <2>1, <2>2
<1> HIDE DEF g1
<1>3. CASE IsParity(f) /\ g0.parity[f.index - K] = Absent
  <2>1. V \in SUBSET (U \cup {x})
    BY <1>2 DEF Uncharged, With
  <2>2. /\ IsFiniteSet(U \cup {x})
        /\ Cardinality(U \cup {x}) <= Cardinality(U) + 1
        /\ Cardinality(U) \in Nat /\ Cardinality(V) \in Nat
    <3>1. /\ IsFiniteSet(U) /\ Cardinality(U) \in Nat
          /\ Cardinality(V) \in Nat
      BY ParitiesFinite
    <3> HIDE DEF U, V, x
    <3>2. /\ IsFiniteSet(U \cup {x})
          /\ Cardinality(U \cup {x}) =
               IF x \in U THEN Cardinality(U) ELSE Cardinality(U) + 1
      BY <3>1, FS_AddElement
    <3> QED BY <3>1, <3>2
  <2>3. Cardinality(V) <= Cardinality(U \cup {x})
    BY <2>1, <2>2, FS_Subset
  <2>4. Cardinality(U \cup {x}) \in Nat
    BY <2>2, FS_CardinalityType
  <2> HIDE DEF U, V
  <2>5. Cardinality(V) <= Cardinality(U) + 1
    BY <2>2, <2>3, <2>4
  <2> QED BY <1>3, <2>5 DEF U, V, g0, g1
<1>4. CASE ~(IsParity(f) /\ g0.parity[f.index - K] = Absent)
  <2>1. V = U
    BY <1>2, <1>4 DEF Uncharged, With
  <2>2. Cardinality(U) \in Nat
    BY ParitiesFinite
  <2> HIDE DEF U, V
  <2>3. Cardinality(V) <= Cardinality(U) + 0
    BY <2>1, <2>2
  <2> QED BY <1>4, <2>3 DEF U, V, g0, g1
<1> QED BY <1>3, <1>4

\* The first decoding is charged all parities, which are all there.
LEMMA DecodingCharges ==
  ASSUME RsTypeOK, NEW f \in Fragments, IsData(f) \/ IsParity(f)
  PROVE  LET g == Forwarded(StoreFragment(Opened(f), f))
         IN  Cardinality(Uncharged(With(Slot(f.id), Kept(f)))) +
               (IF CanDecode(g) THEN Consumed(g) ELSE 0)
             <= Cardinality(Uncharged(
                  With(Slot(f.id), StoreFragment(Opened(f), f))))
<1> DEFINE i == Slot(f.id)
           g1 == StoreFragment(Opened(f), f)
           g2 == Forwarded(g1)
           g3 == Handled(f)
           U == Uncharged(With(i, g1))
           V == Uncharged(With(i, Kept(f)))
           charge == IF CanDecode(g2) THEN Consumed(g2) ELSE 0
<1>1. /\ i \in SlotIds
      /\ g1 \in Gen /\ g2 \in Gen /\ g3 \in Gen /\ g3.inUse
      /\ g3 = Decoded(g2)
  BY FragmentTypes, HandledType DEF Handled
<1>2. /\ g2.parity = g1.parity /\ g2.attempted = g1.attempted
      /\ g2.inUse = g1.inUse
  BY <1>1, ForwardFacts
<1>3. /\ g3.parity = g2.parity /\ g3.inUse = g2.inUse
      /\ CanDecode(g2) => g3.attempted
      /\ ~CanDecode(g2) => g3.attempted = g2.attempted
  BY <1>1, DecodeFacts
<1>4. /\ Kept(f).parity = g3.parity /\ Kept(f).inUse = g3.inUse
      /\ Kept(f).attempted = g3.attempted
  BY KeptFacts
<1> HIDE DEF g1, g2, g3
<1>5. Cardinality(U) \in Nat /\ Cardinality(V) \in Nat
      /\ IsFiniteSet(V) /\ IsFiniteSet(U)
  BY ParitiesFinite
<1>6. CASE CanDecode(g2) /\ ~g2.attempted
  <2>1. charge = Repairs
    BY <1>6 DEF Consumed
  <2>2. V \cup ParitiesOf(i) = U /\ V \cap ParitiesOf(i) = {}
    <3>1. \A p \in ParityIndices : g1.parity[p] # Absent
      BY <1>2, <1>6 DEF CanDecode, AllParity
    <3>2. g1.inUse /\ ~g1.attempted /\ Kept(f).attempted
      BY <1>1, <1>2, <1>3, <1>4, <1>6
    <3>3. /\ \A x \in SlotIds \X ParityIndices :
               x \in U <=> x \in V \/ x[1] = i
          /\ \A x \in V : x[1] # i
      BY <3>1, <3>2 DEF Uncharged, With
    <3>4. /\ U \subseteq SlotIds \X ParityIndices
          /\ V \subseteq SlotIds \X ParityIndices
      BY DEF Uncharged
    <3> HIDE DEF U, V
    <3>5. \A x \in SlotIds \X ParityIndices :
            x \in ParitiesOf(i) <=> x[1] = i
      BY DEF ParitiesOf
    <3>6. ParitiesOf(i) \subseteq SlotIds \X ParityIndices
      BY <1>1 DEF ParitiesOf
    <3> QED BY <3>3, <3>4, <3>5, <3>6
  <2> HIDE DEF U, V, charge
  <2>3. Cardinality(U) = Cardinality(V) + Cardinality(ParitiesOf(i))
                           - Cardinality(V \cap ParitiesOf(i))
    BY <1>5, <2>2, ParitiesOfOne, FS_Union
  <2>4. Cardinality(V \cap ParitiesOf(i)) = 0 /\ Repairs \in Nat
    BY <2>2, FS_EmptySet, RsSizesAssumption DEF RsSizesAssumption
  <2>5. Cardinality(V) + charge <= Cardinality(U)
    BY <1>5, <2>1, <2>3, <2>4, ParitiesOfOne
  <2> QED BY <2>5 DEF U, V, charge, g1, g2
<1>7. CASE ~(CanDecode(g2) /\ ~g2.attempted)
  <2>1. charge = 0
    BY <1>7 DEF Consumed
  <2>2. V = U
    <3>1. Kept(f).inUse = g1.inUse /\ Kept(f).parity = g1.parity
      BY <1>2, <1>3, <1>4
    <3>2. Kept(f).attempted = g1.attempted
      <4>1. g3 \in Gen /\ g2 \in Gen
        BY <1>1
      <4> QED BY <1>2, <1>3, <1>4, <1>7, <4>1 DEF Gen
    <3> QED BY <3>1, <3>2 DEF Uncharged, With
  <2> HIDE DEF U, V, charge
  <2>3. Cardinality(V) + charge <= Cardinality(U)
    BY <1>5, <2>1, <2>2
  <2> QED BY <2>3 DEF U, V, charge, g1, g2
<1> QED BY <1>6, <1>7

LEMMA AcceptCharges ==
  ASSUME RsTypeOK, ChargeInv, NEW f \in Fragments, AcceptFragment(f)
  PROVE  ChargeInv'
<1> DEFINE i == Slot(f.id)
           a == Cardinality(Uncharged(gens))
           b == Cardinality(Uncharged(With(i, Opened(f))))
           c == Cardinality(Uncharged(With(i, StoreFragment(Opened(f), f))))
           d == Cardinality(Uncharged(With(i, Kept(f))))
           g == Forwarded(StoreFragment(Opened(f), f))
           more == IF IsParity(f) /\ Opened(f).parity[f.index - K] = Absent
                   THEN 1 ELSE 0
           charge == IF CanDecode(g) THEN Consumed(g) ELSE 0
<1>1. /\ IsData(f) \/ IsParity(f)
      /\ gens' = With(i, Kept(f))
      /\ stats'.parity = stats.parity + more
      /\ stats'.consumed = stats.consumed + charge
  BY AcceptCounts
<1>2. b <= a
  BY OpeningUncharged
<1>3. c <= b + more
  BY <1>1, StoringUncharged
<1>4. d + charge <= c
  BY <1>1, DecodingCharges
<1>5. a \in Nat /\ b \in Nat /\ c \in Nat /\ d \in Nat
  BY ParitiesFinite
<1>6. charge \in Nat /\ more \in Nat
  BY RsSizesAssumption DEF RsSizesAssumption, Consumed
<1>7. stats.consumed \in Nat /\ stats.parity \in Nat
  BY DEF RsTypeOK, Stats
<1>8. stats.consumed + a <= stats.parity
  BY DEF ChargeInv
<1>9. Cardinality(Uncharged(gens')) = d
  BY <1>1
<1> HIDE DEF a, b, c, d, more, charge
<1>10. stats.consumed + charge + d <= stats.parity + more
  BY <1>2, <1>3, <1>4, <1>5, <1>6, <1>7, <1>8
<1> QED BY <1>1, <1>9, <1>10 DEF ChargeInv

LEMMA ChargeStep == RsTypeOK /\ ChargeInv /\ [RsNext]_rsVars => ChargeInv'
<1> SUFFICES ASSUME RsTypeOK, ChargeInv, [RsNext]_rsVars
             PROVE  ChargeInv'
  OBVIOUS
<1>1. CASE UNCHANGED rsVars
  BY <1>1 DEF rsVars, ChargeInv
<1>2. ASSUME NEW f \in Fragments, DropMalformed(f)
      PROVE  ChargeInv'
  <2>1. /\ stats'.consumed = stats.consumed /\ stats'.parity = stats.parity
        /\ gens' = gens
    BY <1>2 DEF DropMalformed, RsTypeOK, Stats
  <2> QED BY <2>1 DEF ChargeInv
<1>3. ASSUME NEW f \in Fragments, RejectIndex(f)
      PROVE  ChargeInv'
  <2>1. gens' = With(Slot(f.id), Opened(f)) /\ stats' = CountOpened(f)
    BY <1>3, WithExcept DEF RejectIndex
  <2>2. /\ CountOpened(f).consumed = stats.consumed
        /\ CountOpened(f).parity = stats.parity
        /\ stats.consumed \in Nat /\ stats.parity \in Nat
    BY DEF CountOpened, RsTypeOK, Stats
  <2>3. /\ Cardinality(Uncharged(gens')) \in Nat
        /\ Cardinality(Uncharged(gens)) \in Nat
        /\ Cardinality(Uncharged(gens')) <= Cardinality(Uncharged(gens))
    BY <2>1, OpeningUncharged, ParitiesFinite
  <2> QED BY <2>1, <2>2, <2>3 DEF ChargeInv
<1>4. ASSUME NEW f \in Fragments, AcceptFragment(f)
      PROVE  ChargeInv'
  BY <1>4, AcceptCharges
<1> QED BY <1>1, <1>2, <1>3, <1>4 DEF RsNext, HandleFragment

\* Whatever is evicted, reset, lost or duplicated, the parities the summary
\* counts as consumed were all received.
THEOREM ConsumedWasReceived == RsSpec => []ParityConsumedReceived
<1>1. RsInit => ChargeInv
  <2> SUFFICES ASSUME RsInit
               PROVE  ChargeInv
    OBVIOUS
  <2>1. Uncharged(gens) = {}
    BY DEF RsInit, Uncharged, FreeGen
  <2>2. stats.consumed = 0 /\ stats.parity = 0
    BY DEF RsInit
  <2> QED BY <2>1, <2>2, FS_EmptySet DEF ChargeInv
<1>2. RsTypeOK /\ ChargeInv => ParityConsumedReceived
  <2> SUFFICES ASSUME RsTypeOK, ChargeInv
               PROVE  stats.consumed <= stats.parity
    BY DEF ParityConsumedReceived
  <2>1. Cardinality(Uncharged(gens)) \in Nat
    BY ParitiesFinite
  <2> QED BY <2>1 DEF ChargeInv, RsTypeOK, Stats
<1> QED BY <1>1, <1>2, ChargeStep, RsTypes, PTL DEF RsSpec

-----------------------------------------------------------------------------
(* What arrived is delivered, and once.  This holds of fragments that do   *)
(* not share slots, ids or lengths across the gateway's generations, and   *)
(* with parities enough for a generation of which nothing else arrived.    *)

\* No two of the gateway's generations meet in a slot, and each has a length.
Apart(A) ==
  \A f, h \in A :
    /\ f.origin = h.origin => f.id = h.id /\ f.len = h.len
    /\ Slot(f.id) = Slot(h.id) => f.origin = h.origin

EnoughParity == Repairs = 0 \/ Repairs >= K

\* All there is in g is of origin o.
OfOrigin(g, o) ==
  /\ \A i \in Indices : g.data[i] = Absent \/ g.data[i] = o
  /\ \A p \in ParityIndices : g.parity[p] = Absent \/ g.parity[p] = o

\* A packet left its source: as such, or as part of a parity.
Backed(o, i, A) ==
  \E d \in A : d.origin = o /\ ((IsData(d) /\ d.index = i) \/ IsParity(d))

Backs(g, o, A) ==
  /\ \A i \in Indices : i \in g.fwd \/ g.data[i] # Absent => Backed(o, i, A)
  /\ \A p \in ParityIndices :
       g.parity[p] # Absent => \E d \in A : d.origin = o /\ IsParity(d)

\* g is what became of the fragments A, one of which is h.
Keeps(g, h, A) ==
  /\ g.inUse /\ g.id = h.id /\ g.len = h.len
  /\ OfOrigin(g, h.origin)
  /\ Backs(g, h.origin, A)
  /\ IsData(h) => h.index \in g.fwd

Held ==
  /\ RsTypeOK
  /\ garbled = FALSE /\ \A p \in Packets : copies[p] \in {0, 1}
  /\ \A s \in SlotIds :
       IF gens[s].inUse THEN \E h \in arrived : Slot(h.id) = s
                        ELSE gens[s] = FreeGen
  /\ \A h \in arrived : Keeps(gens[Slot(h.id)], h, arrived)
  /\ \A p \in Packets : copies[p] = 1 =>
       \E h \in arrived : h.origin = p[1] /\ p[2] \in gens[Slot(h.id)].fwd
  /\ SendOutcomes = {TRUE} =>
       \A h \in arrived : \A i \in gens[Slot(h.id)].fwd :
         copies[<<h.origin, i>>] = 1

\* Decoding gives the generation whose fragments are there.
LEMMA RecoversOrigin ==
  ASSUME NEW g \in Gen, NEW o \in Origins, OfOrigin(g, o), EnoughParity,
         CanDecode(g)
  PROVE  Recovered(g) = o
<1>1. K \in Nat \ {0} /\ Repairs \in Nat /\ Repairs > 0 /\ Repairs >= K
  BY RsSizesAssumption DEF RsSizesAssumption, EnoughParity, CanDecode
<1>2. Cardinality(Missing(g)) <= Repairs
  <2>1. 0 \in Int /\ K - 1 \in Int
    BY <1>1
  <2>2. IsFiniteSet(Indices) /\ Cardinality(Indices) = K
    <3>1. /\ IsFiniteSet(0 .. K - 1)
          /\ Cardinality(0 .. K - 1) =
               IF 0 > K - 1 THEN 0 ELSE (K - 1) - 0 + 1
      BY <2>1, FS_Interval
    <3> QED  BY <1>1, <3>1 DEF Indices
  <2>3. Missing(g) \in SUBSET Indices
    BY DEF Missing
  <2>4. /\ IsFiniteSet(Missing(g))
        /\ Cardinality(Missing(g)) <= Cardinality(Indices)
    BY <2>2, <2>3, FS_Subset
  <2>5. Cardinality(Missing(g)) \in Nat
    BY <2>4, FS_CardinalityType
  <2> QED  BY <1>1, <2>2, <2>4, <2>5
<1>3. \A p \in ParityIndices : g.parity[p] = o
  BY DEF CanDecode, AllParity, OfOrigin
<1>4. DecodesTo(g, o)
  BY <1>2, <1>3 DEF DecodesTo, OfOrigin, Present
<1>5. DecodesTo(g, Recovered(g))
  BY <1>4 DEF Recovered
<1>6. 0 \in ParityIndices
  BY <1>1 DEF ParityIndices
<1> QED  BY <1>3, <1>5, <1>6 DEF DecodesTo

\* What the handling of f adds to the generation it found.
LEMMA KeptOfOrigin ==
  ASSUME RsTypeOK, EnoughParity, NEW f \in Fragments, IsData(f) \/ IsParity(f),
         OfOrigin(Opened(f), f.origin)
  PROVE  /\ OfOrigin(Kept(f), f.origin)
         /\ Opened(f).fwd \subseteq Kept(f).fwd /\ Kept(f).fwd \subseteq Indices
         /\ \A i \in Kept(f).fwd \ Opened(f).fwd : Kept(f).data[i] = f.origin
         /\ IsData(f) => f.index \in Kept(f).fwd
         /\ \A i \in Indices : i \in Kept(f).fwd \/ Kept(f).data[i] # Absent =>
              \/ i \in Opened(f).fwd \/ Opened(f).data[i] # Absent
              \/ IsData(f) /\ f.index = i
              \/ \E p \in ParityIndices : Kept(f).parity[p] # Absent
         /\ \A p \in ParityIndices : Kept(f).parity[p] # Absent =>
              Opened(f).parity[p] # Absent \/ IsParity(f)
<1> DEFINE o == f.origin
           g0 == Opened(f)
           g1 == StoreFragment(g0, f)
           g2 == Forwarded(g1)
           g3 == Handled(f)
<1>0. o \in Origins /\ o # Absent
  BY FragmentTypes, OriginNotAbsent
<1>1. g0 \in Gen
  BY OpenedFacts
<1>2. /\ g1 \in Gen /\ g1.fwd = g0.fwd
      /\ \A i \in Indices : g1.data[i] = g0.data[i]
                            \/ (g0.data[i] = Absent /\ g1.data[i] = o)
      /\ \A p \in ParityIndices : g1.parity[p] = g0.parity[p] \/ g1.parity[p] = o
  BY <1>1, StoreFacts
<1>3. /\ IsData(f) => g1.data[f.index] # Absent
      /\ \A i \in Indices : g1.data[i] # g0.data[i] => IsData(f) /\ i = f.index
      /\ \A p \in ParityIndices : g1.parity[p] # g0.parity[p] => IsParity(f)
  <2> HIDE DEF g0, o
  <2>1. CASE IsData(f)
    BY <1>0, <1>1, <2>1 DEF StoreFragment, IsData, Gen, o
  <2>2. CASE ~IsData(f)
    BY <1>0, <1>1, <2>2 DEF StoreFragment, IsParity, Gen, o
  <2> QED  BY <2>1, <2>2
<1> HIDE DEF g1, g0, o
<1>4. /\ g2 \in Gen /\ g2.data = g1.data /\ g2.parity = g1.parity
      /\ g2.fwd = g1.fwd \cup Present(g1)
  BY <1>2, ForwardFacts
<1> HIDE DEF g2
<1>5. g3 = Decoded(g2)
  BY DEF Handled, g0, g1, g2
<1>6. /\ g3 \in Gen /\ g3.parity = g2.parity
      /\ ~CanDecode(g2) => g3 = g2
      /\ CanDecode(g2) => g3.fwd = Indices /\ Present(g3) = Indices
      /\ \A i \in Indices : g3.data[i] = g2.data[i] \/ g3.data[i] = Recovered(g2)
  BY <1>4, <1>5, DecodeFacts
<1>7. Kept(f).data = g3.data /\ Kept(f).parity = g3.parity /\ Kept(f).fwd = g3.fwd
  BY KeptFacts
<1> HIDE DEF g3
<1>8. OfOrigin(g2, o)
  BY <1>2, <1>4 DEF OfOrigin, g0, o
<1>9. OfOrigin(g3, o)
  <2>1. CASE CanDecode(g2)
    <3>1. Recovered(g2) = o
      BY <1>0, <1>4, <1>8, <2>1, RecoversOrigin
    <3> QED  BY <1>6, <1>8, <3>1 DEF OfOrigin
  <2>2. CASE ~CanDecode(g2)
    BY <1>6, <1>8, <2>2
  <2> QED  BY <2>1, <2>2
<1>10. g1.fwd \subseteq g3.fwd /\ Present(g1) \subseteq g3.fwd
       /\ g3.fwd \subseteq Indices
  BY <1>4, <1>6 DEF Gen
<1>11. \A i \in g3.fwd \ g0.fwd : g3.data[i] = o
  <2> SUFFICES ASSUME NEW i \in g3.fwd, i \notin g0.fwd
               PROVE  g3.data[i] = o
    OBVIOUS
  <2>1. i \in Indices
    BY <1>10
  <2>2. g3.data[i] # Absent
    <3>1. CASE CanDecode(g2)
      BY <1>6, <2>1, <3>1 DEF Present
    <3>2. CASE ~CanDecode(g2)
      BY <1>2, <1>4, <1>6, <2>1, <3>2 DEF Present
    <3> QED  BY <3>1, <3>2
  <2> QED  BY <1>9, <2>1, <2>2 DEF OfOrigin
<1>12. IsData(f) => f.index \in g3.fwd
  BY <1>3, <1>10 DEF Present, IsData
<1>13. ASSUME NEW i \in Indices, i \in g3.fwd \/ g3.data[i] # Absent
       PROVE  \/ i \in g0.fwd \/ g0.data[i] # Absent
              \/ IsData(f) /\ f.index = i
              \/ \E p \in ParityIndices : g3.parity[p] # Absent
  <2>1. CASE CanDecode(g2)
    <3>1. 0 \in ParityIndices /\ \A p \in ParityIndices : g2.parity[p] # Absent
      BY <2>1, RsSizesAssumption
         DEF CanDecode, AllParity, ParityIndices, RsSizesAssumption
    <3> QED  BY <1>6, <3>1
  <2>2. CASE ~CanDecode(g2)
    <3>1. i \in g0.fwd \/ g1.data[i] # Absent
      BY <1>2, <1>4, <1>6, <1>13, <2>2 DEF Present
    <3> QED  BY <1>3, <3>1
  <2> QED  BY <2>1, <2>2
<1>14. \A p \in ParityIndices :
         g3.parity[p] # Absent => g0.parity[p] # Absent \/ IsParity(f)
  BY <1>3, <1>4, <1>6
<1>15. OfOrigin(Kept(f), o)
  BY <1>7, <1>9 DEF OfOrigin
<1>16. g0.fwd \subseteq Kept(f).fwd /\ Kept(f).fwd \subseteq Indices
  BY <1>2, <1>7, <1>10
<1>17. \A i \in Indices : i \in Kept(f).fwd \/ Kept(f).data[i] # Absent =>
         \/ i \in g0.fwd \/ g0.data[i] # Absent
         \/ IsData(f) /\ f.index = i
         \/ \E p \in ParityIndices : Kept(f).parity[p] # Absent
  BY <1>7, <1>13
<1> QED  BY <1>7, <1>11, <1>12, <1>14, <1>15, <1>16, <1>17 DEF g0, o

\* The generation f finds is what became of its other fragments.
LEMMA OpenedHeld ==
  ASSUME Held, NEW f \in Fragments, Apart(arrived \cup {f})
  PROVE  /\ OfOrigin(Opened(f), f.origin)
         /\ Backs(Opened(f), f.origin, arrived)
         /\ \A i \in Indices : copies[<<f.origin, i>>] = 1 => i \in Opened(f).fwd
         /\ SendOutcomes = {TRUE} =>
              \A i \in Opened(f).fwd : copies[<<f.origin, i>>] = 1
         /\ \A h \in arrived : Slot(h.id) = Slot(f.id) =>
              /\ h.origin = f.origin /\ h.id = f.id /\ h.len = f.len
              /\ Opened(f) = gens[Slot(f.id)]
<1> DEFINE s == Slot(f.id)
           o == f.origin
<1>0. /\ s \in SlotIds /\ o \in Origins /\ RsTypeOK
      /\ \A i \in Indices : <<o, i>> \in Packets
  BY FragmentTypes DEF Held, Packets
<1>1. ASSUME NEW h \in arrived, Slot(h.id) = s
      PROVE  /\ h.origin = o /\ h.id = f.id /\ h.len = f.len
             /\ Opened(f) = gens[s] /\ Keeps(gens[s], h, arrived)
  <2>1. h.origin = o
    BY <1>1 DEF Apart
  <2>2. h.id = f.id /\ h.len = f.len
    BY <2>1 DEF Apart
  <2>3. Keeps(gens[s], h, arrived)
    BY <1>1 DEF Held
  <2>4. IsKnown(f) /\ ~IsReset(f)
    BY <2>2, <2>3 DEF Keeps, IsKnown, IsReset
  <2> QED  BY <2>1, <2>2, <2>3, <2>4 DEF Opened
<1>2. ASSUME NEW i \in Indices, copies[<<o, i>>] = 1
      PROVE  \E h \in arrived : Slot(h.id) = s /\ i \in gens[s].fwd
  <2>1. PICK h \in arrived :
          h.origin = <<o, i>>[1] /\ <<o, i>>[2] \in gens[Slot(h.id)].fwd
    BY <1>0, <1>2 DEF Held
  <2>2. h.id = f.id
    BY <2>1 DEF Apart
  <2> QED  BY <2>1, <2>2
<1>3. CASE \E h \in arrived : Slot(h.id) = s
  <2>1. PICK h \in arrived : Slot(h.id) = s
    BY <1>3
  <2>2. Opened(f) = gens[s] /\ Keeps(gens[s], h, arrived) /\ h.origin = o
    BY <1>1, <2>1
  <2>3. SendOutcomes = {TRUE} =>
          \A i \in gens[s].fwd : copies[<<o, i>>] = 1
    BY <2>1, <2>2 DEF Held
  <2> QED  BY <1>1, <1>2, <2>2, <2>3 DEF Keeps
<1>4. CASE ~\E h \in arrived : Slot(h.id) = s
  <2>1. ~gens[s].inUse
    BY <1>0, <1>4 DEF Held
  <2>2. /\ Opened(f).data = FreeGen.data /\ Opened(f).parity = FreeGen.parity
        /\ Opened(f).fwd = {}
    <3>1. Opened(f) = [NewGen(f.id) EXCEPT !.len = f.len]
      BY <2>1 DEF Opened, IsKnown
    <3> QED  BY <3>1 DEF NewGen, FreeGen
  <2>3. OfOrigin(Opened(f), o) /\ Backs(Opened(f), o, arrived)
    BY <2>2 DEF OfOrigin, Backs, FreeGen
  <2> QED  BY <1>2, <1>4, <2>2, <2>3
<1> QED  BY <1>3, <1>4

\* What leaves the socket with f, and what has left it since.
LEMMA AcceptCopies ==
  ASSUME Held, EnoughParity, NEW f \in Fragments, Apart(arrived \cup {f}),
         AcceptFragment(f)
  PROVE  \E S \in SUBSET {<<f.origin, i>> : i \in Kept(f).fwd \ Opened(f).fwd} :
           /\ SendOutcomes = {TRUE} =>
                S = {<<f.origin, i>> : i \in Kept(f).fwd \ Opened(f).fwd}
           /\ \A p \in S : p \in Packets /\ copies[p] = 0
           /\ copies' = [p \in Packets |-> IF p \in S THEN 1 ELSE copies[p]]
           /\ garbled' = FALSE
<1> DEFINE o == f.origin
           N == Kept(f).fwd \ Opened(f).fwd
           out == {<<o, i>> : i \in N}
<1>1. IsData(f) \/ IsParity(f)
  BY DEF AcceptFragment
<1>2. /\ OfOrigin(Opened(f), o)
      /\ \A i \in Indices : copies[<<o, i>>] = 1 => i \in Opened(f).fwd
  BY OpenedHeld
<1>3. RsTypeOK /\ o \in Origins /\ o # Garbage
  BY FragmentTypes, OriginNotAbsent DEF Held
<1>4. /\ Kept(f).fwd \subseteq Indices
      /\ \A i \in N : Kept(f).data[i] = o
  BY <1>1, <1>2, <1>3, KeptOfOrigin
<1>5. /\ Kept(f).fwd = Handled(f).fwd /\ Kept(f).data = Handled(f).data
      /\ StoreFragment(Opened(f), f).fwd = Opened(f).fwd
  BY <1>1, <1>3, KeptFacts, OpenedFacts, StoreFacts
<1>6. \E sent \in SendSets({<<Handled(f).data[i], i>> :
               i \in Handled(f).fwd \ StoreFragment(Opened(f), f).fwd}) :
        CountOut(sent)
  BY DEF AcceptFragment, Handled
<1>7. {<<Handled(f).data[i], i>> :
          i \in Handled(f).fwd \ StoreFragment(Opened(f), f).fwd} = out
  <2>1. N = Handled(f).fwd \ StoreFragment(Opened(f), f).fwd
    BY <1>5
  <2>2. \A i \in N : Handled(f).data[i] = o
    BY <1>4, <1>5
  <2> HIDE DEF N
  <2> QED  BY <2>1, <2>2
<1>8. PICK sent \in SendSets(out) : CountOut(sent)
  BY <1>6, <1>7
<1>9. sent \in SUBSET out /\ (sent # out => FALSE \in SendOutcomes)
  BY DEF SendSets
<1>10. \A p \in sent : p \in Packets /\ copies[p] = 0 /\ p[1] # Garbage
  <2> SUFFICES ASSUME NEW i \in N
               PROVE  /\ <<o, i>> \in Packets /\ copies[<<o, i>>] = 0
                      /\ <<o, i>>[1] # Garbage
    BY <1>9
  <2>1. i \in Indices /\ i \notin Opened(f).fwd
    BY <1>4
  <2>2. <<o, i>> \in Packets
    BY <1>3, <2>1 DEF Packets
  <2>3. copies[<<o, i>>] \in {0, 1} /\ copies[<<o, i>>] # 1
    BY <1>2, <2>1, <2>2 DEF Held
  <2> QED  BY <1>3, <2>2, <2>3
<1>11. copies' = [p \in Packets |-> IF p \in sent THEN 1 ELSE copies[p]]
  <2>1. copies' = [p \in Packets |-> IF p \in sent /\ copies[p] < 2
                                     THEN copies[p] + 1 ELSE copies[p]]
    BY <1>8 DEF CountOut
  <2>2. ASSUME NEW p \in Packets
        PROVE  (IF p \in sent /\ copies[p] < 2
                THEN copies[p] + 1 ELSE copies[p]) =
               IF p \in sent THEN 1 ELSE copies[p]
    BY <1>10
  <2> QED  BY <2>1, <2>2
<1>12. garbled' = FALSE
  <2>1. garbled' = (garbled \/ \E x \in sent : x[1] = Garbage)
    BY <1>8 DEF CountOut
  <2> QED  BY <1>10, <2>1 DEF Held
<1> QED  BY <1>9, <1>10, <1>11, <1>12

LEMMA AcceptKeeps ==
  ASSUME Held, EnoughParity, NEW f \in Fragments, Apart(arrived \cup {f}),
         IsData(f) \/ IsParity(f), NEW h \in arrived \cup {f},
         Slot(h.id) = Slot(f.id)
  PROVE  /\ Keeps(Kept(f), h, arrived \cup {f}) /\ h.origin = f.origin
         /\ Backs(Kept(f), f.origin, arrived \cup {f})
<1> DEFINE o == f.origin
           g0 == Opened(f)
           g == Kept(f)
           A == arrived \cup {f}
<1>1. /\ OfOrigin(g0, o) /\ Backs(g0, o, arrived)
      /\ h \in arrived => /\ h.origin = o /\ h.id = f.id /\ h.len = f.len
                          /\ g0 = gens[Slot(f.id)]
  BY OpenedHeld
<1>2. RsTypeOK
  BY DEF Held
<1>3. /\ OfOrigin(g, o)
      /\ g0.fwd \subseteq g.fwd /\ g.fwd \subseteq Indices
      /\ IsData(f) => f.index \in g.fwd
      /\ \A i \in Indices : i \in g.fwd \/ g.data[i] # Absent =>
           \/ i \in g0.fwd \/ g0.data[i] # Absent
           \/ IsData(f) /\ f.index = i
           \/ \E p \in ParityIndices : g.parity[p] # Absent
      /\ \A p \in ParityIndices : g.parity[p] # Absent =>
           g0.parity[p] # Absent \/ IsParity(f)
  BY <1>1, <1>2, KeptOfOrigin
<1>4. g.inUse /\ g.id = f.id /\ g.len = f.len
  BY <1>2, KeptFacts, HandledType
<1> HIDE DEF g, g0, o
<1>5. f.origin = o
  BY DEF o
<1>6. \A p \in ParityIndices :
        g.parity[p] # Absent => \E d \in A : d.origin = o /\ IsParity(d)
  BY <1>1, <1>3, <1>5 DEF Backs
<1>7. ASSUME NEW i \in Indices, i \in g.fwd \/ g.data[i] # Absent
      PROVE  Backed(o, i, A)
  <2>1. CASE i \in g0.fwd \/ g0.data[i] # Absent
    <3>1. Backed(o, i, arrived)
      BY <1>1, <2>1 DEF Backs
    <3> QED  BY <3>1 DEF Backed
  <2>2. CASE IsData(f) /\ f.index = i
    BY <1>5, <2>2 DEF Backed
  <2>3. CASE \E p \in ParityIndices : g.parity[p] # Absent
    BY <1>6, <2>3 DEF Backed
  <2> QED  BY <1>3, <1>7, <2>1, <2>2, <2>3
<1>8. Backs(g, o, A)
  BY <1>6, <1>7 DEF Backs
<1>9. h.origin = o /\ h.id = f.id /\ h.len = f.len
  BY <1>1, <1>5
<1>10. IsData(h) => h.index \in g.fwd
  <2>1. CASE h = f
    BY <1>3, <2>1
  <2>2. CASE h \in arrived
    <3>1. Keeps(gens[Slot(h.id)], h, arrived)
      BY <2>2 DEF Held
    <3> QED  BY <1>1, <1>3, <2>2, <3>1 DEF Keeps
  <2> QED  BY <2>1, <2>2
<1> QED  BY <1>3, <1>4, <1>5, <1>8, <1>9, <1>10 DEF Keeps, g, o

LEMMA BackedGrows ==
  ASSUME NEW A, NEW B, A \subseteq B
  PROVE  /\ \A o, i : Backed(o, i, A) => Backed(o, i, B)
         /\ \A g, o : Backs(g, o, A) => Backs(g, o, B)
         /\ \A g, h : Keeps(g, h, A) => Keeps(g, h, B)
<1>1. \A o, i : Backed(o, i, A) => Backed(o, i, B)
  BY DEF Backed
<1>2. \A g, o : Backs(g, o, A) => Backs(g, o, B)
  BY <1>1 DEF Backs
<1> QED  BY <1>1, <1>2 DEF Keeps

LEMMA HeldInit == RsInit => Held
<1> SUFFICES ASSUME RsInit
             PROVE  Held
  OBVIOUS
<1>1. RsTypeOK
  BY TypeInit
<1>2. \A s \in SlotIds : gens[s] = FreeGen /\ ~FreeGen.inUse
  BY DEF RsInit, FreeGen
<1>3. arrived = {} /\ garbled = FALSE /\ \A p \in Packets : copies[p] = 0
  BY DEF RsInit
<1> QED  BY <1>1, <1>2, <1>3 DEF Held

\* A fragment keeps what arrived delivered, and delivers packets not delivered
\* before, which it or earlier ones brought.
LEMMA AcceptHeld ==
  ASSUME Held, EnoughParity, NEW f \in Fragments, Apart(arrived \cup {f}),
         AcceptFragment(f)
  PROVE  /\ Held'
         /\ \E S \in SUBSET Packets :
              /\ \A p \in S : copies[p] = 0 /\ Backed(p[1], p[2], arrived')
              /\ copies' = [p \in Packets |-> IF p \in S THEN 1 ELSE copies[p]]
              /\ garbled' = garbled
<1> DEFINE s == Slot(f.id)
           o == f.origin
           g == Kept(f)
           N == g.fwd \ Opened(f).fwd
           A == arrived \cup {f}
<1>1. IsData(f) \/ IsParity(f)
  BY DEF AcceptFragment
<1>2. /\ arrived' = A /\ gens' = [gens EXCEPT ![s] = g]
      /\ s \in SlotIds /\ o \in Origins /\ RsTypeOK
  BY FragmentTypes DEF AcceptFragment, Received, Kept, Handled, Held
<1>3. RsTypeOK'
  BY <1>2, TypeStep DEF RsNext, HandleFragment
<1>4. PICK S \in SUBSET {<<o, i>> : i \in N} :
        /\ SendOutcomes = {TRUE} => S = {<<o, i>> : i \in N}
        /\ \A p \in S : p \in Packets /\ copies[p] = 0
        /\ copies' = [p \in Packets |-> IF p \in S THEN 1 ELSE copies[p]]
        /\ garbled' = FALSE
  BY AcceptCopies
<1>5. /\ OfOrigin(Opened(f), o)
      /\ \A i \in Indices : copies[<<o, i>>] = 1 => i \in Opened(f).fwd
      /\ SendOutcomes = {TRUE} =>
           \A i \in Opened(f).fwd : copies[<<o, i>>] = 1
      /\ \A h \in arrived : Slot(h.id) = s =>
           h.origin = o /\ Opened(f) = gens[s]
  BY OpenedHeld
<1>6. Opened(f).fwd \subseteq g.fwd /\ g.fwd \subseteq Indices
  BY <1>1, <1>2, <1>5, KeptOfOrigin
<1>7. \A h \in A : Slot(h.id) = s => Keeps(g, h, A) /\ h.origin = o
  BY <1>1, AcceptKeeps
<1>8. g.inUse /\ Backs(g, o, A)
  BY <1>7 DEF Keeps
<1> HIDE DEF g
<1>9. /\ gens'[s] = g
      /\ \A t \in SlotIds : t # s => gens'[t] = gens[t]
  BY <1>2 DEF RsTypeOK
<1>10. \A h \in A : Slot(h.id) \in SlotIds /\ h \in Fragments
  BY <1>2, FragmentTypes DEF RsTypeOK
<1>11. \A p \in Packets : copies'[p] \in {0, 1}
  BY <1>4 DEF Held
<1>12. ASSUME NEW t \in SlotIds
       PROVE  IF gens'[t].inUse THEN \E h \in arrived' : Slot(h.id) = t
                                ELSE gens'[t] = FreeGen
  <2>1. CASE t = s
    BY <1>2, <1>8, <1>9, <2>1
  <2>2. CASE t # s
    BY <1>2, <1>9, <2>2 DEF Held
  <2> QED  BY <2>1, <2>2
<1>13. ASSUME NEW h \in arrived'
       PROVE  Keeps(gens'[Slot(h.id)], h, arrived')
  <2>1. CASE Slot(h.id) = s
    BY <1>2, <1>7, <1>9, <2>1
  <2>2. CASE Slot(h.id) # s
    <3>1. h \in arrived /\ gens'[Slot(h.id)] = gens[Slot(h.id)]
      BY <1>2, <1>9, <1>10, <2>2
    <3>2. Keeps(gens[Slot(h.id)], h, arrived)
      BY <3>1 DEF Held
    <3> QED  BY <1>2, <3>1, <3>2, BackedGrows
  <2> QED  BY <2>1, <2>2
<1>14. ASSUME NEW p \in Packets, copies'[p] = 1
       PROVE  \E h \in arrived' :
                h.origin = p[1] /\ p[2] \in gens'[Slot(h.id)].fwd
  <2>1. CASE p \in S
    <3>1. PICK i \in N : p = <<o, i>>
      BY <2>1
    <3> QED  BY <1>2, <1>9, <3>1
  <2>2. CASE p \notin S
    <3>1. copies[p] = 1
      BY <1>4, <1>14, <2>2
    <3>2. PICK h \in arrived : h.origin = p[1] /\ p[2] \in gens[Slot(h.id)].fwd
      BY <3>1 DEF Held
    <3>3. CASE Slot(h.id) = s
      <4>1. p[2] \in g.fwd
        BY <1>5, <1>6, <3>2, <3>3
      <4> QED  BY <1>2, <1>9, <3>2, <3>3, <4>1
    <3>4. CASE Slot(h.id) # s
      BY <1>2, <1>9, <1>10, <3>2, <3>4
    <3> QED  BY <3>3, <3>4
  <2> QED  BY <2>1, <2>2
<1>15. ASSUME SendOutcomes = {TRUE}, NEW h \in arrived',
              NEW i \in gens'[Slot(h.id)].fwd
       PROVE  copies'[<<h.origin, i>>] = 1
  <2>0. /\ i \in Indices /\ h.origin \in Origins
        /\ <<h.origin, i>> \in Packets
    <3>1. gens'[Slot(h.id)] \in Gen
      BY <1>2, <1>3, <1>10 DEF RsTypeOK
    <3>2. i \in Indices /\ h.origin \in Origins
      BY <1>2, <1>10, <3>1, FragmentTypes DEF Gen
    <3> QED  BY <3>2 DEF Packets
  <2>1. CASE Slot(h.id) = s
    <3>1. h.origin = o /\ i \in g.fwd
      BY <1>2, <1>7, <1>9, <1>15, <2>1
    <3>2. CASE i \in N
      <4>1. <<o, i>> \in S
        BY <1>4, <1>15, <3>2
      <4> QED  BY <1>4, <2>0, <3>1, <4>1
    <3>3. CASE i \notin N
      <4>1. copies[<<o, i>>] = 1
        BY <1>5, <1>15, <3>1, <3>3
      <4> QED  BY <1>4, <2>0, <3>1, <4>1
    <3> QED  BY <3>2, <3>3
  <2>2. CASE Slot(h.id) # s
    <3>1. h \in arrived /\ gens'[Slot(h.id)] = gens[Slot(h.id)]
      BY <1>2, <1>9, <1>10, <2>2
    <3>2. copies[<<h.origin, i>>] = 1
      BY <1>15, <3>1 DEF Held
    <3> QED  BY <1>4, <2>0, <3>2
  <2> QED  BY <2>1, <2>2
<1>16. Held'
  BY <1>3, <1>4, <1>11, <1>12, <1>13, <1>14, <1>15 DEF Held
<1>17. ASSUME NEW p \in S
       PROVE  Backed(p[1], p[2], arrived')
  <2>1. PICK i \in N : p = <<o, i>>
    OBVIOUS
  <2>2. i \in Indices /\ i \in g.fwd
    BY <1>6, <2>1
  <2> QED  BY <1>2, <1>8, <2>1, <2>2 DEF Backs
<1>18. S \in SUBSET Packets /\ garbled' = garbled
  BY <1>4 DEF Held
<1> QED  BY <1>4, <1>16, <1>17, <1>18

\* The same of any fragment whose header is right.
LEMMA HandledHeld ==
  ASSUME Held, EnoughParity, NEW f \in Fragments, Apart(arrived \cup {f}),
         f.fits, IsData(f) \/ IsParity(f), HandleFragment(f)
  PROVE  /\ Held'
         /\ \E S \in SUBSET Packets :
              /\ \A p \in S : copies[p] = 0 /\ Backed(p[1], p[2], arrived')
              /\ copies' = [p \in Packets |-> IF p \in S THEN 1 ELSE copies[p]]
              /\ garbled' = garbled
<1>1. AcceptFragment(f)
  BY DEF HandleFragment, DropMalformed, RejectIndex
<1> QED  BY <1>1, AcceptHeld

\* With a socket that works, each data fragment that arrived is delivered.
LEMMA HeldDelivers ==
  ASSUME Held, SendOutcomes = {TRUE}, NEW f \in arrived, IsData(f)
  PROVE  copies[<<f.origin, f.index>>] >= 1
<1>1. Keeps(gens[Slot(f.id)], f, arrived)
  BY DEF Held
<1>2. f.index \in gens[Slot(f.id)].fwd
  BY <1>1 DEF Keeps
<1>3. copies[<<f.origin, f.index>>] = 1
  BY <1>2 DEF Held
<1> QED  BY <1>3

LEMMA AcceptArrives ==
  ASSUME NEW f, HandleFragment(f)
  PROVE  arrived' = arrived \cup {f}
  BY DEF HandleFragment, DropMalformed, RejectIndex, AcceptFragment, Received
=============================================================================
