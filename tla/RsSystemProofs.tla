--------------------------- MODULE RsSystemProofs ---------------------------
(***************************************************************************)
(* Theorems about the Reed-Solomon data path, for every size of a          *)
(* generation, of the table and of the id space, and for every loss,       *)
(* duplication and interleaving of the two paths.  First those about the   *)
(* processing host alone, for every sequence of packet lengths and every   *)
(* failed send; what the receiver preserves is taken from                  *)
(* RsReceiverProofs.                                                       *)
(***************************************************************************)
EXTENDS RsSystem, FiniteSetTheorems, WellFoundedInduction, TLAPS

-----------------------------------------------------------------------------
(* The processing host                                                     *)

\* The generations that got their last packet.
Finished == {o \in 1 .. cur.origin : <<o, K - 1>> \in packets}

\* The generation that takes packets has got exactly those below its count.
Filling ==
  /\ cur \in Generation
  /\ "completed" \in DOMAIN gwStats
  /\ cur.count < K
  /\ \A p \in packets : p[1] \in 1 .. cur.origin
  /\ cur.count > 0 =>
       cur.origin > 0 /\ <<cur.origin, K - 1>> \notin packets

Counted == gwStats.completed = Cardinality(Finished)

LEMMA FinishedFinite ==
  ASSUME Filling
  PROVE  IsFiniteSet(Finished) /\ Cardinality(Finished) \in Nat
<1>1. cur.origin \in Int /\ 1 \in Int
  BY DEF Filling, Generation
<1>2. IsFiniteSet(1 .. cur.origin)
  BY <1>1, FS_Interval
<1> QED  BY <1>2, FS_Subset, FS_CardinalityType DEF Finished

\* The generation a packet goes to has room for it and has not got its last.
LEMMA Receiving ==
  ASSUME Filling, NEW len \in Nat
  PROVE  LET g == GenerationFor(len)
         IN  /\ g \in Generation
             /\ g.count < K
             /\ g.origin \in Nat \ {0}
             /\ <<g.origin, K - 1>> \notin packets
             /\ g.origin = cur.origin \/ g.origin = cur.origin + 1
<1> DEFINE new == [id |-> NextId(len), origin |-> cur.origin + 1, count |-> 0,
                   len |-> len]
<1>0. cur \in Generation /\ cur.origin \in Nat /\ cur.id \in Nat
      /\ cur.count \in Nat
  BY DEF Filling, Generation
<1>1. CASE BeginsGeneration(len)
  <2>1. GenerationFor(len) = new
    BY <1>1 DEF GenerationFor
  <2>2. (cur.id + 1) % IdSpace \in Nat
    BY <1>0, RsGatewayAssumption DEF RsGatewayAssumption
  <2>3. new \in Generation
    BY <1>0, <2>2 DEF NextId, Generation
  <2>4. <<cur.origin + 1, K - 1>> \notin packets
    <3>1. ASSUME <<cur.origin + 1, K - 1>> \in packets
          PROVE  FALSE
      <4>1. <<cur.origin + 1, K - 1>>[1] \in 1 .. cur.origin
        BY <3>1 DEF Filling
      <4> QED  BY <1>0, <4>1
    <3> QED  BY <3>1
  <2> QED  BY <1>0, <2>1, <2>3, <2>4, RsGatewayAssumption
           DEF RsGatewayAssumption
<1>2. CASE ~BeginsGeneration(len)
  <2>1. GenerationFor(len) = cur /\ cur.count > 0
    BY <1>0, <1>2 DEF GenerationFor, BeginsGeneration
  <2> QED  BY <1>0, <2>1 DEF Filling
<1> QED  BY <1>1, <1>2

LEMMA TakePacketKeeps ==
  ASSUME Filling, Counted, NEW len \in Nat, TakePacket(len)
  PROVE  Filling' /\ Counted'
<1> DEFINE g == GenerationFor(len)
<1>1. /\ cur' = AfterPacket(g)
      /\ packets' = packets \cup {<<g.origin, g.count>>}
      /\ "completed" \in DOMAIN gwStats'
      /\ gwStats'.completed =
           gwStats.completed + IF g.count + 1 = K THEN 1 ELSE 0
  BY DEF TakePacket
<1>2. /\ g \in Generation /\ g.count < K
      /\ g.origin \in Nat \ {0} /\ <<g.origin, K - 1>> \notin packets
      /\ g.origin = cur.origin \/ g.origin = cur.origin + 1
  BY Receiving
<1> HIDE DEF g
<1>3. /\ K \in Nat \ {0} /\ cur.origin \in Nat
      /\ g.count \in Nat /\ g.origin \in Nat
  BY <1>2, RsGatewayAssumption DEF RsGatewayAssumption, Filling, Generation
<1>4. /\ cur' \in Generation /\ cur'.origin = g.origin
      /\ cur'.count = IF g.count + 1 = K THEN 0 ELSE g.count + 1
  <2>1. CASE g.count + 1 = K
    BY <1>1, <1>2, <2>1 DEF AfterPacket, Generation
  <2>2. CASE g.count + 1 # K
    BY <1>1, <1>2, <1>3, <2>2 DEF AfterPacket, Generation
  <2> QED  BY <2>1, <2>2
<1>5. Filling'
  <2>1. cur'.count < K
    BY <1>2, <1>3, <1>4
  <2>2. ASSUME NEW p \in packets'
        PROVE  p[1] \in 1 .. cur'.origin
    <3>1. CASE p \in packets
      <4>1. p[1] \in 1 .. cur.origin
        BY <3>1 DEF Filling
      <4> QED  BY <1>2, <1>3, <1>4, <4>1
    <3>2. CASE p = <<g.origin, g.count>>
      BY <1>2, <1>3, <1>4, <3>2
    <3> QED  BY <1>1, <2>2, <3>1, <3>2
  <2>3. cur'.count > 0 => <<cur'.origin, K - 1>> \notin packets'
    <3> SUFFICES ASSUME cur'.count > 0
                 PROVE  <<cur'.origin, K - 1>> \notin packets'
      OBVIOUS
    <3>1. g.count # K - 1
      BY <1>3, <1>4
    <3>2. <<g.origin, K - 1>> # <<g.origin, g.count>>
      BY <3>1
    <3> QED  BY <1>1, <1>2, <1>4, <3>2
  <2> QED  BY <1>1, <1>2, <1>4, <2>1, <2>2, <2>3 DEF Filling
<1>6. \A o \in 1 .. g.origin : <<o, K - 1>> \in packets <=> o \in Finished
  <2> SUFFICES ASSUME NEW o \in 1 .. g.origin, <<o, K - 1>> \in packets
               PROVE  o \in 1 .. cur.origin
    BY <1>2, <1>3 DEF Finished
  <2>1. <<o, K - 1>>[1] \in 1 .. cur.origin
    BY DEF Filling
  <2> QED  BY <2>1
<1>7. g.origin \notin Finished
  BY <1>2 DEF Finished
<1>8. CASE g.count + 1 = K
  <2>1. Finished' = Finished \cup {g.origin}
    <3>1. packets' = packets \cup {<<g.origin, K - 1>>}
      BY <1>1, <1>3, <1>8
    <3>2. g.origin \in 1 .. g.origin /\ Finished \subseteq 1 .. g.origin
      BY <1>2, <1>3 DEF Finished
    <3>3. \A o \in 1 .. g.origin :
            <<o, K - 1>> \in packets' <=> o \in Finished \/ o = g.origin
      <4>1. \A o : <<o, K - 1>> = <<g.origin, K - 1>> <=> o = g.origin
        OBVIOUS
      <4> QED  BY <1>6, <3>1, <4>1
    <3> QED  BY <1>4, <3>2, <3>3 DEF Finished
  <2>2. Cardinality(Finished') = Cardinality(Finished) + 1
    BY <1>7, <2>1, FinishedFinite, FS_AddElement
  <2> QED  BY <1>1, <1>5, <1>8, <2>2 DEF Counted
<1>9. CASE g.count + 1 # K
  <2>1. Finished' = Finished
    <3>1. \A o : <<o, K - 1>> # <<g.origin, g.count>>
      <4>1. g.count # K - 1
        BY <1>3, <1>9
      <4> QED  BY <4>1
    <3>2. Finished \subseteq 1 .. g.origin
      BY <1>2, <1>3 DEF Finished
    <3>3. \A o \in 1 .. g.origin : <<o, K - 1>> \in packets' <=> o \in Finished
      BY <1>1, <1>6, <3>1
    <3> QED  BY <1>4, <3>2, <3>3 DEF Finished
  <2>2. gwStats'.completed = gwStats.completed
    BY <1>1, <1>9, FinishedFinite DEF Counted
  <2> QED  BY <1>5, <2>1, <2>2 DEF Counted
<1> QED  BY <1>8, <1>9

LEMMA FillingInit == GwInit => Filling /\ Counted
<1> SUFFICES ASSUME GwInit
             PROVE  Filling /\ Counted
  OBVIOUS
<1>1. Filling
  BY RsGatewayAssumption
     DEF GwInit, Filling, Generation, RsGatewayAssumption
<1>2. Finished = {}
  BY DEF GwInit, Finished
<1>3. gwStats.completed = 0
  BY DEF GwInit
<1> QED  BY <1>1, <1>2, <1>3, FS_EmptySet DEF Counted

LEMMA FillingStep ==
  (Filling /\ Counted) /\ [GwNext]_gwVars => (Filling /\ Counted)'
<1> SUFFICES ASSUME Filling, Counted, [GwNext]_gwVars
             PROVE  Filling' /\ Counted'
  OBVIOUS
<1>1. ASSUME UNCHANGED <<cur, packets>>,
             "completed" \in DOMAIN gwStats',
             gwStats'.completed = gwStats.completed
      PROVE  Filling' /\ Counted'
  BY <1>1 DEF Filling, Counted, Finished
<1>2. CASE StopGateway \/ UNCHANGED gwVars
  <2>1. UNCHANGED <<cur, packets, gwStats>>
    BY <1>2 DEF StopGateway, gwVars
  <2> QED  BY <1>1, <2>1 DEF Filling
<1>3. ASSUME NEW len \in Lengths, IgnorePacket(len)
      PROVE  Filling' /\ Counted'
  <2>1. /\ UNCHANGED <<cur, packets>>
        /\ gwStats' = [gwStats EXCEPT !.intercepted = @ + 1]
    BY <1>3 DEF IgnorePacket
  <2>2. /\ "completed" \in DOMAIN gwStats'
        /\ gwStats'.completed = gwStats.completed
    BY <2>1 DEF Filling
  <2> QED  BY <1>1, <2>1, <2>2
<1>4. ASSUME NEW len \in Lengths, TakePacket(len)
      PROVE  Filling' /\ Counted'
  <2>1. len \in Nat
    BY RsGatewayAssumption DEF RsGatewayAssumption
  <2> QED  BY <1>4, <2>1, TakePacketKeeps
<1> QED  BY <1>2, <1>3, <1>4 DEF GwNext, InterceptPacket

\* Whatever lengths the packets have and however sends fail, a generation has
\* room for the packet it is about to take, so the forced flush on overflow is
\* never reached, and the generations counted as completed are the full ones.
THEOREM GenerationsHaveRoom == GwSpec => []RoomInGeneration
<1>1. Filling /\ Counted => RoomInGeneration
  BY DEF Filling, Counted, Finished, RoomInGeneration
<1> QED  BY <1>1, FillingInit, FillingStep, PTL DEF GwSpec

-----------------------------------------------------------------------------
(* What is in flight *)

GwFragment ==
  [origin : Nat, id : Nat, len : Nat, index : Nat, type : {"data", "parity"},
   fits : BOOLEAN]

Whole(o, P) == {o} \X (0 .. K - 1) \subseteq P

\* A fragment the gateway may have made of the packets P.
Genuine(f, P) ==
  /\ f \in GwFragment
  /\ f.origin > 0 /\ f.id = f.origin % IdSpace /\ f.fits
  /\ f.len \in Lengths /\ f.len \in 1 .. MaxPktLen
  /\ f.type = "data" => f.index < K /\ <<f.origin, f.index>> \in P
  /\ f.type = "parity" =>
       f.index \in K .. K + Repairs - 1 /\ Whole(f.origin, P)

\* Made before the fragment with index n of generation o.
Below(f, o, n) == f.origin < o \/ (f.origin = o /\ f.index < n)

Made(ws, o, n, P) ==
  \A p \in Ifaces : \A j \in 1 .. Len(ws[p]) :
    Genuine(ws[p][j], P) /\ Below(ws[p][j], o, n)
Rising(ws) ==
  \A p \in Ifaces : \A j \in 1 .. Len(ws[p]) : \A i \in 1 .. j - 1 :
    Below(ws[p][i], ws[p][j].origin, ws[p][j].index)
InFlight(ws, o, n, P) ==
  /\ ws \in [Ifaces -> Seq(GwFragment)]
  /\ Made(ws, o, n, P)
  /\ Rising(ws)

\* Nothing made before a fragment was made after a later one.
LEMMA InFlightWeakens ==
  ASSUME NEW ws, NEW o \in Nat, NEW n \in Nat, NEW P, InFlight(ws, o, n, P),
         NEW u \in Nat, NEW m \in Nat, o < u \/ (o = u /\ n <= m),
         NEW R, P \subseteq R
  PROVE  InFlight(ws, u, m, R)
<1>1. ASSUME NEW p \in Ifaces, NEW j \in 1 .. Len(ws[p])
      PROVE  Genuine(ws[p][j], R) /\ Below(ws[p][j], u, m)
  <2> DEFINE f == ws[p][j]
  <2>1. Genuine(f, P) /\ Below(f, o, n)
    BY DEF InFlight, Made
  <2> HIDE DEF f
  <2>2. f.origin \in Nat /\ f.index \in Nat
    BY <2>1 DEF Genuine, GwFragment
  <2>3. Below(f, u, m)
    BY <2>1, <2>2 DEF Below
  <2>4. Genuine(f, R)
    BY <2>1 DEF Genuine, Whole
  <2> QED  BY <2>3, <2>4 DEF f
<1> QED  BY <1>1 DEF InFlight, Made

Put(ws, p, f) == [ws EXCEPT ![p] = Append(@, f)]

\* The wires vs are ws with at most f put behind what p carried.
PutBehind(ws, vs, p, f) ==
  /\ vs \in [Ifaces -> Seq(GwFragment)]
  /\ \A q \in Ifaces :
       /\ Len(ws[q]) \in Nat
       /\ \A j \in 1 .. Len(vs[q]) :
            \/ j \in 1 .. Len(ws[q]) /\ vs[q][j] = ws[q][j]
            \/ q = p /\ j = Len(ws[p]) + 1 /\ vs[q][j] = f

LEMMA WirePut ==
  ASSUME NEW ws \in [Ifaces -> Seq(GwFragment)], NEW p \in Ifaces,
         NEW f \in GwFragment
  PROVE  PutBehind(ws, Put(ws, p, f), p, f)
<1> DEFINE vs == Put(ws, p, f)
<1>1. ws[p] \in Seq(GwFragment) /\ vs[p] = Append(ws[p], f)
  BY DEF Put
<1>2. /\ Append(ws[p], f) \in Seq(GwFragment)
      /\ Len(ws[p]) \in Nat /\ Len(Append(ws[p], f)) = Len(ws[p]) + 1
      /\ \A j \in 1 .. Len(ws[p]) : Append(ws[p], f)[j] = ws[p][j]
      /\ Append(ws[p], f)[Len(ws[p]) + 1] = f
  BY <1>1
<1>3. ASSUME NEW q \in Ifaces, q # p
      PROVE  vs[q] = ws[q] /\ Len(ws[q]) \in Nat
  BY <1>3 DEF Put
<1>4. vs \in [Ifaces -> Seq(GwFragment)]
  BY <1>2 DEF Put
<1> HIDE DEF vs
<1>5. ASSUME NEW q \in Ifaces, NEW j \in 1 .. Len(vs[q])
      PROVE  \/ j \in 1 .. Len(ws[q]) /\ vs[q][j] = ws[q][j]
             \/ q = p /\ j = Len(ws[p]) + 1 /\ vs[q][j] = f
  <2>1. CASE q = p
    <3>1. j \in 1 .. Len(ws[p]) + 1
      BY <1>1, <1>2, <2>1
    <3>2. j \in 1 .. Len(ws[p]) \/ j = Len(ws[p]) + 1
      BY <1>2, <3>1
    <3> QED  BY <1>1, <1>2, <2>1, <3>2
  <2>2. CASE q # p
    BY <1>3, <1>5, <2>2
  <2> QED  BY <2>1, <2>2
<1>6. \A q \in Ifaces : Len(ws[q]) \in Nat
  BY <1>2, <1>3
<1>7. PutBehind(ws, vs, p, f)
  BY <1>4, <1>5, <1>6 DEF PutBehind
<1> QED  BY <1>7 DEF vs

\* Sending the fragment with the next index, whether it gets out or not.
LEMMA SendKeeps ==
  ASSUME NEW o \in Nat, NEW n \in Nat, NEW P, NEW ws, InFlight(ws, o, n, P),
         NEW f, Genuine(f, P), f.origin = o, f.index = n, NEW sent
  PROVE  InFlight(Send(ws, f, sent), o, n + 1, P)
<1> DEFINE p == PathOf(f)
           vs == Put(ws, p, f)
<1>1. p \in Ifaces /\ f \in GwFragment /\ n + 1 \in Nat /\ n <= n + 1
  BY DEF PathOf, Ifaces, Genuine
<1>2. ws \in [Ifaces -> Seq(GwFragment)]
  BY DEF InFlight
<1>3. /\ vs \in [Ifaces -> Seq(GwFragment)]
      /\ \A q \in Ifaces :
           /\ Len(ws[q]) \in Nat
           /\ \A j \in 1 .. Len(vs[q]) :
                \/ j \in 1 .. Len(ws[q]) /\ vs[q][j] = ws[q][j]
                \/ q = p /\ j = Len(ws[p]) + 1 /\ vs[q][j] = f
  <2>1. PutBehind(ws, vs, p, f)
    <3> HIDE DEF p
    <3> QED  BY <1>1, <1>2, WirePut
  <2> HIDE DEF vs, p
  <2> QED  BY <2>1 DEF PutBehind
<1>4. InFlight(ws, o, n + 1, P)
  BY <1>1, InFlightWeakens
<1>5. CASE f \in sent
  <2>1. Send(ws, f, sent) = vs
    BY <1>5 DEF Send, Put
  <2> HIDE DEF vs, p
  <2>2. Below(f, o, n + 1)
    BY DEF Below
  <2>3. Made(vs, o, n + 1, P)
    <3> SUFFICES ASSUME NEW q \in Ifaces, NEW j \in 1 .. Len(vs[q])
                 PROVE  Genuine(vs[q][j], P) /\ Below(vs[q][j], o, n + 1)
      BY DEF Made
    <3>1. CASE j \in 1 .. Len(ws[q]) /\ vs[q][j] = ws[q][j]
      BY <1>4, <3>1 DEF InFlight, Made
    <3>2. CASE vs[q][j] = f
      BY <2>2, <3>2
    <3> QED  BY <1>3, <3>1, <3>2
  <2>4. Rising(vs)
    <3> SUFFICES ASSUME NEW q \in Ifaces, NEW j \in 1 .. Len(vs[q]),
                        NEW i \in 1 .. j - 1
                 PROVE  Below(vs[q][i], vs[q][j].origin, vs[q][j].index)
      BY DEF Rising
    <3>0. /\ Len(ws[q]) \in Nat /\ Len(ws[p]) \in Nat
          /\ vs[q] \in Seq(GwFragment)
      BY <1>1, <1>3
    <3>1. i \in 1 .. Len(vs[q]) /\ i < j
      <4>1. Len(vs[q]) \in Nat
        BY <3>0
      <4> QED  BY <4>1
    <3>2. i \in 1 .. Len(ws[q]) /\ vs[q][i] = ws[q][i]
      <4>1. \/ i \in 1 .. Len(ws[q]) /\ vs[q][i] = ws[q][i]
            \/ q = p /\ i = Len(ws[p]) + 1
        BY <1>3, <3>1
      <4>2. j \in 1 .. Len(ws[q]) \/ (q = p /\ j = Len(ws[p]) + 1)
        BY <1>3
      <4> QED  BY <3>0, <3>1, <4>1, <4>2
    <3>3. CASE j \in 1 .. Len(ws[q]) /\ vs[q][j] = ws[q][j]
      BY <3>2, <3>3 DEF InFlight, Rising
    <3>4. CASE vs[q][j] = f
      BY <3>2, <3>4 DEF InFlight, Made
    <3> QED  BY <1>3, <3>3, <3>4
  <2> QED  BY <1>3, <2>1, <2>3, <2>4 DEF InFlight
<1>6. CASE f \notin sent
  BY <1>4, <1>6 DEF Send
<1> QED  BY <1>5, <1>6

-----------------------------------------------------------------------------
(* Sending one fragment after another *)

\* Induction: a set of naturals with zero and all successors has them all.
LEMMA NatSetInduction ==
  ASSUME NEW S, 0 \in S, \A n \in Nat : n \in S => n + 1 \in S
  PROVE  Nat \subseteq S
<1> SUFFICES ASSUME Nat \ S # {}
             PROVE  FALSE
  OBVIOUS
<1> DEFINE T == Nat \ S
<1>1. PICK x \in T : \A y \in T : ~(<<y, x>> \in OpToRel(<, Nat))
  BY NatLessThanWellFounded, WFMin, Zenon
<1>2. x # 0 /\ x \in Nat
  OBVIOUS
<1>3. x - 1 \in T
  BY <1>2
<1>4. <<x - 1, x>> \in OpToRel(<, Nat)
  <2>1. x - 1 \in Nat /\ x - 1 < x
    BY <1>2
  <2> QED BY <1>2, <2>1 DEF OpToRel
<1> QED  BY <1>1, <1>3, <1>4

AfterStep(A, w, frs, sent, n) ==
  IF n = 0 THEN w ELSE Send(A[n - 1], frs[n], sent)
After(w, frs, sent) ==
  CHOOSE A : A = [n \in 0 .. Len(frs) |-> AfterStep(A, w, frs, sent, n)]

LEMMA SendEachIsAfter ==
  ASSUME NEW frs, NEW sent
  PROVE  SendEach(frs, sent) = After(wire, frs, sent)[Len(frs)]
  BY DEF SendEach, After, AfterStep

\* The recursion of SendEach has a solution.
LEMMA AfterExists ==
  ASSUME NEW w, NEW frs, NEW sent, Len(frs) \in Nat
  PROVE  After(w, frs, sent) =
           [n \in 0 .. Len(frs) |->
              AfterStep(After(w, frs, sent), w, frs, sent, n)]
<1> DEFINE Solves(A, m) ==
             A = [n \in 0 .. m |-> AfterStep(A, w, frs, sent, n)]
           M == {m \in Nat : \E A : Solves(A, m)}
<1>1. 0 \in M
  <2> DEFINE A == [n \in 0 .. 0 |-> w]
  <2>1. Solves(A, 0)
    BY DEF AfterStep
  <2> QED  BY <2>1
<1>2. ASSUME NEW m \in Nat, m \in M
      PROVE  m + 1 \in M
  <2>1. PICK A : Solves(A, m)
    BY <1>2
  <2> DEFINE B == [n \in 0 .. m + 1 |-> AfterStep(A, w, frs, sent, n)]
  <2>2. \A n \in 0 .. m : A[n] = B[n]
    <3>1. \A n \in 0 .. m : A[n] = AfterStep(A, w, frs, sent, n)
      BY <2>1, Zenon
    <3>2. \A n \in 0 .. m : n \in 0 .. m + 1
      OBVIOUS
    <3> QED  BY <3>1, <3>2
  <2>3. ASSUME NEW n \in 0 .. m + 1
        PROVE  AfterStep(A, w, frs, sent, n) = AfterStep(B, w, frs, sent, n)
    <3>1. CASE n = 0
      BY <3>1 DEF AfterStep
    <3>2. CASE n # 0
      <4>1. n - 1 \in 0 .. m
        BY <3>2
      <4>2. A[n - 1] = B[n - 1]
        BY <2>2, <4>1
      <4> HIDE DEF B
      <4> QED  BY <3>2, <4>2 DEF AfterStep
    <3> QED  BY <3>1, <3>2
  <2>4. Solves(B, m + 1)
    <3>1. B = [n \in 0 .. m + 1 |-> AfterStep(B, w, frs, sent, n)]
      BY <2>3, Zenon
    <3> QED  BY <3>1
  <2> HIDE DEF B
  <2>5. m + 1 \in Nat
    OBVIOUS
  <2> QED  BY <2>4, <2>5
<1>3. Nat \subseteq M
  <2> HIDE DEF M
  <2> QED  BY <1>1, <1>2, NatSetInduction
<1>4. PICK A : Solves(A, Len(frs))
  BY <1>3
<1>5. A = [n \in 0 .. Len(frs) |-> AfterStep(A, w, frs, sent, n)]
  BY <1>4
<1> QED  BY <1>5, Zenon DEF After

LEMMA AfterUnfolds ==
  ASSUME NEW w, NEW frs, NEW sent, Len(frs) \in Nat
  PROVE  \A n \in 0 .. Len(frs) :
           After(w, frs, sent)[n] =
             AfterStep(After(w, frs, sent), w, frs, sent, n)
<1>1. ASSUME NEW A, NEW N, A = [n \in N |-> AfterStep(A, w, frs, sent, n)]
      PROVE  \A n \in N : A[n] = AfterStep(A, w, frs, sent, n)
  BY <1>1, Zenon
<1> DEFINE A == After(w, frs, sent)
<1>2. A = [n \in 0 .. Len(frs) |-> AfterStep(A, w, frs, sent, n)]
  BY AfterExists
<1> HIDE DEF A
<1>3. \A n \in 0 .. Len(frs) : A[n] = AfterStep(A, w, frs, sent, n)
  BY <1>1, <1>2, Zenon
<1> QED  BY <1>3 DEF A

\* Fragments of one generation with rising indices, one by one.
LEMMA SendEachKeeps ==
  ASSUME NEW o \in Nat, NEW i \in Nat, NEW P, InFlight(wire, o, i, P),
         NEW frs, Len(frs) \in Nat,
         \A n \in 1 .. Len(frs) :
           Genuine(frs[n], P) /\ frs[n].origin = o /\ frs[n].index = i + n - 1,
         NEW sent
  PROVE  InFlight(SendEach(frs, sent), o, i + Len(frs), P)
<1> DEFINE A == After(wire, frs, sent)
           M == {m \in Nat : m \in 0 .. Len(frs) => InFlight(A[m], o, i + m, P)}
<1>1. \A m \in 0 .. Len(frs) : A[m] = AfterStep(A, wire, frs, sent, m)
  BY AfterUnfolds
<1> HIDE DEF A
<1>2. 0 \in M
  <2>1. A[0] = wire /\ i + 0 = i
    BY <1>1 DEF AfterStep
  <2> QED  BY <2>1
<1>3. ASSUME NEW m \in Nat, m \in M
      PROVE  m + 1 \in M
  <2>0. m + 1 \in Nat
    OBVIOUS
  <2> SUFFICES ASSUME m + 1 \in 0 .. Len(frs)
               PROVE  InFlight(A[m + 1], o, i + (m + 1), P)
    BY <2>0
  <2>1. /\ m \in 0 .. Len(frs) /\ m + 1 # 0 /\ (m + 1) - 1 = m
        /\ m + 1 \in 1 .. Len(frs) /\ i + (m + 1) - 1 = i + m
        /\ i + m \in Nat /\ i + (m + 1) = (i + m) + 1
    OBVIOUS
  <2>2. A[m + 1] = Send(A[m], frs[m + 1], sent)
    BY <1>1, <2>1 DEF AfterStep
  <2>3. InFlight(A[m], o, i + m, P)
    BY <1>3, <2>1
  <2>4. /\ Genuine(frs[m + 1], P) /\ frs[m + 1].origin = o
        /\ frs[m + 1].index = i + m
    BY <2>1
  <2> HIDE DEF M
  <2>5. InFlight(A[m + 1], o, (i + m) + 1, P)
    BY <2>1, <2>2, <2>3, <2>4, SendKeeps
  <2> QED  BY <2>1, <2>5
<1>4. Nat \subseteq M
  <2> HIDE DEF M
  <2> QED  BY <1>2, <1>3, NatSetInduction
<1>5. InFlight(A[Len(frs)], o, i + Len(frs), P)
  BY <1>4
<1> QED  BY <1>5, SendEachIsAfter DEF A

-----------------------------------------------------------------------------
(* What one packet gives rise to *)

\* g may send its fragment with index i, the packets P being in generations.
Sending(g, i, P) ==
  /\ g \in Generation /\ g.origin > 0 /\ g.id = g.origin % IdSpace
  /\ g.len \in Lengths /\ g.len \in 1 .. MaxPktLen
  /\ i \in 0 .. K - 1
  /\ \A j \in 0 .. i : <<g.origin, j>> \in P

LEMMA DataIsGenuine ==
  ASSUME NEW g, NEW i, NEW P, Sending(g, i, P)
  PROVE  LET f == DataFragment(g, i)
         IN  /\ Genuine(f, P) /\ f.origin = g.origin /\ f.index = i
             /\ f.type = "data" /\ f.len = g.len
<1> DEFINE f == DataFragment(g, i)
<1>1. /\ f.origin = g.origin /\ f.id = g.id /\ f.len = g.len /\ f.index = i
      /\ f.type = "data" /\ f.fits = TRUE /\ i \in Nat /\ i < K
      /\ <<g.origin, i>> \in P
  BY RsGatewayAssumption DEF DataFragment, Sending, RsGatewayAssumption
<1>2. f \in GwFragment
  BY <1>1 DEF DataFragment, GwFragment, Sending, Generation
<1> HIDE DEF f
<1>3. Genuine(f, P)
  BY <1>1, <1>2 DEF Genuine, Sending
<1> QED  BY <1>1, <1>3 DEF f

LEMMA ParityIsGenuine ==
  ASSUME NEW g, NEW i, NEW P, Sending(g, i, P), i + 1 = K,
         NEW p \in 0 .. Repairs - 1
  PROVE  LET f == ParityFragment(g, p)
         IN  /\ Genuine(f, P) /\ f.origin = g.origin /\ f.index = K + p
             /\ f.type = "parity" /\ f.len = g.len
<1> DEFINE f == ParityFragment(g, p)
<1>0. K \in Nat \ {0} /\ Repairs \in Nat
  BY RsGatewayAssumption DEF RsGatewayAssumption
<1>1. /\ f.origin = g.origin /\ f.id = g.id /\ f.len = g.len
      /\ f.index = K + p /\ f.type = "parity" /\ f.fits = TRUE
      /\ K + p \in Nat /\ K + p \in K .. K + Repairs - 1
  BY <1>0 DEF ParityFragment, DataFragment
<1>2. f \in GwFragment
  BY <1>0, <1>1 DEF ParityFragment, DataFragment, GwFragment, Sending, Generation
<1> HIDE DEF f
<1>3. Whole(g.origin, P)
  <2>1. \A j \in 0 .. K - 1 : j \in 0 .. i
    BY <1>0 DEF Sending
  <2> QED  BY <2>1 DEF Whole, Sending
<1>4. Genuine(f, P)
  BY <1>1, <1>2, <1>3 DEF Genuine, Sending
<1> QED  BY <1>1, <1>4 DEF f

\* The fragments a packet gives rise to have rising indices.
LEMMA EmittedRises ==
  ASSUME NEW g, NEW i, NEW P, Sending(g, i, P)
  PROVE  LET frs == Emitted(g, i)
         IN  /\ Len(frs) \in Nat \ {0}
             /\ DOMAIN frs = 1 .. Len(frs)
             /\ i + 1 # K => Len(frs) = 1
             /\ \A n \in 1 .. Len(frs) :
                  /\ Genuine(frs[n], P) /\ frs[n].origin = g.origin
                  /\ frs[n].index = i + n - 1 /\ frs[n].len = g.len
<1> DEFINE d == DataFragment(g, i)
           ps == IF i + 1 = K
                 THEN [p \in 1 .. Repairs |-> ParityFragment(g, p - 1)]
                 ELSE <<>>
           frs == <<d>> \o ps
<1>0. K \in Nat \ {0} /\ Repairs \in Nat /\ i \in Nat
  BY RsGatewayAssumption DEF RsGatewayAssumption, Sending
<1>1. /\ Genuine(d, P) /\ d.origin = g.origin /\ d.index = i /\ d.len = g.len
  BY DataIsGenuine
<1>2. /\ ps \in Seq(GwFragment) /\ Len(ps) \in Nat
      /\ i + 1 # K => Len(ps) = 0
      /\ \A n \in 1 .. Len(ps) :
           /\ Genuine(ps[n], P) /\ ps[n].origin = g.origin
           /\ ps[n].index = i + n /\ ps[n].len = g.len
  <2>1. CASE i + 1 = K
    <3>1. ASSUME NEW n \in 1 .. Repairs
          PROVE  /\ ParityFragment(g, n - 1) \in GwFragment
                 /\ Genuine(ParityFragment(g, n - 1), P)
                 /\ ParityFragment(g, n - 1).origin = g.origin
                 /\ ParityFragment(g, n - 1).len = g.len
                 /\ ParityFragment(g, n - 1).index = i + n
      <4>1. n - 1 \in 0 .. Repairs - 1 /\ K + (n - 1) = i + n
        BY <1>0, <2>1
      <4>2. LET f == ParityFragment(g, n - 1)
            IN  /\ Genuine(f, P) /\ f.origin = g.origin /\ f.index = K + (n - 1)
                /\ f.type = "parity" /\ f.len = g.len
        BY <2>1, <4>1, ParityIsGenuine
      <4> QED  BY <4>1, <4>2 DEF Genuine
    <3>2. ps = [p \in 1 .. Repairs |-> ParityFragment(g, p - 1)]
      BY <2>1
    <3> HIDE DEF ps
    <3>3. ps \in Seq(GwFragment) /\ Len(ps) = Repairs
      BY <1>0, <3>1, <3>2
    <3>4. \A n \in 1 .. Repairs : ps[n] = ParityFragment(g, n - 1)
      BY <3>2
    <3>5. Len(ps) \in Nat
      BY <1>0, <3>3
    <3>6. ASSUME NEW n \in 1 .. Len(ps)
          PROVE  /\ Genuine(ps[n], P) /\ ps[n].origin = g.origin
                 /\ ps[n].index = i + n /\ ps[n].len = g.len
      <4>1. n \in 1 .. Repairs
        BY <3>3
      <4>2. ps[n] = ParityFragment(g, n - 1)
        BY <3>4, <4>1
      <4> QED  BY <3>1, <4>1, <4>2
    <3> QED  BY <2>1, <3>3, <3>5, <3>6
  <2>2. CASE i + 1 # K
    BY <2>2
  <2> QED  BY <2>1, <2>2
<1> HIDE DEF d, ps
<1>3. /\ frs \in Seq(GwFragment) /\ Len(frs) = Len(ps) + 1
      /\ frs[1] = d
      /\ \A n \in 2 .. Len(ps) + 1 : frs[n] = ps[n - 1]
  <2>1. d \in GwFragment
    BY <1>1 DEF Genuine
  <2> QED  BY <1>2, <2>1
<1> HIDE DEF frs
<1>4. DOMAIN frs = 1 .. Len(frs) /\ Len(frs) \in Nat \ {0}
  BY <1>2, <1>3
<1>5. ASSUME NEW n \in 1 .. Len(frs)
      PROVE  /\ Genuine(frs[n], P) /\ frs[n].origin = g.origin
             /\ frs[n].index = i + n - 1 /\ frs[n].len = g.len
  <2>1. CASE n = 1
    BY <1>0, <1>1, <1>3, <2>1
  <2>2. CASE n # 1
    <3>1. n \in 2 .. Len(ps) + 1 /\ n - 1 \in 1 .. Len(ps)
      BY <1>2, <1>3, <2>2
    <3>2. frs[n] = ps[n - 1] /\ i + n - 1 = i + (n - 1)
      BY <1>0, <1>3, <3>1
    <3> QED  BY <1>2, <3>1, <3>2
  <2> QED  BY <2>1, <2>2
<1>6. i + 1 # K => Len(frs) = 1
  BY <1>2, <1>3
<1>7. frs = Emitted(g, i)
  BY DEF Emitted, frs, d, ps
<1> QED  BY <1>4, <1>5, <1>6, <1>7

\* The successor may be taken before or after the remainder.
LEMMA DivMod ==
  ASSUME NEW x \in Nat, NEW M \in Nat \ {0}
  PROVE  /\ x = (M * (x \div M)) + (x % M)
         /\ x % M \in 0 .. M - 1 /\ x \div M \in Nat
  OBVIOUS

LEMMA ModUnique ==
  ASSUME NEW r \in Nat, NEW M \in Nat \ {0}, NEW q \in Nat, r < M
  PROVE  ((M * q) + r) % M = r
  OBVIOUS

LEMMA ModSuccessor ==
  ASSUME NEW x \in Nat, NEW M \in Nat \ {0}
  PROVE  ((x % M) + 1) % M = (x + 1) % M
<1> DEFINE r == x % M
           q == x \div M
<1>1. x = (M * q) + r /\ r \in 0 .. M - 1 /\ q \in Nat
  BY DivMod
<1> HIDE DEF r, q
<1>2. CASE r + 1 < M
  <2>1. x + 1 = (M * q) + (r + 1)
    BY <1>1
  <2>2. (x + 1) % M = r + 1 /\ (r + 1) % M = r + 1
    BY <1>1, <1>2, <2>1, ModUnique
  <2> QED  BY <2>2 DEF r
<1>3. CASE r + 1 = M
  <2>1. x + 1 = (M * (q + 1)) + 0
    BY <1>1, <1>3
  <2>2. (x + 1) % M = 0
    BY <1>1, <1>3, <2>1, ModUnique
  <2>3. (r + 1) % M = 0
    BY <1>1, <1>3
  <2> QED  BY <2>2, <2>3 DEF r
<1> QED  BY <1>1, <1>2, <1>3

-----------------------------------------------------------------------------
(* The fragments leave in order *)

\* Generation whose packet is sent next, if its length stays the same.
NextOrigin == IF cur.count > 0 THEN cur.origin ELSE cur.origin + 1

Flowing ==
  /\ cur.id = cur.origin % IdSpace
  /\ cur.count > 0 =>
       /\ cur.len \in Lengths /\ cur.len \in 1 .. MaxPktLen
       /\ \A j \in 0 .. cur.count - 1 : <<cur.origin, j>> \in packets
  /\ InFlight(wire, NextOrigin, cur.count, packets)

\* The generation a packet goes to, as it is before the packet.
LEMMA ReceivingFlows ==
  ASSUME Filling, Flowing, NEW len \in Lengths, len \in 1 .. MaxPktLen
  PROVE  LET g == GenerationFor(len)
             P == packets \cup {<<g.origin, g.count>>}
         IN  /\ Sending(g, g.count, P)
             /\ InFlight(wire, g.origin, g.count, P)
<1> DEFINE g == GenerationFor(len)
           P == packets \cup {<<g.origin, g.count>>}
           new == [id |-> NextId(len), origin |-> cur.origin + 1, count |-> 0,
                   len |-> len]
<1>0. /\ K \in Nat \ {0} /\ IdSpace \in Nat \ {0} /\ len \in Nat
      /\ cur.origin \in Nat /\ cur.count \in Nat /\ cur.count < K
  BY RsGatewayAssumption DEF RsGatewayAssumption, Filling, Generation
<1>1. /\ g \in Generation /\ g.count < K /\ g.origin \in Nat \ {0}
  BY <1>0, Receiving
<1>2. g.count \in 0 .. K - 1 /\ g.count \in Nat /\ g.origin \in Nat
  BY <1>0, <1>1 DEF Generation
<1>3. CASE BeginsGeneration(len)
  <2>1. g = new
    BY <1>3 DEF GenerationFor
  <2>2. /\ g.id = NextId(len) /\ g.origin = cur.origin + 1 /\ g.count = 0
        /\ g.len = len
    BY <2>1
  <2> HIDE DEF g, new
  <2>3. g.id = g.origin % IdSpace
    BY <1>0, <2>2, ModSuccessor DEF NextId, Flowing
  <2>4. \A j \in 0 .. g.count : <<g.origin, j>> \in P
    <3>1. \A j \in 0 .. g.count : j = g.count
      BY <2>2
    <3> QED  BY <3>1
  <2>5. InFlight(wire, g.origin, g.count, P)
    <3>1. /\ NextOrigin \in Nat
          /\ NextOrigin < g.origin \/ (NextOrigin = g.origin /\ cur.count = 0)
      BY <1>0, <2>2 DEF NextOrigin
    <3>2. cur.count = 0 => cur.count <= g.count
      BY <2>2
    <3>3. InFlight(wire, NextOrigin, cur.count, packets)
      BY DEF Flowing
    <3> QED  BY <1>0, <1>2, <3>1, <3>2, <3>3, InFlightWeakens
  <2>6. Sending(g, g.count, P)
    BY <1>1, <1>2, <2>2, <2>3, <2>4 DEF Sending
  <2> QED  BY <2>5, <2>6 DEF g
<1>4. CASE ~BeginsGeneration(len)
  <2>1. g = cur /\ cur.count > 0
    BY <1>0, <1>4 DEF GenerationFor, BeginsGeneration
  <2> HIDE DEF g
  <2>2. \A j \in 0 .. g.count : <<g.origin, j>> \in P
    <3>1. \A j \in 0 .. g.count : j \in 0 .. g.count - 1 \/ j = g.count
      BY <1>2
    <3> QED  BY <2>1, <3>1 DEF Flowing
  <2>3. InFlight(wire, g.origin, g.count, P)
    <3>1. InFlight(wire, g.origin, g.count, packets)
      BY <2>1 DEF Flowing, NextOrigin
    <3> QED  BY <1>2, <3>1, InFlightWeakens
  <2>4. Sending(g, g.count, P)
    BY <1>1, <1>2, <2>1, <2>2 DEF Sending, Flowing
  <2> QED  BY <2>3, <2>4 DEF g
<1> QED  BY <1>3, <1>4

LEMMA TakePacketFlows ==
  ASSUME Filling, Flowing, NEW len \in Lengths, TakePacket(len)
  PROVE  Flowing'
<1>0. len \in 1 .. MaxPktLen
  BY DEF TakePacket
<1>1. PICK g : g = GenerationFor(len)
  OBVIOUS
<1>2. PICK P : P = packets \cup {<<g.origin, g.count>>}
  OBVIOUS
<1>3. PICK frs : frs = Emitted(g, g.count)
  OBVIOUS
<1>4. PICK sent : wire' = SendEach(frs, sent)
  BY <1>1, <1>3 DEF TakePacket
<1>5. cur' = AfterPacket(g) /\ packets' = P
  BY <1>1, <1>2 DEF TakePacket
<1>6. Sending(g, g.count, P) /\ InFlight(wire, g.origin, g.count, P)
  BY <1>0, <1>1, <1>2, ReceivingFlows
<1>7. /\ K \in Nat \ {0} /\ g.origin \in Nat /\ g.count \in Nat
      /\ g \in Generation /\ g.count < K /\ g.count \in 0 .. K - 1
  BY <1>6, RsGatewayAssumption DEF Sending, Generation, RsGatewayAssumption
<1>8. /\ Len(frs) \in Nat \ {0}
      /\ g.count + 1 # K => Len(frs) = 1
      /\ \A n \in 1 .. Len(frs) :
           /\ Genuine(frs[n], P) /\ frs[n].origin = g.origin
           /\ frs[n].index = g.count + n - 1
  BY <1>3, <1>6, EmittedRises
<1>9. InFlight(wire', g.origin, g.count + Len(frs), P)
  BY <1>4, <1>6, <1>7, <1>8, SendEachKeeps
<1>10. CASE g.count + 1 = K
  <2>1. cur'.count = 0 /\ cur'.id = g.id /\ cur'.origin = g.origin
    BY <1>5, <1>7, <1>10 DEF AfterPacket, Generation
  <2>2. InFlight(wire', g.origin + 1, 0, P)
    <3>1. /\ g.count + Len(frs) \in Nat /\ g.origin + 1 \in Nat
          /\ g.origin < g.origin + 1 /\ P \subseteq P
      BY <1>7, <1>8
    <3> QED  BY <1>7, <1>9, <3>1, InFlightWeakens
  <2>3. NextOrigin' = g.origin + 1
    BY <2>1 DEF NextOrigin
  <2>4. /\ cur'.id = cur'.origin % IdSpace /\ ~(cur'.count > 0)
    BY <1>6, <2>1 DEF Sending
  <2> QED  BY <1>5, <2>1, <2>2, <2>3, <2>4 DEF Flowing
<1>11. CASE g.count + 1 # K
  <2>1. /\ cur'.count = g.count + 1 /\ cur'.id = g.id
        /\ cur'.origin = g.origin /\ cur'.len = g.len
    BY <1>5, <1>7, <1>11 DEF AfterPacket, Generation
  <2>2. NextOrigin' = g.origin
    BY <1>7, <2>1 DEF NextOrigin
  <2>3. InFlight(wire', NextOrigin', cur'.count, packets')
    BY <1>5, <1>8, <1>9, <1>11, <2>1, <2>2
  <2>4. \A j \in 0 .. cur'.count - 1 : <<cur'.origin, j>> \in packets'
    <3>1. cur'.count - 1 = g.count
      BY <1>7, <2>1
    <3> QED  BY <1>5, <1>6, <2>1, <3>1 DEF Sending
  <2> QED  BY <1>6, <2>1, <2>3, <2>4 DEF Flowing, Sending
<1> QED  BY <1>10, <1>11

\* What is in flight is what FragmentsInOrder says of the wires.
LEMMA InFlightInOrder ==
  ASSUME NEW o, NEW n, InFlight(wire, o, n, packets)
  PROVE  FragmentsInOrder
<1>1. ASSUME NEW p \in Ifaces
      PROVE  DOMAIN wire[p] = 1 .. Len(wire[p])
  BY DEF InFlight
<1>2. ASSUME NEW p \in Ifaces, NEW j \in DOMAIN wire[p], NEW i \in 1 .. j - 1
      PROVE  \/ wire[p][i].origin < wire[p][j].origin
             \/ /\ wire[p][i].origin = wire[p][j].origin
                /\ wire[p][i].index < wire[p][j].index
  BY <1>1 DEF InFlight, Rising, Below
<1>3. ASSUME NEW p \in Ifaces, NEW j \in DOMAIN wire[p],
             wire[p][j].type = "parity"
      PROVE  {wire[p][j].origin} \X (0 .. K - 1) \subseteq packets
  BY <1>1, <1>3 DEF InFlight, Made, Genuine, Whole
<1> QED  BY <1>2, <1>3 DEF FragmentsInOrder

LEMMA FlowingStep ==
  ASSUME Filling, Flowing, [GwNext]_gwVars
  PROVE  Flowing'
<1>1. CASE UNCHANGED <<cur, wire, packets>>
  BY <1>1 DEF Flowing, NextOrigin
<1>2. ASSUME NEW len \in Lengths, TakePacket(len)
      PROVE  Flowing'
  BY <1>2, TakePacketFlows
<1> QED  BY <1>1, <1>2
         DEF GwNext, InterceptPacket, IgnorePacket, StopGateway, gwVars

LEMMA FlowingInit == GwInit => Flowing
<1> SUFFICES ASSUME GwInit
             PROVE  Flowing
  OBVIOUS
<1>1. /\ cur.id = 0 /\ cur.origin = 0 /\ cur.count = 0
      /\ wire = [p \in Ifaces |-> <<>>]
  BY DEF GwInit
<1>2. 0 % IdSpace = 0
  BY RsGatewayAssumption DEF RsGatewayAssumption
<1>3. /\ wire \in [Ifaces -> Seq(GwFragment)]
      /\ \A p \in Ifaces : Len(wire[p]) = 0
  BY <1>1
<1>4. InFlight(wire, NextOrigin, cur.count, packets)
  BY <1>3 DEF InFlight, Made, Rising
<1> QED  BY <1>1, <1>2, <1>4 DEF Flowing

\* Whatever lengths the packets have and whatever sends fail, on each path the
\* fragments keep the order of generations and of indices, none is there twice,
\* and parities are those of generations that got all their packets.
THEOREM FragmentsLeaveInOrder == GwSpec => []FragmentsInOrder
<1>1. GwInit => Filling /\ Counted
  BY FillingInit
<1>2. (Filling /\ Counted) /\ [GwNext]_gwVars => (Filling /\ Counted)'
  BY FillingStep
<1>3. Filling /\ Flowing /\ [GwNext]_gwVars => Flowing'
  BY FlowingStep
<1>4. Flowing => FragmentsInOrder
  BY InFlightInOrder DEF Flowing
<1> QED  BY <1>1, <1>2, <1>3, <1>4, FlowingInit, PTL DEF GwSpec

-----------------------------------------------------------------------------
(* The data path                                                           *)

\* The receiver of the data path, with what is proved about it.
RxP == INSTANCE RsReceiverProofs WITH
         Origins <- 1 .. MaxIntercepts, Fragments <- AllFragments,
         SendOutcomes <- RxSendOutcomes,
         MaxArrivals <- MaxIntercepts * (K + Repairs) + MaxDups

LEMMA RxAssumptions ==
  /\ /\ 1 .. MaxIntercepts \subseteq Nat
     /\ AllFragments \subseteq RxP!Fragment
  /\ /\ K \in Nat \ {0} /\ Repairs \in Nat /\ MaxGens \in Nat \ {0}
     /\ RxSendOutcomes \subseteq BOOLEAN
     /\ MaxIntercepts * (K + Repairs) + MaxDups \in Nat
<1>1. /\ K \in Nat \ {0} /\ Repairs \in Nat /\ IdSpace \in Nat \ {0}
      /\ MaxPktLen \in Nat /\ MaxIntercepts \in Nat
      /\ MaxGens \in Nat \ {0} /\ MaxDups \in Nat
      /\ RxSendOutcomes \subseteq BOOLEAN
  BY RsGatewayAssumption, RsSystemAssumption
     DEF RsGatewayAssumption, RsSystemAssumption
<1>2. /\ 1 .. MaxIntercepts \subseteq Nat /\ 0 .. IdSpace - 1 \subseteq Nat
      /\ Lengths \cap 1 .. MaxPktLen \subseteq Nat \ {0}
      /\ 0 .. K + Repairs - 1 \subseteq Nat
  BY <1>1
<1>3. AllFragments \subseteq RxP!Fragment
  BY <1>2 DEF AllFragments, RxP!Fragment
<1>4. MaxIntercepts * (K + Repairs) \in Nat
  <2>1. \A a, b \in Nat : a * b \in Nat
    OBVIOUS
  <2> QED  BY <1>1, <2>1
<1> QED  BY <1>1, <1>2, <1>3, <1>4

-----------------------------------------------------------------------------
(* The receiver the system is composed of is the one of RsReceiverProofs:  *)
(* the operators of the two instances agree.                               *)

LEMMA SameHelpers ==
  /\ \A id : Rx!Slot(id) = RxP!Slot(id)
  /\ \A f : Rx!IsData(f) <=> RxP!IsData(f)
  /\ \A f : Rx!IsParity(f) <=> RxP!IsParity(f)
  /\ \A f : Rx!IsKnown(f) <=> RxP!IsKnown(f)
  /\ \A f : Rx!IsReset(f) <=> RxP!IsReset(f)
  /\ \A f : Rx!Received(f) <=> RxP!Received(f)
  /\ \A g : Rx!Present(g) = RxP!Present(g)
  /\ \A g : Rx!Missing(g) = RxP!Missing(g)
  /\ \A g : Rx!AllParity(g) <=> RxP!AllParity(g)
  /\ Rx!Indices = RxP!Indices /\ Rx!ParityIndices = RxP!ParityIndices
  /\ Rx!Packets = RxP!Packets /\ Rx!FreeGen = RxP!FreeGen
  /\ Rx!Garbage = RxP!Garbage
  BY DEF Rx!Slot, RxP!Slot, Rx!IsData, RxP!IsData, Rx!IsParity, RxP!IsParity,
     Rx!IsKnown, RxP!IsKnown, Rx!IsReset, RxP!IsReset, Rx!Received,
     RxP!Received, Rx!Present, RxP!Present, Rx!Missing, RxP!Missing,
     Rx!AllParity, RxP!AllParity, Rx!Indices, RxP!Indices, Rx!ParityIndices,
     RxP!ParityIndices, Rx!Packets, RxP!Packets, Rx!FreeGen, RxP!FreeGen,
     Rx!Absent, RxP!Absent, Rx!Garbage, RxP!Garbage

LEMMA SameOpened ==
  /\ \A f : Rx!Opened(f) = RxP!Opened(f)
  /\ \A f : Rx!CountOpened(f) = RxP!CountOpened(f)
  BY SameHelpers, ZenonT(60) DEF Rx!Opened, RxP!Opened, Rx!NewGen, RxP!NewGen,
     Rx!CountOpened, RxP!CountOpened

LEMMA SameStored ==
  /\ \A g, f : Rx!StoreFragment(g, f) = RxP!StoreFragment(g, f)
  /\ \A c, g, f : Rx!CountStored(c, g, f) = RxP!CountStored(c, g, f)
  /\ \A g : Rx!Forwarded(g) = RxP!Forwarded(g)
  BY SameHelpers, ZenonT(60)
  DEF Rx!StoreFragment, RxP!StoreFragment, Rx!CountStored, RxP!CountStored,
      Rx!Forwarded, RxP!Forwarded, Rx!Absent, RxP!Absent

LEMMA SameDecoded ==
  /\ \A g : Rx!CanDecode(g) <=> RxP!CanDecode(g)
  /\ \A g : Rx!Consumed(g) = RxP!Consumed(g)
  /\ \A g : Rx!Decoded(g) = RxP!Decoded(g)
<1>1. \A g : Rx!CanDecode(g) <=> RxP!CanDecode(g)
  BY SameHelpers DEF Rx!CanDecode, RxP!CanDecode
<1>2. \A g, o : Rx!DecodesTo(g, o) <=> RxP!DecodesTo(g, o)
  <2>1. \A S : Rx!Cardinality(S) = RxP!Cardinality(S)
    BY DEF Rx!Cardinality, RxP!Cardinality
  <2> QED  BY <2>1, SameHelpers DEF Rx!DecodesTo, RxP!DecodesTo
<1>3. \A g : Rx!Recovered(g) = RxP!Recovered(g)
  BY <1>2, SameHelpers DEF Rx!Recovered, RxP!Recovered
<1>4. \A g : Rx!Decoded(g) = RxP!Decoded(g)
  BY <1>1, <1>3, SameHelpers DEF Rx!Decoded, RxP!Decoded, Rx!Absent, RxP!Absent
<1> QED  BY <1>1, <1>4 DEF Rx!Consumed, RxP!Consumed

LEMMA SameCounting ==
  /\ \A c, g : Rx!CountReport(c, g) = RxP!CountReport(c, g)
  /\ \A S : Rx!SendSets(S) = RxP!SendSets(S)
  /\ \A S : Rx!CountOut(S) <=> RxP!CountOut(S)
  BY SameHelpers DEF Rx!CountReport, RxP!CountReport, Rx!Reports, RxP!Reports,
     Rx!SendSets, RxP!SendSets, Rx!CountOut, RxP!CountOut

LEMMA SameHandler ==
  ASSUME NEW f, Rx!HandleFragment(f)
  PROVE  RxP!HandleFragment(f)
<1>1. CASE Rx!DropMalformed(f)
  BY <1>1, SameHelpers DEF Rx!DropMalformed, RxP!DropMalformed,
     RxP!HandleFragment
<1>2. CASE Rx!RejectIndex(f)
  BY <1>2, SameHelpers, SameOpened DEF Rx!RejectIndex, RxP!RejectIndex,
     RxP!HandleFragment
<1>3. CASE Rx!AcceptFragment(f)
  BY <1>3, SameHelpers, SameOpened, SameStored, SameDecoded, SameCounting
     DEF Rx!AcceptFragment, RxP!AcceptFragment, RxP!HandleFragment
<1> QED  BY <1>1, <1>2, <1>3 DEF Rx!HandleFragment

LEMMA SameInit == Rx!RsInit => RxP!RsInit
  BY SameHelpers DEF Rx!RsInit, RxP!RsInit, Rx!SlotIds, RxP!SlotIds

-----------------------------------------------------------------------------
(* The fragments in flight and those that arrived *)

\* The fragments on the wires ws.
Carried(ws) ==
  {f \in GwFragment :
     \E p \in Ifaces : \E j \in 1 .. Len(ws[p]) : ws[p][j] = f}

\* Sending puts nothing on a wire but what is sent.
LEMMA SendCarries ==
  ASSUME NEW ws \in [Ifaces -> Seq(GwFragment)], NEW f \in GwFragment,
         NEW sent
  PROVE  /\ Send(ws, f, sent) \in [Ifaces -> Seq(GwFragment)]
         /\ Carried(Send(ws, f, sent)) \subseteq Carried(ws) \cup {f}
<1> DEFINE p == PathOf(f)
<1>1. p \in Ifaces
  BY DEF PathOf, Ifaces
<1> HIDE DEF p
<1>2. PutBehind(ws, Put(ws, p, f), p, f)
  BY <1>1, WirePut
<1>3. CASE f \in sent
  <2>1. Send(ws, f, sent) = Put(ws, p, f)
    BY <1>3 DEF Send, Put, p
  <2>2. Carried(Put(ws, p, f)) \subseteq Carried(ws) \cup {f}
    BY <1>2 DEF Carried, PutBehind
  <2> QED  BY <1>2, <2>1, <2>2 DEF PutBehind
<1>4. CASE f \notin sent
  BY <1>4 DEF Send
<1> QED  BY <1>3, <1>4

LEMMA SendEachCarries ==
  ASSUME wire \in [Ifaces -> Seq(GwFragment)], NEW frs, Len(frs) \in Nat,
         NEW S, \A n \in 1 .. Len(frs) : frs[n] \in GwFragment /\ frs[n] \in S,
         NEW sent
  PROVE  Carried(SendEach(frs, sent)) \subseteq Carried(wire) \cup S
<1> DEFINE A == After(wire, frs, sent)
           OK(ws) == /\ ws \in [Ifaces -> Seq(GwFragment)]
                     /\ Carried(ws) \subseteq Carried(wire) \cup S
           M == {m \in Nat : m \in 0 .. Len(frs) => OK(A[m])}
<1>1. \A m \in 0 .. Len(frs) : A[m] = AfterStep(A, wire, frs, sent, m)
  BY AfterUnfolds
<1> HIDE DEF A
<1>2. 0 \in M
  <2>1. A[0] = wire
    BY <1>1 DEF AfterStep
  <2> QED  BY <2>1
<1>3. ASSUME NEW m \in Nat, m \in M
      PROVE  m + 1 \in M
  <2>0. m + 1 \in Nat
    OBVIOUS
  <2> SUFFICES ASSUME m + 1 \in 0 .. Len(frs)
               PROVE  OK(A[m + 1])
    BY <2>0
  <2>1. /\ m \in 0 .. Len(frs) /\ m + 1 # 0 /\ (m + 1) - 1 = m
        /\ m + 1 \in 1 .. Len(frs)
    OBVIOUS
  <2>2. A[m + 1] = Send(A[m], frs[m + 1], sent)
    BY <1>1, <2>1 DEF AfterStep
  <2>3. OK(A[m])
    BY <1>3, <2>1
  <2>4. /\ A[m + 1] \in [Ifaces -> Seq(GwFragment)]
        /\ Carried(A[m + 1]) \subseteq Carried(A[m]) \cup {frs[m + 1]}
    <3>1. frs[m + 1] \in GwFragment /\ A[m] \in [Ifaces -> Seq(GwFragment)]
      BY <2>1, <2>3
    <3>2. /\ Send(A[m], frs[m + 1], sent) \in [Ifaces -> Seq(GwFragment)]
          /\ Carried(Send(A[m], frs[m + 1], sent))
               \subseteq Carried(A[m]) \cup {frs[m + 1]}
      BY <3>1, SendCarries
    <3> QED  BY <2>2, <3>2
  <2> QED  BY <2>1, <2>3, <2>4
<1>4. Nat \subseteq M
  <2> HIDE DEF M
  <2> QED  BY <1>2, <1>3, NatSetInduction
<1>5. OK(A[Len(frs)])
  BY <1>4
<1> QED  BY <1>5, SendEachIsAfter DEF A

\* The oldest fragment of a path leaves it.
LEMMA TailInFlight ==
  ASSUME NEW ws, NEW o, NEW n, NEW P, InFlight(ws, o, n, P), NEW p \in Ifaces,
         ws[p] # <<>>
  PROVE  LET vs == [ws EXCEPT ![p] = Tail(@)]
         IN  /\ InFlight(vs, o, n, P)
             /\ Carried(vs) \subseteq Carried(ws)
             /\ Head(ws[p]) \in Carried(ws) /\ Genuine(Head(ws[p]), P)
             /\ Below(Head(ws[p]), o, n)
<1> DEFINE vs == [ws EXCEPT ![p] = Tail(@)]
<1>1. ws \in [Ifaces -> Seq(GwFragment)] /\ ws[p] \in Seq(GwFragment)
  BY DEF InFlight
<1>2. /\ vs \in [Ifaces -> Seq(GwFragment)]
      /\ vs[p] = Tail(ws[p]) /\ \A q \in Ifaces : q # p => vs[q] = ws[q]
  BY <1>1
<1>3. /\ Len(ws[p]) \in Nat /\ Len(Tail(ws[p])) = Len(ws[p]) - 1
      /\ 1 \in 1 .. Len(ws[p])
      /\ \A j \in 1 .. Len(Tail(ws[p])) : Tail(ws[p])[j] = ws[p][j + 1]
      /\ Head(ws[p]) = ws[p][1] /\ ws[p][1] \in GwFragment
  BY <1>1
<1> HIDE DEF vs
<1>4. ASSUME NEW q \in Ifaces, NEW j \in 1 .. Len(vs[q])
      PROVE  \E k \in 1 .. Len(ws[q]) :
               /\ vs[q][j] = ws[q][k] /\ k = IF q = p THEN j + 1 ELSE j
  <2>1. CASE q = p
    <3>1. j + 1 \in 1 .. Len(ws[p]) /\ vs[q][j] = ws[p][j + 1]
      <4>1. vs[q] = Tail(ws[p]) /\ j \in 1 .. Len(Tail(ws[p]))
        BY <1>2, <2>1
      <4>2. vs[q][j] = ws[p][j + 1]
        BY <1>3, <4>1
      <4>3. j \in 1 .. Len(ws[p]) - 1
        BY <1>3, <4>1
      <4> QED  BY <1>3, <4>2, <4>3
    <3> QED  BY <2>1, <3>1
  <2>2. CASE q # p
    BY <1>2, <2>2
  <2> QED  BY <2>1, <2>2
<1>5. Made(vs, o, n, P)
  <2> SUFFICES ASSUME NEW q \in Ifaces, NEW j \in 1 .. Len(vs[q])
               PROVE  Genuine(vs[q][j], P) /\ Below(vs[q][j], o, n)
    BY DEF Made
  <2>1. PICK k \in 1 .. Len(ws[q]) : vs[q][j] = ws[q][k]
    BY <1>4
  <2> QED  BY <2>1 DEF InFlight, Made
<1>6. Rising(vs)
  <2> SUFFICES ASSUME NEW q \in Ifaces, NEW j \in 1 .. Len(vs[q]),
                      NEW i \in 1 .. j - 1
               PROVE  Below(vs[q][i], vs[q][j].origin, vs[q][j].index)
    BY DEF Rising
  <2>0. i \in 1 .. Len(vs[q])
    <3>1. Len(vs[q]) \in Nat
      BY <1>2
    <3> QED  BY <3>1
  <2>1. PICK k \in 1 .. Len(ws[q]) :
          vs[q][j] = ws[q][k] /\ k = IF q = p THEN j + 1 ELSE j
    BY <1>4
  <2>2. PICK m \in 1 .. Len(ws[q]) :
          vs[q][i] = ws[q][m] /\ m = IF q = p THEN i + 1 ELSE i
    BY <1>4, <2>0
  <2>3. m \in 1 .. k - 1
    <3>1. CASE q = p
      BY <2>1, <2>2, <3>1
    <3>2. CASE q # p
      BY <2>1, <2>2, <3>2
    <3> QED  BY <3>1, <3>2
  <2> QED  BY <2>1, <2>2, <2>3 DEF InFlight, Rising
<1>7. Carried(vs) \subseteq Carried(ws)
  <2> SUFFICES ASSUME NEW f \in GwFragment, NEW q \in Ifaces,
                      NEW j \in 1 .. Len(vs[q]), vs[q][j] = f
               PROVE  f \in Carried(ws)
    BY DEF Carried
  <2> QED  BY <1>4 DEF Carried
<1>8. Head(ws[p]) \in Carried(ws)
  BY <1>3 DEF Carried
<1>9. Genuine(Head(ws[p]), P) /\ Below(Head(ws[p]), o, n)
  BY <1>3 DEF InFlight, Made
<1> QED  BY <1>2, <1>5, <1>6, <1>7, <1>8, <1>9 DEF InFlight, vs

LEMMA CarriedFacts ==
  ASSUME NEW ws, NEW o \in Nat, NEW n, NEW P, InFlight(ws, o, n, P),
         NEW f \in Carried(ws)
  PROVE  Genuine(f, P) /\ Below(f, o, n)
<1>1. PICK p \in Ifaces : \E j \in 1 .. Len(ws[p]) : ws[p][j] = f
  BY DEF Carried
<1> QED  BY <1>1 DEF InFlight, Made

-----------------------------------------------------------------------------
(* The invariant of the data path *)

Seen == arrived \cup Carried(wire)

Bounded ==
  /\ "intercepted" \in DOMAIN gwStats /\ gwStats.intercepted \in Nat
  /\ cur.origin <= gwStats.intercepted
  /\ gwStats.intercepted <= MaxIntercepts

\* The generation that takes packets has got none but those below its count.
Placed ==
  /\ packets \subseteq Nat \X (0 .. K - 1)
  /\ cur.count > 0 =>
       \A i \in 0 .. K - 1 : <<cur.origin, i>> \in packets => i < cur.count

OneLength ==
  /\ \A f, h \in Seen : f.origin = h.origin => f.len = h.len
  /\ cur.count > 0 => \A f \in Seen : f.origin = cur.origin => f.len = cur.len

ArrivedSent == \A f \in arrived : Genuine(f, packets) /\ f.origin <= cur.origin

SysInv ==
  /\ Filling /\ Counted /\ Flowing
  /\ Bounded /\ Placed /\ OneLength /\ ArrivedSent

LEMMA SeenFacts ==
  ASSUME Filling, Flowing, Bounded, ArrivedSent, NEW f \in Seen
  PROVE  /\ Genuine(f, packets) /\ f.origin \in 1 .. cur.origin
         /\ f \in AllFragments /\ f.fits
         /\ RxP!IsData(f) \/ RxP!IsParity(f)
<1>0. /\ cur.origin \in Nat /\ cur.count \in Nat
      /\ K \in Nat \ {0} /\ Repairs \in Nat /\ IdSpace \in Nat \ {0}
      /\ MaxIntercepts \in Nat
  BY RsGatewayAssumption DEF Filling, Generation, RsGatewayAssumption
<1>1. Genuine(f, packets) /\ f.origin <= cur.origin
  <2>1. CASE f \in arrived
    BY <2>1 DEF ArrivedSent
  <2>2. CASE f \in Carried(wire)
    <3>1. NextOrigin \in Nat
      BY <1>0 DEF NextOrigin
    <3>2. Genuine(f, packets) /\ Below(f, NextOrigin, cur.count)
      BY <2>2, <3>1, CarriedFacts DEF Flowing
    <3>3. f.origin \in Nat /\ f.index \in Nat
      BY <3>2 DEF Genuine, GwFragment
    <3>4. f.origin <= cur.origin
      <4>1. CASE cur.count > 0
        BY <1>0, <3>2, <3>3, <4>1 DEF Below, NextOrigin
      <4>2. CASE cur.count = 0
        BY <1>0, <3>2, <3>3, <4>2 DEF Below, NextOrigin
      <4> QED  BY <1>0, <4>1, <4>2
    <3> QED  BY <3>2, <3>4
  <2> QED  BY <2>1, <2>2 DEF Seen
<1>2. /\ f \in GwFragment /\ f.origin > 0 /\ f.id = f.origin % IdSpace
      /\ f.fits /\ f.len \in Lengths /\ f.len \in 1 .. MaxPktLen
      /\ f.type \in {"data", "parity"}
      /\ f.type = "data" => f.index < K
      /\ f.type = "parity" => f.index \in K .. K + Repairs - 1
      /\ f.origin \in Nat /\ f.index \in Nat
  BY <1>1 DEF Genuine, GwFragment
<1>3. f.origin \in 1 .. cur.origin
  BY <1>0, <1>1, <1>2
<1>4. f \in AllFragments
  <2>1. f.origin \in 1 .. MaxIntercepts
    <3>1. /\ cur.origin <= gwStats.intercepted /\ gwStats.intercepted \in Nat
          /\ gwStats.intercepted <= MaxIntercepts
      BY DEF Bounded
    <3> QED  BY <1>0, <1>3, <3>1
  <2>2. f.id \in 0 .. IdSpace - 1
    BY <1>0, <1>2
  <2>3. f.index \in 0 .. K + Repairs - 1
    BY <1>0, <1>2
  <2> QED  BY <1>2, <2>1, <2>2, <2>3 DEF AllFragments, GwFragment
<1>5. RxP!IsData(f) \/ RxP!IsParity(f)
  <2>1. CASE f.type = "data"
    BY <1>0, <1>2, <2>1 DEF RxP!IsData, RxP!Indices
  <2>2. CASE f.type = "parity"
    BY <1>0, <1>2, <2>2 DEF RxP!IsParity, RxP!ParityIndices
  <2> QED  BY <1>2, <2>1, <2>2
<1> QED  BY <1>1, <1>2, <1>3, <1>4, <1>5

LEMMA SystemInit == SysInit => SysInv /\ RxP!Held /\ PD!PdInit
<1> SUFFICES ASSUME SysInit
             PROVE  SysInv /\ RxP!Held /\ PD!PdInit
  OBVIOUS
<1>1. GwInit /\ Rx!RsInit
  BY DEF SysInit
<1>2. Filling /\ Counted /\ Flowing
  BY <1>1, FillingInit, FlowingInit
<1>3. RxP!Held
  BY <1>1, SameInit, RxAssumptions, RxP!HeldInit
<1>4. /\ packets = {} /\ cur.origin = 0 /\ cur.count = 0
      /\ "intercepted" \in DOMAIN gwStats /\ gwStats.intercepted = 0
      /\ \A p \in Ifaces : Len(wire[p]) = 0
  BY <1>1 DEF GwInit
<1>5. arrived = {} /\ garbled = FALSE /\ copies = [p \in Rx!Packets |-> 0]
  BY <1>1 DEF Rx!RsInit
<1>6. Seen = {}
  BY <1>4, <1>5 DEF Seen, Carried
<1>7. Bounded /\ Placed
  BY <1>4, RsGatewayAssumption DEF Bounded, Placed, RsGatewayAssumption
<1>8. OneLength /\ ArrivedSent
  BY <1>4, <1>5, <1>6 DEF OneLength, ArrivedSent
<1> QED  BY <1>2, <1>3, <1>4, <1>5, <1>7, <1>8 DEF SysInv, PD!PdInit

\* A packet goes to the generation that takes packets or to the next one.
LEMMA GenerationIs ==
  ASSUME Filling, NEW len
  PROVE  LET g == GenerationFor(len)
         IN  \/ g = cur /\ cur.count > 0
             \/ g.origin = cur.origin + 1 /\ g.count = 0
<1>1. cur.count \in Nat
  BY DEF Filling, Generation
<1> QED  BY <1>1 DEF GenerationFor, BeginsGeneration

LEMMA TakingKeeps ==
  ASSUME SysInv, NEW len \in Lengths, TakePacket(len),
         gwStats.intercepted < MaxIntercepts,
         UNCHANGED <<rxVars, losses, dups>>
  PROVE  SysInv' /\ PD!PdNext
<1>0. len \in 1 .. MaxPktLen /\ len \in Nat
  BY RsGatewayAssumption DEF TakePacket, RsGatewayAssumption
<1>1. PICK g : g = GenerationFor(len)
  OBVIOUS
<1>2. PICK P : P = packets \cup {<<g.origin, g.count>>}
  OBVIOUS
<1>3. PICK frs : frs = Emitted(g, g.count)
  OBVIOUS
<1>4. PICK sent : wire' = SendEach(frs, sent)
  BY <1>1, <1>3 DEF TakePacket
<1>5. /\ cur' = AfterPacket(g) /\ packets' = P
      /\ gwStats'.intercepted = gwStats.intercepted + 1
      /\ "intercepted" \in DOMAIN gwStats'
  BY <1>1, <1>2 DEF TakePacket
<1>6. Filling /\ Flowing /\ Bounded /\ Placed /\ OneLength /\ ArrivedSent
  BY DEF SysInv
<1>7. Flowing'
  BY <1>6, TakePacketFlows
<1>8. Sending(g, g.count, P)
  BY <1>0, <1>1, <1>2, <1>6, ReceivingFlows
<1>9. /\ K \in Nat \ {0} /\ cur.origin \in Nat /\ cur.count \in Nat
      /\ g.origin \in Nat /\ g.count \in Nat /\ g.count \in 0 .. K - 1
      /\ g \in Generation /\ MaxIntercepts \in Nat /\ g.origin > 0
  BY <1>6, <1>8, RsGatewayAssumption
     DEF Sending, Generation, RsGatewayAssumption, Filling
<1>10. \/ g = cur /\ cur.count > 0
       \/ g.origin = cur.origin + 1 /\ g.count = 0
  BY <1>1, <1>6, GenerationIs
<1>11. /\ cur'.origin = g.origin
       /\ cur'.count > 0 => cur'.count = g.count + 1 /\ cur'.len = g.len
  <2>1. CASE g.count + 1 = K
    <3>1. AfterPacket(g) = [g EXCEPT !.count = 0, !.len = 0]
      BY <2>1 DEF AfterPacket
    <3> QED  BY <1>5, <1>9, <3>1 DEF Generation
  <2>2. CASE g.count + 1 # K
    <3>1. AfterPacket(g) = [g EXCEPT !.count = @ + 1]
      BY <2>2 DEF AfterPacket
    <3> QED  BY <1>5, <1>9, <3>1 DEF Generation
  <2> QED  BY <2>1, <2>2
<1>12. <<g.origin, g.count>> \notin packets
  <2>1. CASE g = cur /\ cur.count > 0
    <3>1. g.count \in 0 .. K - 1 /\ ~(g.count < cur.count)
      BY <1>9, <2>1
    <3> QED  BY <1>6, <2>1, <3>1 DEF Placed
  <2>2. CASE g.origin = cur.origin + 1
    <3>1. ~(<<g.origin, g.count>>[1] \in 1 .. cur.origin)
      BY <1>9, <2>2
    <3> QED  BY <1>6, <3>1 DEF Filling
  <2> QED  BY <1>10, <2>1, <2>2
<1>13. g.origin \in 1 .. MaxIntercepts /\ Bounded'
  <2>1. /\ gwStats.intercepted \in Nat /\ cur.origin <= gwStats.intercepted
        /\ gwStats.intercepted + 1 <= MaxIntercepts
    BY <1>6, <1>9 DEF Bounded
  <2>2. g.origin = cur.origin \/ g.origin = cur.origin + 1
    BY <1>10
  <2>3. g.origin <= gwStats.intercepted + 1
    BY <1>9, <2>1, <2>2
  <2> QED  BY <1>5, <1>9, <1>11, <2>1, <2>3 DEF Bounded
<1>14. Filling' /\ Counted'
  BY <1>0, TakePacketKeeps DEF SysInv
<1>15. Placed'
  <2>1. packets' \subseteq Nat \X (0 .. K - 1)
    BY <1>2, <1>5, <1>6, <1>9 DEF Placed
  <2>2. ASSUME cur'.count > 0, NEW i \in 0 .. K - 1,
               <<cur'.origin, i>> \in packets'
        PROVE  i < cur'.count
    <3>1. cur'.count = g.count + 1 /\ cur'.origin = g.origin
      BY <1>11, <2>2
    <3>2. CASE <<g.origin, i>> \in packets
      <4>1. CASE g = cur /\ cur.count > 0
        <5>1. i < cur.count
          BY <1>6, <3>2, <4>1 DEF Placed
        <5> QED  BY <1>9, <3>1, <4>1, <5>1
      <4>2. CASE g.origin = cur.origin + 1
        <5>1. ~(<<g.origin, i>>[1] \in 1 .. cur.origin)
          BY <1>9, <4>2
        <5> QED  BY <1>6, <3>2, <5>1 DEF Filling
      <4> QED  BY <1>10, <4>1, <4>2
    <3>3. CASE <<g.origin, i>> = <<g.origin, g.count>>
      <4>1. i = g.count
        BY <3>3
      <4> QED  BY <1>9, <3>1, <4>1
    <3> QED  BY <1>2, <1>5, <2>2, <3>1, <3>2, <3>3
  <2> QED  BY <2>1, <2>2 DEF Placed
<1>16. /\ Len(frs) \in Nat
       /\ \A n \in 1 .. Len(frs) :
            /\ frs[n] \in GwFragment
            /\ frs[n].origin = g.origin /\ frs[n].len = g.len
  <2>1. /\ Len(frs) \in Nat
        /\ \A n \in 1 .. Len(frs) :
             /\ Genuine(frs[n], P) /\ frs[n].origin = g.origin
             /\ frs[n].len = g.len
    BY <1>3, <1>8, EmittedRises
  <2> QED  BY <2>1 DEF Genuine
<1> DEFINE S == {f \in GwFragment : f.origin = g.origin /\ f.len = g.len}
<1>17. Seen' \subseteq Seen \cup S
  <2>1. \A n \in 1 .. Len(frs) : frs[n] \in GwFragment /\ frs[n] \in S
    BY <1>16
  <2> HIDE DEF S
  <2>2. Carried(SendEach(frs, sent)) \subseteq Carried(wire) \cup S
    BY <1>6, <1>16, <2>1, SendEachCarries DEF Flowing, InFlight
  <2>3. Carried(wire') \subseteq Carried(wire) \cup S /\ arrived' = arrived
    BY <1>4, <2>2 DEF rxVars
  <2> QED  BY <2>3 DEF Seen
<1>18. ASSUME NEW f \in Seen \cup S, f.origin = g.origin
       PROVE  f.len = g.len
  <2>1. CASE f \in Seen
    <3>1. f.origin \in 1 .. cur.origin
      BY <1>6, <2>1, SeenFacts
    <3>2. g = cur /\ cur.count > 0
      BY <1>9, <1>10, <1>18, <3>1
    <3> QED  BY <1>6, <1>18, <2>1, <3>2 DEF OneLength
  <2> QED  BY <2>1
<1>19. OneLength'
  <2>1. ASSUME NEW f \in Seen', NEW h \in Seen', f.origin = h.origin
        PROVE  f.len = h.len
    <3>1. CASE f.origin = g.origin
      BY <1>17, <1>18, <2>1, <3>1
    <3>2. CASE f.origin # g.origin
      BY <1>6, <1>17, <2>1, <3>2 DEF OneLength
    <3> QED  BY <3>1, <3>2
  <2>2. ASSUME cur'.count > 0, NEW f \in Seen', f.origin = cur'.origin
        PROVE  f.len = cur'.len
    BY <1>11, <1>17, <1>18, <2>2
  <2> QED  BY <2>1, <2>2 DEF OneLength
<1>20. ArrivedSent'
  <2> SUFFICES ASSUME NEW f \in arrived
               PROVE  Genuine(f, P) /\ f.origin <= g.origin
    BY <1>5, <1>11 DEF ArrivedSent, rxVars
  <2>1. Genuine(f, packets) /\ f.origin <= cur.origin /\ f.origin \in Nat
    BY <1>6 DEF ArrivedSent, Genuine, GwFragment
  <2>2. g.origin = cur.origin \/ g.origin = cur.origin + 1
    BY <1>10
  <2>3. f.origin <= g.origin
    BY <1>9, <2>1, <2>2
  <2> QED  BY <1>2, <2>1, <2>3 DEF Genuine, Whole
<1>21. PD!PdNext
  <2>1. <<g.origin, g.count>> \in Rx!Packets
    BY <1>9, <1>13 DEF Rx!Packets, Rx!Indices
  <2>2. PD!Offer(<<g.origin, g.count>>)
    BY <1>2, <1>5, <1>12 DEF PD!Offer, rxVars
  <2> QED  BY <2>1, <2>2 DEF PD!PdNext
<1> QED  BY <1>7, <1>13, <1>14, <1>15, <1>19, <1>20, <1>21 DEF SysInv

LEMMA GatewayKeeps ==
  ASSUME SysInv, GatewayStep
  PROVE  /\ SysInv' /\ UNCHANGED rxVars /\ cur.origin <= cur'.origin
         /\ [PD!PdNext]_(PD!pdVars)
<1>0. UNCHANGED rxVars /\ UNCHANGED <<losses, dups>>
  BY DEF GatewayStep
<1>1. ASSUME NEW len \in Lengths, TakePacket(len),
             gwStats.intercepted < MaxIntercepts
      PROVE  SysInv' /\ cur.origin <= cur'.origin /\ PD!PdNext
  <2>1. SysInv' /\ PD!PdNext
    BY <1>0, <1>1, TakingKeeps
  <2>2. PICK g : g = GenerationFor(len)
    OBVIOUS
  <2>3. Filling /\ Filling' /\ cur' = AfterPacket(g)
    BY <1>1, <2>1, <2>2 DEF SysInv, TakePacket
  <2>4. /\ cur.origin \in Nat /\ g \in Generation
        /\ g.origin = cur.origin \/ g.origin = cur.origin + 1
    <3>1. len \in Nat
      BY RsGatewayAssumption DEF RsGatewayAssumption
    <3> QED  BY <2>2, <2>3, <3>1, Receiving DEF Filling, Generation
  <2>5. cur'.origin = g.origin
    <3>1. \/ AfterPacket(g) = [g EXCEPT !.count = 0, !.len = 0]
          \/ AfterPacket(g) = [g EXCEPT !.count = @ + 1]
      BY DEF AfterPacket
    <3> QED  BY <2>3, <2>4, <3>1 DEF Generation
  <2> QED  BY <2>1, <2>4, <2>5
<1>2. ASSUME UNCHANGED <<cur, wire, packets>>,
             "intercepted" \in DOMAIN gwStats',
             "completed" \in DOMAIN gwStats',
             gwStats'.completed = gwStats.completed,
             gwStats'.intercepted \in Nat,
             gwStats.intercepted <= gwStats'.intercepted,
             gwStats'.intercepted <= MaxIntercepts
      PROVE  /\ SysInv' /\ cur.origin <= cur'.origin
             /\ UNCHANGED (PD!pdVars)
  <2>1. cur.origin \in Nat
    BY DEF SysInv, Filling, Generation
  <2>2. Filling' /\ Counted'
    BY <1>2 DEF SysInv, Filling, Counted, Finished
  <2>3. Flowing' /\ Placed' /\ OneLength' /\ ArrivedSent'
    BY <1>0, <1>2 DEF SysInv, Flowing, NextOrigin, Placed, OneLength, Seen,
       ArrivedSent, rxVars
  <2>4. Bounded'
    <3>1. /\ cur.origin <= gwStats.intercepted /\ gwStats.intercepted \in Nat
      BY DEF SysInv, Bounded
    <3>2. cur'.origin <= gwStats'.intercepted
      BY <1>2, <2>1, <3>1
    <3> QED  BY <1>2, <3>2 DEF Bounded
  <2> QED  BY <1>0, <1>2, <2>1, <2>2, <2>3, <2>4 DEF SysInv, PD!pdVars, rxVars
<1>3. ASSUME NEW len \in Lengths, IgnorePacket(len),
             gwStats.intercepted < MaxIntercepts
      PROVE  /\ SysInv' /\ cur.origin <= cur'.origin
             /\ UNCHANGED (PD!pdVars)
  <2>1. /\ "intercepted" \in DOMAIN gwStats /\ gwStats.intercepted \in Nat
        /\ "completed" \in DOMAIN gwStats /\ MaxIntercepts \in Nat
    BY RsGatewayAssumption DEF SysInv, Bounded, Filling, RsGatewayAssumption
  <2>2. /\ UNCHANGED <<cur, wire, packets>>
        /\ gwStats' = [gwStats EXCEPT !.intercepted = @ + 1]
    BY <1>3 DEF IgnorePacket
  <2>3. /\ "intercepted" \in DOMAIN gwStats' /\ "completed" \in DOMAIN gwStats'
        /\ gwStats'.completed = gwStats.completed
        /\ gwStats'.intercepted = gwStats.intercepted + 1
    BY <2>1, <2>2
  <2>4. /\ gwStats'.intercepted \in Nat
        /\ gwStats.intercepted <= gwStats'.intercepted
        /\ gwStats'.intercepted <= MaxIntercepts
    BY <1>3, <2>1, <2>3
  <2> QED  BY <1>2, <2>2, <2>3, <2>4
<1>4. CASE StopGateway
  <2>1. UNCHANGED <<cur, wire, gwStats, packets>>
    BY <1>4 DEF StopGateway
  <2>2. /\ "intercepted" \in DOMAIN gwStats /\ gwStats.intercepted \in Nat
        /\ "completed" \in DOMAIN gwStats
        /\ gwStats.intercepted <= MaxIntercepts
    BY DEF SysInv, Bounded, Filling
  <2> QED  BY <1>0, <1>2, <2>1, <2>2
<1> QED  BY <1>0, <1>1, <1>3, <1>4 DEF GatewayStep, GwNext, InterceptPacket

\* Nothing is put on the wires and nothing arrives that was not there.
LEMMA SeenKeeps ==
  ASSUME SysInv, UNCHANGED <<cur, gwStats, packets>>,
         InFlight(wire', NextOrigin, cur.count, packets),
         Carried(wire') \subseteq Carried(wire), arrived' \subseteq Seen
  PROVE  SysInv'
<1>1. Filling' /\ Counted' /\ Bounded' /\ Placed'
  BY DEF SysInv, Filling, Counted, Finished, Bounded, Placed
<1>2. Flowing'
  BY DEF SysInv, Flowing, NextOrigin
<1>3. Seen' \subseteq Seen
  BY DEF Seen
<1>4. OneLength'
  BY <1>3 DEF SysInv, OneLength
<1>5. ArrivedSent'
  <2> SUFFICES ASSUME NEW f \in arrived'
               PROVE  Genuine(f, packets) /\ f.origin <= cur.origin
    BY DEF ArrivedSent
  <2>1. Genuine(f, packets) /\ f.origin \in 1 .. cur.origin
    BY SeenFacts DEF SysInv
  <2> QED  BY <2>1 DEF SysInv, Filling, Generation
<1> QED  BY <1>1, <1>2, <1>4, <1>5 DEF SysInv

\* The first MaxGens generations have slots of their own.
LEMMA SlotOfOrigin ==
  ASSUME MaxGens <= IdSpace, NEW o \in 1 .. MaxGens
  PROVE  RxP!Slot(o % IdSpace) = IF o < MaxGens THEN o ELSE 0
<1>0. IdSpace \in Nat \ {0} /\ MaxGens \in Nat \ {0}
  BY RsGatewayAssumption, RsSystemAssumption
     DEF RsGatewayAssumption, RsSystemAssumption
<1>1. CASE o < MaxGens
  <2>1. o % IdSpace = o /\ o % MaxGens = o
    BY <1>0, <1>1
  <2> QED  BY <1>1, <2>1 DEF RxP!Slot
<1>2. CASE o = MaxGens
  <2>1. o % IdSpace = IF o = IdSpace THEN 0 ELSE o
    <3>1. CASE o = IdSpace
      BY <1>0, <3>1
    <3>2. CASE o # IdSpace
      <4>1. o < IdSpace /\ o \in Nat
        BY <1>0, <1>2, <3>2
      <4> QED  BY <1>0, <3>2, <4>1
    <3> QED  BY <3>1, <3>2
  <2>2. 0 % MaxGens = 0 /\ MaxGens % MaxGens = 0
    BY <1>0
  <2> QED  BY <1>2, <2>1, <2>2 DEF RxP!Slot
<1> QED  BY <1>0, <1>1, <1>2

LEMMA SeenApart ==
  ASSUME SysInv, MaxGens <= IdSpace, cur.origin <= MaxGens,
         NEW S, S \subseteq Seen
  PROVE  RxP!Apart(S)
<1>0. cur.origin \in Nat /\ MaxGens \in Nat
  BY RsSystemAssumption DEF SysInv, Filling, Generation, RsSystemAssumption
<1>1. ASSUME NEW f \in S
      PROVE  /\ f \in Seen /\ f.origin \in 1 .. MaxGens
             /\ f.id = f.origin % IdSpace
             /\ RxP!Slot(f.id) = IF f.origin < MaxGens THEN f.origin ELSE 0
  <2>1. Genuine(f, packets) /\ f.origin \in 1 .. cur.origin
    BY SeenFacts DEF SysInv
  <2>2. f.origin \in 1 .. MaxGens /\ f.id = f.origin % IdSpace
    BY <1>0, <2>1 DEF Genuine
  <2>3. RxP!Slot(f.origin % IdSpace) =
          IF f.origin < MaxGens THEN f.origin ELSE 0
    BY <2>2, SlotOfOrigin
  <2> QED  BY <2>2, <2>3
<1>2. ASSUME NEW f \in S, NEW h \in S
      PROVE  /\ f.origin = h.origin => f.id = h.id /\ f.len = h.len
             /\ RxP!Slot(f.id) = RxP!Slot(h.id) => f.origin = h.origin
  <2>1. f.origin = h.origin => f.id = h.id /\ f.len = h.len
    BY <1>1 DEF SysInv, OneLength
  <2>2. RxP!Slot(f.id) = RxP!Slot(h.id) => f.origin = h.origin
    <3>1. /\ f.origin \in 1 .. MaxGens /\ h.origin \in 1 .. MaxGens
          /\ RxP!Slot(f.id) = IF f.origin < MaxGens THEN f.origin ELSE 0
          /\ RxP!Slot(h.id) = IF h.origin < MaxGens THEN h.origin ELSE 0
      BY <1>1
    <3> QED  BY <1>0, <3>1
  <2> QED  BY <2>1, <2>2
<1> QED  BY <1>2 DEF RxP!Apart

\* A packet that an arrived fragment brings was put in a generation.
LEMMA BackedIsOffered ==
  ASSUME NEW A, NEW P, \A d \in A : Genuine(d, P),
         NEW p \in Rx!Packets, RxP!Backed(p[1], p[2], A)
  PROVE  p \in P
<1>1. /\ p = <<p[1], p[2]>> /\ p[2] \in 0 .. K - 1
  BY DEF Rx!Packets, Rx!Indices
<1>2. PICK d \in A :
        /\ d.origin = p[1]
        /\ (RxP!IsData(d) /\ d.index = p[2]) \/ RxP!IsParity(d)
  BY DEF RxP!Backed
<1>3. Genuine(d, P)
  OBVIOUS
<1>4. CASE RxP!IsData(d) /\ d.index = p[2]
  BY <1>1, <1>2, <1>3, <1>4 DEF Genuine, RxP!IsData
<1>5. CASE RxP!IsParity(d)
  BY <1>1, <1>2, <1>3, <1>5 DEF Genuine, RxP!IsParity, Whole
<1> QED  BY <1>2, <1>4, <1>5

-----------------------------------------------------------------------------
(* A fragment arrives, or is lost *)

LEMMA HeadFacts ==
  ASSUME SysInv, NEW p \in Ifaces, wire[p] # <<>>
  PROVE  /\ Head(wire[p]) \in Seen
         /\ InFlight([wire EXCEPT ![p] = Tail(@)], NextOrigin, cur.count,
                     packets)
         /\ Carried([wire EXCEPT ![p] = Tail(@)]) \subseteq Carried(wire)
  BY TailInFlight DEF SysInv, Flowing, Seen

LEMMA ArrivingKeeps ==
  ASSUME SysInv, NEW p \in Ifaces, wire[p] # <<>>,
         Rx!HandleFragment(Head(wire[p])), TakeHead(p) \/ UNCHANGED wire,
         UNCHANGED <<cur, gwStats, packets>>
  PROVE  /\ SysInv'
         /\ /\ Repairs = 0 \/ Repairs >= K
            /\ MaxGens <= IdSpace /\ cur.origin <= MaxGens /\ RxP!Held
            => RxP!Held' /\ PD!PdNext
<1> DEFINE f == Head(wire[p])
<1>1. f \in Seen /\ RxP!HandleFragment(f)
  BY HeadFacts, SameHandler
<1>2. /\ InFlight(wire', NextOrigin, cur.count, packets)
      /\ Carried(wire') \subseteq Carried(wire)
  <2>1. CASE TakeHead(p)
    BY <2>1, HeadFacts DEF TakeHead
  <2>2. CASE UNCHANGED wire
    BY <2>2 DEF SysInv, Flowing
  <2> QED  BY <2>1, <2>2
<1>3. arrived' = arrived \cup {f} /\ arrived' \subseteq Seen
  <2> HIDE DEF f
  <2> QED  BY <1>1, RxAssumptions, RxP!AcceptArrives DEF Seen
<1>4. SysInv'
  BY <1>2, <1>3, SeenKeeps
<1>5. ASSUME Repairs = 0 \/ Repairs >= K, MaxGens <= IdSpace,
             cur.origin <= MaxGens, RxP!Held
      PROVE  RxP!Held' /\ PD!PdNext
  <2>1. /\ f \in AllFragments /\ f.fits
        /\ RxP!IsData(f) \/ RxP!IsParity(f)
    <3> HIDE DEF f
    <3> QED  BY <1>1, SeenFacts DEF SysInv
  <2>2. RxP!Apart(arrived \cup {f})
    BY <1>3, <1>5, SeenApart
  <2>3. RxP!EnoughParity
    BY <1>5 DEF RxP!EnoughParity
  <2> HIDE DEF f
  <2>4. /\ RxP!Held'
        /\ \E S \in SUBSET RxP!Packets :
             /\ \A q \in S : copies[q] = 0 /\ RxP!Backed(q[1], q[2], arrived')
             /\ copies' = [q \in RxP!Packets |->
                             IF q \in S THEN 1 ELSE copies[q]]
             /\ garbled' = garbled
    BY <1>1, <1>5, <2>1, <2>2, <2>3, RxAssumptions, RxP!HandledHeld
  <2>5. PICK S \in SUBSET RxP!Packets :
          /\ \A q \in S : copies[q] = 0 /\ RxP!Backed(q[1], q[2], arrived')
          /\ copies' = [q \in RxP!Packets |-> IF q \in S THEN 1 ELSE copies[q]]
          /\ garbled' = garbled
    BY <2>4
  <2>6. S \in SUBSET Rx!Packets /\ Rx!Packets = RxP!Packets
    BY SameHelpers
  <2>7. \A q \in S : q \in packets
    <3> SUFFICES ASSUME NEW q \in S
                 PROVE  q \in packets
      OBVIOUS
    <3>1. q \in Rx!Packets /\ RxP!Backed(q[1], q[2], arrived')
      BY <2>5, <2>6
    <3>2. \A d \in arrived' : Genuine(d, packets)
      BY <1>4 DEF SysInv, ArrivedSent
    <3> QED  BY <3>1, <3>2, BackedIsOffered
  <2>8. PD!Deliver(S)
    BY <2>5, <2>6, <2>7 DEF PD!Deliver
  <2> QED  BY <2>4, <2>6, <2>8 DEF PD!PdNext
<1> QED  BY <1>4, <1>5

LEMMA UnchangedHeld ==
  ASSUME UNCHANGED rxVars, RxP!Held
  PROVE  RxP!Held'
  BY DEF rxVars, RxP!Held, RxP!RsTypeOK

\* Every step keeps the invariant; while the generations have slots of their
\* own it also keeps what holds of the receiver, and is a step of the service.
LEMMA SystemStep ==
  ASSUME SysInv, [SysNext]_sysVars
  PROVE  /\ SysInv' /\ cur.origin <= cur'.origin
         /\ /\ Repairs = 0 \/ Repairs >= K
            /\ MaxGens <= IdSpace /\ cur.origin <= MaxGens /\ RxP!Held
            => RxP!Held' /\ [PD!PdNext]_(PD!pdVars)
<1>0. cur.origin \in Nat /\ cur.origin <= cur.origin
  BY DEF SysInv, Filling, Generation
<1>1. CASE GatewayStep
  BY <1>1, GatewayKeeps, UnchangedHeld
<1>2. ASSUME NEW p \in Ifaces, Deliver(p) \/ Duplicate(p)
      PROVE  /\ SysInv' /\ cur.origin <= cur'.origin
             /\ /\ Repairs = 0 \/ Repairs >= K
                /\ MaxGens <= IdSpace /\ cur.origin <= MaxGens /\ RxP!Held
                => RxP!Held' /\ [PD!PdNext]_(PD!pdVars)
  <2>1. /\ wire[p] # <<>> /\ Rx!HandleFragment(Head(wire[p]))
        /\ TakeHead(p) \/ UNCHANGED wire
        /\ UNCHANGED <<cur, gwStats, packets>>
    BY <1>2 DEF Deliver, Duplicate, GatewayIdle
  <2>2. /\ SysInv'
        /\ /\ Repairs = 0 \/ Repairs >= K
           /\ MaxGens <= IdSpace /\ cur.origin <= MaxGens /\ RxP!Held
           => RxP!Held' /\ PD!PdNext
    BY <2>1, ArrivingKeeps
  <2> QED  BY <1>0, <2>1, <2>2
<1>3. ASSUME NEW p \in Ifaces, Lose(p)
      PROVE  /\ SysInv' /\ UNCHANGED <<cur, packets, rxVars>>
  <2>1. /\ wire[p] # <<>> /\ TakeHead(p)
        /\ UNCHANGED <<cur, gwStats, packets>> /\ UNCHANGED rxVars
    BY <1>3 DEF Lose, GatewayIdle
  <2>2. /\ InFlight(wire', NextOrigin, cur.count, packets)
        /\ Carried(wire') \subseteq Carried(wire)
    BY <2>1, HeadFacts DEF TakeHead
  <2>3. arrived' \subseteq Seen
    BY <2>1 DEF Seen, rxVars
  <2> QED  BY <2>1, <2>2, <2>3, SeenKeeps
<1>4. CASE UNCHANGED sysVars
  <2>1. UNCHANGED gwVars /\ UNCHANGED rxVars
    BY <1>4 DEF sysVars
  <2>2. /\ InFlight(wire', NextOrigin, cur.count, packets)
        /\ Carried(wire') \subseteq Carried(wire) /\ arrived' \subseteq Seen
        /\ UNCHANGED <<cur, gwStats, packets>>
    BY <2>1 DEF gwVars, rxVars, SysInv, Flowing, Seen
  <2>3. SysInv'
    BY <2>2, SeenKeeps
  <2> QED  BY <1>0, <2>1, <2>2, <2>3, UnchangedHeld DEF PD!pdVars, rxVars
<1>5. ASSUME NEW p \in Ifaces, Lose(p)
      PROVE  cur.origin <= cur'.origin /\ UNCHANGED (PD!pdVars)
             /\ UNCHANGED rxVars
  BY <1>0, <1>3, <1>5 DEF PD!pdVars, rxVars
<1> QED  BY <1>1, <1>2, <1>3, <1>4, <1>5, UnchangedHeld DEF SysNext

-----------------------------------------------------------------------------
(* What the data path promises *)

\* A packet whose data fragment arrived has left the receiver, whatever is
\* lost, repeated or overtaken, provided the receiver's socket works and a
\* decoding never takes place with fewer parities than packets are missing
\* (no parities at all, or as many as packets), as long as every generation
\* begun so far has a slot of its own.
THEOREM DataAlwaysReaches ==
  ASSUME RxSendOutcomes = {TRUE}, Repairs = 0 \/ Repairs >= K,
         MaxGens <= IdSpace
  PROVE  SysSpec => [](cur.origin <= MaxGens => DataReaches)
<1> DEFINE Inv == SysInv /\ (cur.origin <= MaxGens => RxP!Held)
<1>1. SysInit => Inv
  BY SystemInit
<1>2. Inv /\ [SysNext]_sysVars => Inv'
  <2> SUFFICES ASSUME Inv, [SysNext]_sysVars
               PROVE  SysInv' /\ (cur'.origin <= MaxGens => RxP!Held')
    OBVIOUS
  <2>1. SysInv' /\ cur.origin <= cur'.origin
    BY SystemStep
  <2>2. /\ cur.origin \in Nat /\ cur'.origin \in Nat /\ MaxGens \in Nat
    BY <2>1, RsSystemAssumption
       DEF SysInv, Filling, Generation, RsSystemAssumption
  <2>3. cur'.origin <= MaxGens => cur.origin <= MaxGens
    BY <2>1, <2>2
  <2> QED  BY <2>1, <2>3, SystemStep
<1>3. Inv => (cur.origin <= MaxGens => DataReaches)
  <2> SUFFICES ASSUME SysInv, RxP!Held, NEW f \in arrived, f.type = "data"
               PROVE  copies[<<f.origin, f.index>>] >= 1
    BY DEF DataReaches
  <2>1. Genuine(f, packets) /\ K \in Nat
    BY RsGatewayAssumption DEF SysInv, ArrivedSent, RsGatewayAssumption
  <2>2. RxP!IsData(f)
    BY <2>1 DEF Genuine, GwFragment, RxP!IsData, RxP!Indices
  <2> QED  BY <2>2, RxAssumptions, RxP!HeldDelivers
<1> QED  BY <1>1, <1>2, <1>3, PTL DEF SysSpec

\* The data path delivers each packet put in a generation at most once and
\* nothing else, though what arrived is repeated or decoded from parities that
\* came by the other path, and though sends fail on either side: under the
\* same condition on parities, as long as the generations begun so far have
\* slots of their own.
THEOREM DeliveredAtMostOnce ==
  ASSUME Repairs = 0 \/ Repairs >= K, MaxGens <= IdSpace
  PROVE  SysSpec /\ [](cur.origin <= MaxGens) => ImplementsDelivery
<1>1. SysInit => SysInv /\ RxP!Held /\ PD!PdInit
  BY SystemInit
<1>2. /\ SysInv /\ RxP!Held /\ cur.origin <= MaxGens /\ [SysNext]_sysVars
      => SysInv' /\ RxP!Held' /\ [PD!PdNext]_(PD!pdVars)
  BY SystemStep
<1> QED  BY <1>1, <1>2, PTL DEF SysSpec, ImplementsDelivery, PD!PdSpec
=============================================================================
