----------------------------- MODULE RsReceiver -----------------------------
(***************************************************************************)
(* The Reed-Solomon edge receiver (src/edge_receiver/edge_receiver_rs.c):  *)
(* generations addressed by id modulo the table size, data fragments       *)
(* forwarded as they come, missing ones decoded once every parity fragment *)
(* is there.  One step is one call of handle_fragment.                     *)
(*                                                                         *)
(* A fragment carries its header and, as a ghost, origin, the gateway's    *)
(* generation whose data it was computed from.  fits is FALSE for a        *)
(* datagram shorter than its header says or of an invalid length.          *)
(***************************************************************************)
EXTENDS Integers, FiniteSets

CONSTANTS
  Origins,       \* the gateway's generations, numbered without reuse
  Fragments,     \* the fragments the network may deliver
  K,             \* K_DATA (8)
  Repairs,       \* --repairs of the receiver (0..32)
  MaxGens,       \* slots (256)
  SendOutcomes,  \* results of sendto on the raw socket
  MaxArrivals    \* bound on the fragments handled

Fragment == [origin : Origins, id : Nat, len : Nat \ {0}, index : Nat,
             type : {"data", "parity", "other"}, fits : BOOLEAN]

ASSUME FragmentsAssumption ==
  /\ Origins \subseteq Nat
  /\ Fragments \subseteq Fragment
ASSUME RsSizesAssumption ==
  /\ K \in Nat \ {0}
  /\ Repairs \in Nat
  /\ MaxGens \in Nat \ {0}
  /\ SendOutcomes \subseteq BOOLEAN
  /\ MaxArrivals \in Nat

VARIABLES
  gens,     \* gens[]
  stats,    \* the g_* counters
  copies,   \* history: times a packet left by the raw socket (2 = more)
  garbled,  \* history: a packet nobody sent left by the raw socket
  arrived   \* history: the fragments handled so far

rsVars == <<gens, stats, copies, garbled, arrived>>

SlotIds == 0 .. MaxGens - 1
Slot(id) == id % MaxGens
Indices == 0 .. K - 1
ParityIndices == 0 .. Repairs - 1
Packets == Origins \X Indices

\* What a data or parity buffer holds: the origin its bytes are of, or one of
Absent == -1
Garbage == -2

FreeGen ==
  [inUse |-> FALSE, id |-> 0, len |-> 0,
   data |-> [i \in Indices |-> Absent],
   parity |-> [p \in ParityIndices |-> Absent], fwd |-> {},
   attempted |-> FALSE, succeeded |-> FALSE, reported |-> FALSE]

Gen ==
  [inUse : BOOLEAN, id : Nat, len : Nat,
   data : [Indices -> Origins \cup {Absent, Garbage}],
   parity : [ParityIndices -> Origins \cup {Absent}],
   fwd : SUBSET Indices,
   attempted : BOOLEAN, succeeded : BOOLEAN, reported : BOOLEAN]

Stats == [gens : Nat, noLoss : Nat, repaired : Nat, decodeFailed : Nat,
          data : Nat, parity : Nat, consumed : Nat, received : Nat]

RsInit ==
  /\ gens = [i \in SlotIds |-> FreeGen]
  /\ stats = [gens |-> 0, noLoss |-> 0, repaired |-> 0, decodeFailed |-> 0,
              data |-> 0, parity |-> 0, consumed |-> 0, received |-> 0]
  /\ copies = [p \in Packets |-> 0]
  /\ garbled = FALSE
  /\ arrived = {}

-----------------------------------------------------------------------------
(* Generations *)

Present(g) == {i \in Indices : g.data[i] # Absent}
Missing(g) == Indices \ Present(g)
AllParity(g) == \A p \in ParityIndices : g.parity[p] # Absent

NewGen(id) == [FreeGen EXCEPT !.inUse = TRUE, !.id = id]
IsKnown_anyId(f) == gens[Slot(f.id)].inUse
IsKnown(f) == gens[Slot(f.id)].inUse /\ gens[Slot(f.id)].id = f.id

\* get_gen_state, and the reset of a generation whose length changed.
IsReset(f) == IsKnown(f) /\ gens[Slot(f.id)].len # f.len
Opened_noLength(f) ==
  IF IsKnown(f) /\ ~IsReset(f) THEN gens[Slot(f.id)] ELSE NewGen(f.id)
Opened(f) ==
  IF IsKnown(f) /\ ~IsReset(f) THEN gens[Slot(f.id)]
  ELSE [NewGen(f.id) EXCEPT !.len = f.len]

IsData(f) == f.type = "data" /\ f.index \in Indices
IsParity(f) == f.type = "parity" /\ f.index - K \in ParityIndices

StoreFragment(g, f) ==
  IF IsData(f)
  THEN [g EXCEPT !.data[f.index] = IF @ = Absent THEN f.origin ELSE @]
  ELSE [g EXCEPT !.parity[f.index - K] = IF @ = Absent THEN f.origin ELSE @]

-----------------------------------------------------------------------------
(* Decoding *)

CanDecode_someParity(g) ==
  /\ Repairs > 0
  /\ Missing(g) # {}
  /\ \E p \in ParityIndices : g.parity[p] # Absent

\* Decoding waits for all parities, and does not look at how many packets
\* are missing.
CanDecode_never(g) == FALSE
CanDecode(g) ==
  /\ Repairs > 0
  /\ g.fwd # Indices
  /\ Missing(g) # {}
  /\ AllParity(g)

\* The columns decode to the packets of origin o if at most Repairs packets
\* are missing and everything there is of o.
DecodesTo(g, o) ==
  /\ Cardinality(Missing(g)) <= Repairs
  /\ \A i \in Present(g) : g.data[i] = o
  /\ \A p \in ParityIndices : g.parity[p] = o

\* The result of the codec for a missing packet; its return value is only
\* logged.
Recovered(g) ==
  IF \E o \in Origins : DecodesTo(g, o)
  THEN CHOOSE o \in Origins : DecodesTo(g, o)
  ELSE Garbage

Decoded(g) ==
  IF CanDecode(g)
  THEN [g EXCEPT !.data = [i \in Indices |->
                   IF @[i] = Absent THEN Recovered(g) ELSE @[i]],
                 !.fwd = Indices, !.attempted = TRUE, !.succeeded = TRUE]
  ELSE g

Consumed_missing(g) == Cardinality(Missing(g))
Consumed(g) == IF g.attempted THEN 0 ELSE Repairs

-----------------------------------------------------------------------------
(* handle_fragment *)

SendSets(S) ==
  {sent \in SUBSET S : /\ sent # S => FALSE \in SendOutcomes
                       /\ sent # {} => TRUE \in SendOutcomes}

CountOut(out) ==
  /\ copies' = [p \in Packets |-> IF p \in out /\ copies[p] < 2
                                  THEN copies[p] + 1 ELSE copies[p]]
  /\ garbled' = (garbled \/ \E x \in out : x[1] = Garbage)

Received(f) ==
  /\ arrived' = arrived \cup {f}
  /\ stats.received < MaxArrivals

DropMalformed(f) ==
  /\ ~f.fits
  /\ Received(f)
  /\ stats' = [stats EXCEPT !.received = @ + 1]
  /\ UNCHANGED <<gens, copies, garbled>>

CountOpened(f) ==
  [stats EXCEPT !.received = @ + 1,
                !.gens = IF IsKnown(f) /\ ~IsReset(f) THEN @ ELSE @ + 1]

\* An unknown type or an index out of range still takes the slot.
RejectIndex(f) ==
  /\ f.fits
  /\ ~IsData(f) /\ ~IsParity(f)
  /\ Received(f)
  /\ gens' = [gens EXCEPT ![Slot(f.id)] = Opened(f)]
  /\ stats' = CountOpened(f)
  /\ UNCHANGED <<copies, garbled>>

CountStored(c, g, f) ==
  [c EXCEPT !.data = IF IsData(f) /\ g.data[f.index] = Absent
                     THEN @ + 1 ELSE @,
            !.parity = IF IsParity(f) /\ g.parity[f.index - K] = Absent
                       THEN @ + 1 ELSE @]

\* A generation is reported when it is first found complete.
Reports(g) == g.fwd = Indices /\ ~g.reported
CountReport_both(c, g) ==
  IF ~Reports(g) THEN c
  ELSE [c EXCEPT !.noLoss = @ + 1, !.repaired = IF g.attempted THEN @ + 1 ELSE @]
CountReport(c, g) ==
  IF ~Reports(g) THEN c
  ELSE IF Missing(g) # {} \/ (g.attempted /\ ~g.succeeded)
       THEN [c EXCEPT !.decodeFailed = @ + 1]
  ELSE IF g.attempted THEN [c EXCEPT !.repaired = @ + 1]
                      ELSE [c EXCEPT !.noLoss = @ + 1]

\* process_generation marks what it forwards as forwarded whether or not
\* sendto succeeds.
Forwarded_ifMissing(g) == [g EXCEPT !.fwd = @ \cup Missing(g)]
Forwarded(g) == [g EXCEPT !.fwd = @ \cup Present(g)]

AcceptFragment(f) ==
  /\ f.fits
  /\ IsData(f) \/ IsParity(f)
  /\ Received(f)
  /\ LET g0  == Opened(f)
         g1  == StoreFragment(g0, f)
         g2  == Forwarded(g1)
         g3  == Decoded(g2)
         out == {<<g3.data[i], i>> : i \in g3.fwd \ g1.fwd}
         c1  == CountStored(CountOpened(f), g0, f)
         c2  == IF CanDecode(g2) THEN [c1 EXCEPT !.consumed = @ + Consumed(g2)]
                                 ELSE c1
     IN  /\ gens' = [gens EXCEPT ![Slot(f.id)] =
                       [g3 EXCEPT !.reported = @ \/ g3.fwd = Indices]]
         /\ stats' = CountReport(c2, g3)
         /\ \E sent \in SendSets(out) : CountOut(sent)

HandleFragment(f) == DropMalformed(f) \/ RejectIndex(f) \/ AcceptFragment(f)

RsNext == \E f \in Fragments : HandleFragment(f)

RsSpec == RsInit /\ [][RsNext]_rsVars
-----------------------------------------------------------------------------
(* Properties *)

\* Types, and the length of a generation in use is known.
RsTypeOK ==
  /\ gens \in [SlotIds -> Gen]
  /\ \A s \in SlotIds : gens[s].inUse => gens[s].len > 0
  /\ stats \in Stats
  /\ copies \in [Packets -> 0 .. 2]
  /\ garbled \in BOOLEAN
  /\ arrived \subseteq Fragments

\* g_generations_decode_failed is never raised, not even by a decoding the
\* codec reported as failed.  The generations reported as complete never exceed
\* the generations opened, though evicted and reset ones open again.
NoFailureReported == stats.decodeFailed = 0
FailuresUnreported ==
  /\ NoFailureReported
  /\ stats.noLoss + stats.repaired <= stats.gens

\* The parity counted as consumed was received: a generation evicted between
\* two decodings is not charged twice for the same fragments.
ParityConsumedReceived == stats.consumed <= stats.parity

\* A generation is forwarded as far as its fragments allow as soon as they are
\* there: all packets present have been forwarded, with every parity present
\* nothing is missing, and a complete generation has been reported.
NothingPending ==
  \A i \in SlotIds : LET g == gens[i] IN g.inUse =>
    /\ g.fwd = Present(g)
    /\ Repairs > 0 /\ AllParity(g) => Missing(g) = {}
    /\ g.reported <=> Missing(g) = {}

\* As long as an id and a length belong to one generation, the fragments in a
\* slot are all of one generation, whoever had the slot or the id before.  So
\* a decoder never sees a mixture, and what is forwarded and was not sent comes
\* of a decoding with too few parities.
IdsIdentifyGenerations ==
  \A f, h \in Fragments : f.id = h.id /\ f.len = h.len => f.origin = h.origin
SlotOrigins(g) ==
  ({g.data[i] : i \in Indices} \cup {g.parity[p] : p \in ParityIndices})
    \ {Absent, Garbage}
NothingMixed ==
  IdsIdentifyGenerations =>
    \A s \in SlotIds : \A a, b \in SlotOrigins(gens[s]) : a = b
=============================================================================
