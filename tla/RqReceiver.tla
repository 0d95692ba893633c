----------------------------- MODULE RqReceiver -----------------------------
(***************************************************************************)
(* The RaptorQ edge receiver (src/edge_receiver/edge_receiver_rq.c): the   *)
(* slot table of blocks being decoded, the table of completed block ids,   *)
(* the forwarding of original packets and of decoded ones, and the         *)
(* counters the summary reports.                                           *)
(*                                                                         *)
(* One step handles one datagram, whichever of the two sockets it was read *)
(* from: the handler does not look at the socket.  The environment is an   *)
(* arbitrary network: a symbol of Symbols may arrive late, never, out of   *)
(* order and, if Duplication, more than once.                              *)
(*                                                                         *)
(* A symbol carries the header the gateway wrote and, as a ghost, origin,  *)
(* the gateway block whose data it was computed from.  Ids are reused when *)
(* the 16-bit counter wraps or the gateway restarts; origins are not.  The *)
(* packet an ORIG symbol carries is <<origin, esi>>.                       *)
(***************************************************************************)
EXTENDS Integers, Sequences, FiniteSets

CONSTANTS
  Symbols,         \* the symbols the network may deliver
  BlockSize,       \* --block-size of the receiver (1..8 in the code)
  MaxBlocks,       \* slots, and entries of the completed table (1024)
  MaxSyms,         \* symbols kept per block (40 in the code)
  Duplication,     \* may the network deliver a symbol twice?
  SendOutcomes,    \* results of sendto on the raw socket: TRUE is success
  DecodeOutcomes,  \* results of rq_decode on enough symbols
  InitOutcomes,    \* results of rq_init
  MaxArrivals      \* bound on the datagrams handled

Symbol == [origin : Nat, id : Nat, k : Nat, esi : Nat, src : BOOLEAN,
           fits : BOOLEAN]

ASSUME SymbolsAssumption == Symbols \subseteq Symbol
ASSUME SizesAssumption ==
  /\ BlockSize \in Nat \ {0}
  /\ MaxBlocks \in Nat \ {0}
  /\ MaxSyms \in Nat
  /\ BlockSize <= MaxSyms
  /\ MaxArrivals \in Nat
ASSUME OutcomesAssumption ==
  /\ Duplication \in BOOLEAN
  /\ SendOutcomes \subseteq BOOLEAN
  /\ DecodeOutcomes \subseteq BOOLEAN
  /\ InitOutcomes \subseteq BOOLEAN

VARIABLES
  slots,       \* blocks[]: the block decoded in each slot
  completed,   \* g_completed_blocks[0 .. g_completed_count - 1]
  stats,       \* the g_* counters
  copies,      \* history: times a packet left by the raw socket (2 = more)
  garbled,     \* history: a packet nobody sent left by the raw socket
  arrived      \* history: the symbols handled so far

vars == <<slots, completed, stats, copies, garbled, arrived>>

SlotIds == 0 .. MaxBlocks - 1
Slot(id) == id % MaxBlocks
Origins  == {s.origin : s \in Symbols}
Packets  == Origins \X (0 .. BlockSize - 1)

FreeBlock ==
  [inUse |-> FALSE, id |-> 0, ready |-> FALSE, K |-> 0, stored |-> {},
   nsrc |-> 0, npar |-> 0, fwd |-> {}, fwdCount |-> 0,
   decoded |-> FALSE, usedFec |-> FALSE, counted |-> FALSE]

Block ==
  [inUse : BOOLEAN, id : Nat, ready : BOOLEAN, K : 0 .. BlockSize,
   stored : SUBSET Symbols, nsrc : Nat, npar : Nat,
   fwd : SUBSET (0 .. BlockSize - 1), fwdCount : Nat,
   decoded : BOOLEAN, usedFec : BOOLEAN, counted : BOOLEAN]

Stats ==
  [gens : Nat, noLoss : Nat, repaired : Nat, decodeFail : Nat,
   data : Nat, parity : Nat, consumed : Nat]

Init ==
  /\ slots = [i \in SlotIds |-> FreeBlock]
  /\ completed = <<>>
  /\ stats = [gens |-> 0, noLoss |-> 0, repaired |-> 0, decodeFail |-> 0,
              data |-> 0, parity |-> 0, consumed |-> 0]
  /\ copies = [p \in Packets |-> 0]
  /\ garbled = FALSE
  /\ arrived = {}

-----------------------------------------------------------------------------
(* The table of blocks.                                                    *)
(* Operators named X_bug are X with a seeded bug.  Nothing uses them: they *)
(* show that the properties are sensitive to the code they are about.      *)

IsBlockCompleted(id) == \E i \in DOMAIN completed : completed[i] = id

MarkBlockCompleted_unbounded(id) == completed' = Append(completed, id)
MarkBlockCompleted(id) ==
  completed' = IF Len(completed) < MaxBlocks THEN Append(completed, id)
                                             ELSE completed

GetBlock_anyId(id) ==
  IF slots[Slot(id)].inUse THEN slots[Slot(id)]
  ELSE [FreeBlock EXCEPT !.inUse = TRUE, !.id = id]

\* get_block: a slot held by another id is taken over without notice.
GetBlock(id) ==
  LET b == slots[Slot(id)]
  IN  IF b.inUse /\ b.id = id THEN b
      ELSE [FreeBlock EXCEPT !.inUse = TRUE, !.id = id]

InitDecoder_noClamp(b, k, ok) ==
  IF b.ready THEN b
  ELSE [b EXCEPT !.ready = ok, !.K = k, !.stored = {}, !.fwdCount = 0,
                 !.nsrc = 0, !.npar = 0, !.counted = FALSE]

\* The lazy set-up of the decoder.  It runs again on the next symbol after
\* rq_init failed, and then forgets the symbols but not the forwarded flags.
InitDecoder(b, k, ok) ==
  IF b.ready THEN b
  ELSE [b EXCEPT !.ready = ok,
                 !.K = IF k = 0 \/ k > BlockSize THEN BlockSize ELSE k,
                 !.stored = {}, !.fwdCount = 0, !.nsrc = 0, !.npar = 0,
                 !.counted = FALSE]

HasEsi(b, esi) == \E t \in b.stored : t.esi = esi

StoreSymbol(b, s) ==
  [b EXCEPT !.nsrc = IF s.src THEN @ + 1 ELSE @,
            !.npar = IF s.src THEN @ ELSE @ + 1,
            !.stored = IF Cardinality(@) < MaxSyms THEN @ \cup {s} ELSE @]

AllForwarded_offByOne(b) == 0 .. b.K \subseteq b.fwd
AllForwarded(b) == 0 .. b.K - 1 \subseteq b.fwd

-----------------------------------------------------------------------------
(* Forwarding and decoding *)

ForwardSource_again(b, s, ok) ==
  IF s.src /\ s.esi < b.K /\ ok
  THEN [b EXCEPT !.fwd = @ \cup {s.esi}, !.fwdCount = @ + 1]
  ELSE b
ForwardSource_offByOne(b, s, ok) ==
  IF s.src /\ s.esi < b.K - 1 /\ s.esi \notin b.fwd /\ ok
  THEN [b EXCEPT !.fwd = @ \cup {s.esi}, !.fwdCount = @ + 1]
  ELSE b

\* An ORIG symbol is forwarded at once unless its index already was.
ForwardSource(b, s, ok) ==
  IF s.src /\ s.esi < b.K /\ s.esi \notin b.fwd /\ ok
  THEN [b EXCEPT !.fwd = @ \cup {s.esi}, !.fwdCount = @ + 1]
  ELSE b

CanDecode_strict(b) ==
  b.ready /\ ~b.decoded /\ b.fwdCount < b.K /\ Cardinality(b.stored) > b.K
CanDecode(b) ==
  /\ b.ready
  /\ ~b.decoded
  /\ b.fwdCount < b.K
  /\ Cardinality(b.stored) >= b.K

Decoded_countsUnsent(b, sent) ==
  [b EXCEPT !.fwd = @ \cup sent, !.fwdCount = b.K,
            !.usedFec = @ \/ sent # {}, !.decoded = TRUE, !.counted = TRUE]

\* After rq_decode succeeded: sent are the missing packets whose sendto
\* succeeded; the block counts as decoded whether or not all did.
Decoded(b, sent) ==
  [b EXCEPT !.fwd = @ \cup sent, !.fwdCount = @ + Cardinality(sent),
            !.usedFec = @ \/ sent # {}, !.decoded = TRUE, !.counted = TRUE]

SendResults(missing) ==
  {sent \in SUBSET missing :
     /\ sent # missing => FALSE \in SendOutcomes
     /\ sent # {} => TRUE \in SendOutcomes}

\* try_decode_and_forward: the blocks it may leave b as.
TryDecode(b) ==
  IF CanDecode(b)
  THEN {Decoded(b, sent) : sent \in
          IF TRUE \in DecodeOutcomes
          THEN SendResults((0 .. b.K - 1) \ b.fwd) ELSE {}}
       \cup (IF FALSE \in DecodeOutcomes THEN {b} ELSE {})
  ELSE {b}

Consumed_wholeBlock(b) == IF b.counted THEN 0 ELSE b.K
Consumed(b) == IF b.counted \/ b.nsrc >= b.K THEN 0 ELSE b.K - b.nsrc

\* rq_decode returns the origin's packets when every stored symbol is of one
\* origin whose block has b.K packets, and other bytes when it mixes them.
DecodesTo(b, o) == \A t \in b.stored : t.origin = o /\ t.k = b.K

\* Packets that leave when index set new of block b is forwarded by decoding.
DecodedPackets(b, new) ==
  {p \in Packets : p[2] \in new /\ b.stored # {} /\ DecodesTo(b, p[1])}

CountCopies(out) ==
  copies' = [p \in Packets |-> IF p \in out /\ copies[p] < 2
                               THEN copies[p] + 1 ELSE copies[p]]

-----------------------------------------------------------------------------
(* handle_rq_symbol, one action per way out of it *)

CountFragment(s) == IF s.src THEN [stats EXCEPT !.data = @ + 1]
                             ELSE [stats EXCEPT !.parity = @ + 1]

\* The header promises more payload than the datagram has, or none.
DropMalformed(s) ==
  /\ ~s.fits
  /\ stats' = CountFragment(s)
  /\ arrived' = arrived \cup {s}
  /\ UNCHANGED <<slots, completed, copies, garbled>>

Opened(s, ok) == InitDecoder(GetBlock(s.id), s.k, ok)

\* Late symbols are discarded, but only after the check for a stored ESI,
\* which jumps over the discard.
PassesDiscard_sources(b, s) ==
  HasEsi(b, s.esi) \/ ~IsBlockCompleted(s.id) \/ s.src
PassesDiscard(b, s) == HasEsi(b, s.esi) \/ ~IsBlockCompleted(s.id)

\* A new symbol of a completed block is stored in a block opened again for
\* it, and nothing else happens.
StoreLate(s) ==
  /\ s.fits
  /\ \E ok \in InitOutcomes :
       LET b == Opened(s, ok)
       IN  /\ ~PassesDiscard(b, s)
           /\ slots' = [slots EXCEPT ![Slot(s.id)] = StoreSymbol(b, s)]
  /\ stats' = CountFragment(s)
  /\ arrived' = arrived \cup {s}
  /\ UNCHANGED <<completed, copies, garbled>>

\* finalize_block: classify block b, remember its id, free its slot; c holds
\* the counters so far.
FinalizeBlock(b, c) ==
  /\ slots' = [slots EXCEPT ![Slot(b.id)] = FreeBlock]
  /\ MarkBlockCompleted(b.id)
  /\ stats' = [c EXCEPT !.gens = @ + 1,
       !.noLoss = IF AllForwarded(b) /\ ~b.usedFec THEN @ + 1 ELSE @,
       !.repaired = IF AllForwarded(b) /\ b.usedFec THEN @ + 1 ELSE @,
       !.decodeFail = IF AllForwarded(b) THEN @ ELSE @ + 1]

Finish(b, c) ==
  \/ AllForwarded(b) /\ FinalizeBlock(b, c)
  \/ /\ ~AllForwarded(b)
     /\ slots' = [slots EXCEPT ![Slot(b.id)] = b]
     /\ stats' = c
     /\ UNCHANGED completed

\* A symbol that gets past the discard of late ones: a new one of a block not
\* completed, or one whose ESI is stored, completed block or not.
Process(s) ==
  /\ s.fits
  /\ \E initOk \in InitOutcomes, sendOk \in SendOutcomes :
       LET b0 == Opened(s, initOk)
           b1 == IF HasEsi(b0, s.esi) THEN b0 ELSE StoreSymbol(b0, s)
           b2 == ForwardSource(b1, s, sendOk)
       IN  /\ PassesDiscard(b0, s)
           /\ \E b3 \in TryDecode(b2) :
                LET new  == b3.fwd \ b2.fwd
                    orig == IF b2.fwd # b1.fwd
                            THEN {<<s.origin, s.esi>>} ELSE {}
                    used == IF b3.decoded /\ ~b2.decoded
                            THEN Consumed(b2) ELSE 0
                IN  /\ Finish(b3, [CountFragment(s) EXCEPT
                                     !.consumed = @ + used])
                    /\ CountCopies(orig \cup DecodedPackets(b2, new))
                    /\ garbled' = (garbled \/ \E i \in new :
                         \A o \in Origins : ~DecodesTo(b2, o))
  /\ arrived' = arrived \cup {s}

HandleRqSymbol(s) == DropMalformed(s) \/ StoreLate(s) \/ Process(s)

-----------------------------------------------------------------------------
MayArrive(s) ==
  /\ stats.data + stats.parity < MaxArrivals
  /\ Duplication \/ s \notin arrived

Next == \E s \in Symbols : MayArrive(s) /\ HandleRqSymbol(s)

Spec == Init /\ [][Next]_vars
-----------------------------------------------------------------------------
(* Properties *)

TypeOK ==
  /\ slots \in [SlotIds -> Block]
  /\ completed \in Seq(Nat)
  /\ stats \in Stats
  /\ copies \in [Packets -> 0 .. 2]
  /\ garbled \in BOOLEAN
  /\ arrived \in SUBSET Symbols

\* A block all of whose packets left does not stay in the table: whichever
\* mix of originals, decoded packets and failed sends completed it, the
\* handler that completes it also finalizes it (main loop never revisits a
\* block), so its latency and goodput are counted.
NoFinishedBlockHeld ==
  \A i \in SlotIds :
    slots[i].inUse => \E j \in 0 .. slots[i].K - 1 : j \notin slots[i].fwd

\* The generation counters of the summary add up, and g_gens_decode_fail,
\* which run_experiment.py reads as its decode_failures criterion, is never
\* raised: finalize_block is only reached by blocks that are complete.
CountersAddUp ==
  /\ stats.gens = stats.noLoss + stats.repaired
  /\ stats.decodeFail = 0
  /\ Len(completed) = IF stats.gens < MaxBlocks THEN stats.gens ELSE MaxBlocks

\* g_total_parity_consumed never exceeds the repair symbols received, though
\* it is computed as K - nsrc_unique and not from the repairs themselves.
ConsumedWithinReceived == stats.consumed <= stats.parity

\* If ids are not reused and the two sides agree on block sizes, then no
\* block mixes symbols of two gateway blocks and rq_decode never hands out a
\* packet nobody sent, though slots are shared by ids and taken over silently.
IdsIdentifyBlocks ==
  /\ \A s, t \in Symbols : s.id = t.id => s.origin = t.origin /\ s.k = t.k
  /\ \A s \in Symbols : s.k \in 1 .. BlockSize
NothingFabricated == IdsIdentifyBlocks => ~garbled

\* When rq_init, rq_decode and the raw socket never fail, a block that holds K
\* symbols has been delivered: there is no state in which the symbols are
\* there, the block is not completed, and only a further symbol would make
\* the receiver try again.
NothingFails ==
  /\ InitOutcomes = {TRUE}
  /\ SendOutcomes = {TRUE}
  /\ DecodeOutcomes = {TRUE}
EnoughSymbolsDeliver ==
  NothingFails =>
    \A i \in SlotIds :
      slots[i].inUse /\ ~IsBlockCompleted(slots[i].id)
        => Cardinality(slots[i].stored) < slots[i].K

\* The forwarded flags and forwarded_count, which guards decoding: the count
\* never runs ahead of the flags, so decoding is never skipped for a block
\* with a packet missing, even after rq_init failed and reset the count.
CountBehindFlags ==
  \A i \in SlotIds : slots[i].fwdCount <= Cardinality(slots[i].fwd)

\* A symbol of a block that is completed delivers nothing (the comments
\* "descartar completamente símbolos de bloques finalizados" and "Descartar
\* símbolos tardíos" of handle_rq_symbol).
LateSymbolsDiscarded ==
  [][\A p \in Packets : \A s \in Symbols :
       s.origin = p[1] /\ IsBlockCompleted(s.id) => copies'[p] = copies[p]]_vars
=============================================================================
