# OpenMC: TLA+ models, checks and proofs

OpenMC carries UDP traffic of an application over two lossy paths at once and
protects it with forward error correction. A *processing host* (gateway) takes
packets from an NFQUEUE, groups them into blocks, sends each packet at once as
an ORIG symbol over one of the paths, and follows a full block with repair
symbols. An *edge receiver* hands originals on as they come, decodes what is
missing and hands that on, too. There are two code families, RaptorQ (RQ) and
Reed-Solomon (RS), each with its own pair of programs.

## Components of the system

| Component | Source | State it keeps | Operations | Modelled in |
|---|---|---|---|---|
| RQ gateway | `src/processing_host/openmc_rq.c` | block slots, current block, next id, metrics, counters | main loop: read metrics, `handle_ip_packet`, `alloc_new_block`, `send_rq_symbol` | `RqGateway` |
| Decision Engine | same file, 172-890 | per-policy copy of the metrics, round-robin counter | path, repairs, block length | `DecisionEngine` |
| RQ edge receiver | `src/edge_receiver/edge_receiver_rq.c` | block slots, table of completed ids, counters | `handle_rq_symbol`, `try_decode_and_forward`, `finalize_block` | `RqReceiver` |
| RQ data path | both, and the two paths | symbols in flight | send, deliver, lose, duplicate | `RqSystem`, `PacketDelivery` |
| RS gateway | `src/processing_host/openmc_rs.c` | current and pending generation | `handle_ip_packet`, `flush_generation` | `RsGateway` |
| RS edge receiver | `src/edge_receiver/edge_receiver_rs.c` | generation slots, counters | `handle_fragment`, `process_generation`, `try_decode_generation` | `RsReceiver` |
| RS data path | both, and the two paths | fragments in flight | send, deliver, lose, duplicate | `RsSystem`, `PacketDelivery` |
| Path monitor | `src/monitoring/path_monitor.py` | ping windows, metrics file | measure, truncate, write | `PathMonitor` (with the reader, `Fetch`) |
| Destination server | `src/applications/destination_server.c` | current run, table of seen numbers, counters, stop flag | receive, take up a run, count, summarise, stop | `DestinationServer` |
| Traffic generator | `src/applications/traffic_generator.c` | nominal slot, counters, scheduler snapshots | check, pace, sleep, recheck, send, report | `TrafficGenerator` |
| End-to-end application | the last two | datagrams in flight | send, deliver, repeat, lose | `Application` |
| Experiment runner | `scripts/run_experiment.py` | place in its script, processes, pid files, output files, manifest | clean up, start, await, run traffic, signal, collect, judge, the finally | `Experiment` (the programs it runs: `Programs`) |
| Codecs | lcrq, libfec | | encode, decode | external |
| Setup, validation, figures, legacy | `scripts/*.sh`, `reproducibility/`, `legacy/` | none of their own | | not modelled |

The parts talk by datagrams (gateway to receiver, over two independent paths),
by the kernel (NFQUEUE into the gateway, raw socket out of the receiver), and by
a file (monitor to gateway). Nothing is acknowledged and nothing is retried.
Each program is single-threaded except the monitor. What is hard is in
between: two paths with arbitrary relative delay, late, lost and duplicated
symbols, slots shared by ids modulo the table size, 16-bit ids that wrap, calls
that fail halfway, and counters an experiment is judged by.

What makes each component correct:

- *RQ gateway*: at most one block is open, nothing overwrites it, a block that is
  given up frees its slot, repairs belong to full blocks and follow their originals.
  That a packet taken from the kernel leaves is *not* among them: it is dropped
  when a call fails.
- *Decision Engine*: decisions stay within the configured limits.
- *RQ receiver*: never a packet nobody sent, never one twice, always the whole
  block once K symbols are there, counters that add up.
- *Data path*: at-most-once delivery of offered packets, and delivery despite
  as many losses as there are repairs.
- *RS pair*: the same, with all parities needed for decoding.
- *Monitor*: the gateway's figures are of one measurement.
- *Generator*: one datagram per slot, none outside the window, no burst after
  being held up, and the whole target if nothing holds it up.
- *Server*: each packet is counted once and in the right run, a summary says
  what came and a server told to stop gives one.
- *Runner*: a run marked valid was judged by what its own programs counted,
  every attempt ends, and a judged one leaves no program behind.

## Modules

- `DecisionEngine` - the policies as operators of the last loss figures, in
  basis points. `Policy`, `BlockSize` and `Repairs` are the command line.
- `RqGateway` (EXTENDS it) - one step is one pass of the main loop. The four
  ways through `handle_ip_packet` are `IgnorePacket`, `FailToOpen`,
  `ContinueBlock` and `StartBlock`; closing a block on a change of length is
  part of the last two, as the recursive call in the code is. `TakePacket` is
  the common tail: store, send the ORIG, and if that fills the block encode, send
  the repairs and release the slot. `wire` is what the two UDP sockets sent.
- `RqReceiver` - one step is one call of `handle_rq_symbol`. `DropMalformed`,
  `StoreLate` and `Process` are its ways out. The network is arbitrary: any
  symbol of `Symbols` may come next. `copies`, `garbled` and `arrived` are
  history variables.
- `RqSystem` (EXTENDS `RqGateway`, instantiates `RqReceiver`) - the head of a
  path is delivered, lost, or delivered and left in place.
- `PacketDelivery` - the abstract service: offered packets are delivered at most
  once, in any order, nothing else is delivered. `RqSystem!ImplementsDelivery`
  is the refinement.
- `RsGateway`, `RsReceiver`, `RsSystem` - the same three for Reed-Solomon. One
  gateway step is one packet with the flush of the generation it fills;
  `pending_gen` is filled and emptied within that pass and is no state between
  passes (so the branch that would lose a second pending generation is dead).
  One receiver step is one call of `handle_fragment`: `DropMalformed`,
  `RejectIndex` (which still takes the slot) and `AcceptFragment`, with
  `process_generation` and `try_decode_generation` as the chain `Forwarded`,
  `Decoded`, `CountReport`.
- `TrafficGenerator` - one action per place of the loop where the clock is
  read or something is called: `Check`, `Pace`, `Wake`/`SleepFails`, `Recheck`,
  `Transmit`; between any two of them the clock may run (`Tick`). `behind` and
  `broken` are history variables for what the environment did.
- `DestinationServer` - one action per iteration of the receive loop (`Receive`
  with all that a datagram causes, `NothingReceived` for the time-out), the test
  of the flag, and the ways out. `heard` and `ignored` are history variables.
- `Application` (EXTENDS both) - joins them by a set of datagrams in flight,
  which reorders, repeats and loses and may start with some of an earlier run.
- `Programs` - constant-level: which options each of the five long-running
  programs takes, and the stages each passes from its shell to its end, in the
  order of its `main`. Every stage before the main loop may fail; one of them
  claims what only one process can have (the NFQUEUE, the UDP ports).
- `PathMonitor` - the metrics file, truncated and then written, and its reader.
- `Experiment` (EXTENDS the last two) - `run_experiment.py`: its `try` and its
  `finally` are the sequences `Script` and `Finally` of operations, an exception
  is `Fail`. One is raised when a pid file does not come (`AwaitPid`), when the
  generator fails or its timing cannot be read (`Traffic`), when the verdict is not
  reached (`Judge`), and when the delays, the collectors, their files or a profile
  of arguments fail the runner itself (`RunnerFails`). The programs move through their stages on their own, and packets
  are counted from generator to gateway to receiver to server. An attempt may be
  repeated with the same run id (`--force`), and the runner may be killed.
  `After` is the stage a program goes on to: the next of its life that is not
  `Silent`, that is, at which something can happen to it that matters here.
- `MC*` - instances for TLC. `*Proofs` - theorems about the module of that name;
  those about `RsGateway` stand in front of those about `RsSystem` in
  `RsSystemProofs`, those about `DecisionEngine` in `RqGatewayProofs`, those about
  `DestinationServer` in `ApplicationProofs`.

Operators called `X_bug` are `X` with one plausible programming error. No
behaviour uses them; putting one in place of `X` must break the property
listed with it under `mutants` in `PROJECT.json`.

### Abstractions

- A packet is `<<origin, index>>`, where `origin` numbers the gateway's blocks
  and, unlike ids, is never reused. It is a ghost: no guard looks at it.
- `rq_decode` on K or more symbols returns the origin's packets if all symbols
  stored are of one origin and K is right, and otherwise bytes nobody sent
  (`garbled`). It may fail (`DecodeOutcomes`).
- RaptorQ draws ESIs of repairs at random: `RepairEsis`, with repetition.
- `decode_rs_char` on all columns returns the origin's packets if everything
  there is of one origin and at most `Repairs` packets are missing, otherwise
  bytes nobody sent. Its return value is only logged, so it is no outcome.
- Datagrams shorter than the header are ignored by the code without a trace and
  are left out; so are symbol lengths within a reused id, time stamps, byte
  counts, goodput and CSV output.
- The adaptive policy draws a path with odds from loss and RTT; the model allows
  either path.

## Runs

| Run | Question | Bounds |
|---|---|---|
| `rq_receiver_reliable` | do slot sharing and lateness corrupt or withhold anything? | 3 blocks of 2+1 symbols, table of 2, no duplicates |
| `rq_receiver_failures` | state and counters when calls fail | 2 blocks, 1 slot, 5 arrivals with duplicates; `MaxSyms` 3; one symbol truncated, one block longer than `BlockSize` |
| `rq_receiver_late` | are late symbols discarded? (no) | two blocks, table of 2, 6 arrivals with duplicates, no failing calls |
| `rq_gateway` | slots, decisions, what leaves in which order | quality policy, 5 packets of 4 lengths, blocks of 2, 2 slots, 3 ids, 3 repairs, 4 readings of the metrics, failing allocation and encoding |
| `rq_system_delivery` | refinement of `PacketDelivery` | adaptive policy, 5 packets, one loss, failing sends and decodes at the receiver |
| `rq_system_reach` | what arrives is delivered, protected blocks are delivered in the end | one loss, one duplicate, one repair per block |
| `rq_system_wrap` | does that survive ids that wrap? (no) | blocks of 1, 3 ids, 2 remembered |
| `rs_receiver` | do slots mix generations, are counters and work complete? | 3 generations of 2+1 in 1 slot, one with a reused id; odd indices, an unknown type, a truncated datagram; 5 arrivals, sends may fail |
| `rs_system_delivery` | refinement, arrived data and full generations are delivered | 4 packets, lengths 1 and 2 (0 and 3 invalid), K = 2 with 2 parities, one loss, one duplicate |
| `application` | pacing, window, counting, summaries, stopping | 4 packets per 9 ticks (a rounded-down period of 2), clock to 11, failing sleeps and sends; server with `-n 3`, two runs, four numbers, one beyond the table; one repeated datagram, two of an earlier run in flight |
| `experiment` | verdict, cleanup, termination, torn metrics | five experiments (`TestPlans`), together: both back ends, fixed and rate campaigns, both modes, with and without monitor; 1 or 2 packets; 1 or 2 attempts; one kill of the runner; every fault (`MayFail`) |
| `rs_system_delay` | does that survive fewer parities than packets? (no) | K = 4 with 1 parity, no loss, no duplicate |

The bounds are small but reach the cases that matter: more blocks than slots
(eviction both ways), more symbols than K, ids that wrap, both orders of original
and repair, a duplicate before and after completion, a generation cut by a
change of length, both paths ahead of the other.
Nothing in the code depends on tables being larger than these.

In all runs deadlock is not checked: the bounds on arrivals or packets end every
behaviour, the gateway's loop really ends, and so do the applications and an
experiment.

`application` uses an action constraint, `GeneratorFirst`: the server runs once
the generator has ended. That loses nothing, because all the server reads of the
generator is the set of datagrams in flight, in which one may stay for any time,
so every order of deliveries, time-outs and stop signals remains.

In `experiment` a run of packets is short, because what a packet meets on its way is
the business of the other modules; what matters here is where each program
stands when something fails, is signalled or is killed. Two attempts are what
it takes for one to meet what another left. The five plans are separate
experiments rather than one with every option, which keeps the state space
to some minutes; between them they reach every action.

### Timing in `Experiment`

The runner relies on sleeps and time-outs, and the model says what it takes them
to be enough for, nowhere more:

- a sleep (after the clean-up, after the start, before the signals) is long
  enough for the *programs* to come to rest (`AtRest`): to have ended, to be in
  the loop waiting for a packet, or not to have been reached by a slow
  `docker exec` at all. It is not long enough for packets to arrive;
- a program whose pid file is there comes to rest before the traffic starts,
  several `docker exec` later;
- the time-outs of `terminate_host_process` are long enough for a program that
  does end by itself; one that does not is left alone, without its log.

Without the second, a program that needs longer from its shell to its claim of
the port than the runner needs for everything up to the end of the traffic
could come to life when a leftover of an earlier attempt has just been woken by
the first packet; a run can then be judged valid that was carried in part by the
leftover. TLC finds that behaviour when the condition is dropped.

Even with all three, one case is left in which a valid full-mode attempt is
judged by a summary that is not its own, and `Mistakable` excepts it from
`ValidIsHonest`. A program of an earlier attempt got its `TERM` between the test
of the stop flag and the blocking call, so it is still waiting when the next
attempt has cleaned up. Its call then fails after the `rm -f`; it leaves the loop
and writes its summary at the path where the new attempt's program, which gives
only a warning when it cannot write its own, is looked for. It takes a second
attempt, a failing receive and a failing summary together. Where one of the three
is missing the summary is the attempt's own.

### Disagreements between code and comments

Three runs are expected to fail; `findings` in `PROJECT.json` quotes the comment.

- `rq_receiver_late`: a symbol of a completed block that arrives *twice* is
  not discarded. The first copy reopens the block and is stored, the second
  finds its ESI stored and jumps past the discard; an original is delivered again.
- `rq_system_wrap`: when ids wrap, new blocks under remembered ids are
  withheld. In the code that is block 65 537 and later, for 1024 ids.
- `rs_system_delay`: the Reed-Solomon receiver decodes when all parities are
  there, however many packets are missing, and ignores the decoder's error. With
  `--repairs 1` and path B slower than path A, four of eight packets are missing
  when the parity arrives; four packets nobody sent are forwarded and the
  originals, arriving later, are withheld. With more repairs it takes as many
  losses.

Three further observations follow from the model without a comment they
contradict, and are listed as hazards: after 1024 blocks the RQ receiver
remembers no more completed ones; with `--repairs 1` the quality policy still
sends 2 repairs; a packet whose `sendto` failed at the gateway is dropped from
the queue all the same. A fourth is what `FailuresUnreported` and `CountersAddUp`
say: neither receiver can ever report a decoding failure, though experiments
are judged by that counter.

Five more come from the applications and the runner:

- the generator returns 0 also after a failed `sendto`, although the comment
  above the return says "We therefore return success unless a real
  socket/runtime error caused the loop to terminate"
  (`traffic_generator.c:1658-1663`); in a rate campaign such a run can be valid;
- the `TERM` of the `finally` is the second one only for an attempt that got past its
  traffic. One that fails before, be it with all packets sent and only the
  generator's timing unreadable or inverted (`run_experiment.py:1389-1405`), goes to
  the `finally` at once; its one `TERM` may fall between the test of the stop flag
  and the blocking call, and the program stays, with its queue or ports. That is why
  `NothingLeftRunning` speaks of attempts whose traffic was sent *and timed*
  (`generator = "timed"`, the moment `window_integrity` is written into the
  manifest): with `"done"` in its place TLC shows this behaviour. The clean-up of
  the next attempt sends another `TERM`;
- `docs/experiment3-orchestration.md:157` says that for a rate campaign "structural
  validation requires a complete offered workload"; the final criteria only refuse
  *more* packets than the target, and the generator may exit with 0 having sent
  fewer. `Accepted` is what the code does, and `ValidIsHonest` says of a rate
  campaign only that the counts are in order;
- no clean-up looks for a traffic generator: one left by a runner that was killed
  during the traffic would send into the next attempt. The model does not kill
  the runner there (`RunnerKilled`);
- the metrics file is the one output that is not removed before a run: a gateway
  starts with the figures of an earlier experiment until its monitor has some.

The properties of the passing system runs therefore hold under conditions:
for RQ, `ImplementsDelivery` without duplicates, and all of them with fewer blocks
than ids and than entries in the completed table; for RS, with as many parities
as packets in a generation and fewer generations than slots, for an evicted
generation is forgotten and would deliver its late duplicates again.

### Fairness

`FairSpec` has weak fairness of `Deliver(p)` for each path, which says that a
path passes on what it does not lose and that the receiver keeps reading both
sockets: its loop tests both after every `select` and reads one datagram from
each that is ready. There is no fairness on the gateway: the application need
not send. Losses are bounded by `MaxLosses`, not by fairness. The RS receiver
reads one datagram per round, from path A if it has one, so path B is served only
when A is empty; in these instances the gateway sends finitely much and A does
run empty. With an application that keeps path A's buffer full for ever the
assumption would not be justified for B.

`FairAppSpec` has weak fairness of the server's own steps, for its loop never
waits longer than the receive time-out of 1.5 s; none of deliveries or stop
signals. `FairExpSpec` has weak fairness of `Working` as a whole: if the runner,
the generator or a program that does not wait for a packet can take a step,
one of them does. Nobody need start an attempt, no packet need come, and
steps of the monitor, which goes round for ever, count for nothing.

## Theorems

Proved by TLAPS for all values of the constants:

- `RqReceiverProofs!ReceiverTypes`: `Spec => []TypeOK`. The type invariant
  is inductive. The work is in the values the handler computes from a symbol:
  `InitDecoder` clamps K, `ForwardSource` and `TryDecode` keep indices below K,
  and K below `BlockSize`.
- `RqReceiverProofs!CountersAlwaysAddUp`: `CountersAddUp` is inductive given
  `TypeOK`: `Finish` only calls `FinalizeBlock` when `AllForwarded`, so the
  failure counter is never raised - `run_experiment.py` accepts a run on that
  counter being zero.
- `RqReceiverProofs!NothingIsFabricated`: the strengthening says that all symbols
  in a slot have the slot's id and that K is theirs; with `IdsIdentifyBlocks`
  they are of one origin, so `DecodesTo` holds whenever packets leave a decoder.
- `RqReceiverProofs!FinishedNeverHeld`: the strengthening `SlotsHeld` adds that
  a block sits in the slot of its id and that a block opened for late symbols has
  forwarded nothing before its decoder was ready. The second is needed because a
  decoder whose `rq_init` failed is set up again with the K of the next symbol,
  which may be smaller than the number of packets forwarded.
- `RqReceiverProofs!CountStaysBehind`: `forwarded_count` is reset with the decoder,
  the flags are not, and both grow by the same packets otherwise.
- `RqReceiverProofs!EnoughAlwaysDeliver`: when nothing fails the blocks of the
  table are ready, undecoded and have forwarded packets below K only (`WaitInv`).
  So after `try_decode_and_forward` a block is complete, hence finalized, or
  it has fewer than K symbols: a count of K with flags below K means all flags.
- `RqReceiverProofs!ConsumedNeverExceeds`: `SpareInv` keeps, beside what has been
  charged, the repairs stored in blocks not charged yet; a decoding has at
  least K symbols of which at most `nsrc` are originals, so K - `nsrc` of them
  are such repairs.
- `RqReceiverProofs!LateAlwaysDiscarded`: a symbol of a completed block delivers
  nothing, if the network repeats nothing and an ESI names one symbol of its id
  (`EsisIdentifySymbols`, which two equal draws of a repair's ESI would break). What
  a slot stores has arrived and has the slot's id (`StoredInv`, `IdsApart`), so a
  symbol that arrives for the first time meets no stored one of its ESI, does not
  jump over the discard, and is processed only if its block is not completed.
  `rq_receiver_late` shows the rest: with duplicates it does jump.
- `RqGatewayProofs!NoActiveBlockOverwritten`: `OnlyCurrentInUse` strengthened
  by types (`SlotsInv`). The key lemma is `NothingInUseAfterClose`: when a
  new block is needed the current one, if any, is not full, so it is the length
  that differs and it has just been closed; hence the new slot is free whatever
  its number, also when the id space is smaller than the table.
- `RqGatewayProofs!BlockSizeNeverAdapts`: no policy ever changes the block
  length, because the guardrail undoes every increase.
- `RqGatewayProofs!AdaptiveMonotone`: more loss never means fewer repairs.
- `RqGatewayProofs!GatewayTypes`, `SymbolsLeaveInOrder`, `RepairsProtectFullBlocks`
  and `RepairsWithinConfiguration`: all four from one invariant, `GateInv`: both
  wires are ordered, every symbol on them was taken, the current block has
  sent the originals of its packets and no repairs, and no other block has more
  repairs than `MostRepairs`. `SendRepairs` is a recursive function over the number of
  repairs, and its effect on the wires (`SendsRepairs`) is proved by induction on
  that number (`NatSetInduction`, below).

- `RqSystemProofs!OriginalsAlwaysReach`: whatever is lost, repeated or
  overtaken, whatever calls fail at the gateway or decode wrongly at the receiver,
  an original that arrived was handed on, if the raw socket works (`RxSendOutcomes =
  {TRUE}`) and the receiver's `--block-size` is no smaller than the gateway's; as
  long as no id has been used twice (`origin <= IdSpace`, and `rq_system_wrap`
  shows what happens then). The argument (`OriginalsInv`) is about the only
  way an original could be withheld: its index was marked as forwarded for
  another packet, or its block was completed, without its packet delivered.
- `RqSystemProofs!EnoughAlwaysDelivers`: a block of which as many symbols arrived
  as it has packets is delivered whole. Without failing calls, with a slot for each
  block (`origin <= MaxBlocks`; a block may otherwise be evicted with its
  symbols), and with ESIs of repairs that are no indices of packets
  (`rq_symbol` with `RQ_RAND` draws them at random, so the receiver may take a repair for
  an original it has; the theorem speaks of the draws in which it does not). The
  strengthening `ReachInv` says that the symbols of a block not completed are all
  in its slot. Both theorems rest on what the gateway puts on the wires
  (`GateInv`): symbols of one block agree on id and K, and blocks that are
  begun before ids wrap differ in their ids.
- `RqSystemProofs!DeliveredAtMostOnce`: the RaptorQ data path implements
  `PacketDelivery` (`ImplementsDelivery`): every step of it is a stutter, the offer of
  a packet no block has had, or the delivery of offered packets for the first
  time. Calls may fail at both ends and anything may be lost or overtaken; the
  network repeats nothing (`MaxDups = 0`), the two sides agree on
  `--block-size`, repairs have ESIs of their own and each block opened a slot of its
  own (`origin <= MaxBlocks`). What could go wrong is a completed block whose late
  symbols are stored in a slot again: `handle_rq_symbol` looks for a stored ESI before
  it discards late symbols, and two repairs drawn at random may have
  the same ESI, so one of them gets as far as `TryDecode`. The strengthening
  `LateIsFew` counts what can have been stored by then: the symbols A that
  completed the block are at least K, no original is stored twice, and the
  repairs in A, stored late, and still on the wires are together no more than were
  sent. So with at most K repairs to a block (`MostRepairs <= BlockSize`; the
  default is 4 for 8 packets, up to 32 may be configured) fewer than K late symbols meet. With 3 repairs for 2 packets and
  a repeated ESI, TLC does find a packet delivered twice. The counting is in
  `LateHasRoom`; `HandledOnce` of `RqReceiverProofs` is the receiver's half of the step,
  `GateAdds` of `RqGatewayProofs` the gateway's.

- `RsReceiverProofs!RsTypes`: types, and the length of a generation in use.
- `RsReceiverProofs!NothingEverPending` and `FailuresNeverReported`: from
  `SettledInv`. Storing a fragment unsettles a generation; forwarding makes
  `fwd` what is present, decoding happens exactly if all parities are there and
  something is missing, and then leaves nothing missing. A generation is hence
  found complete only with nothing missing, and `decode_succeeded` is set with
  `decode_attempted`, so no branch of the report reaches the failure counter.
- `RsReceiverProofs!NeverMixed`: the strengthening `SourcedInv` says that all that
  is in a slot comes from a fragment with the slot's id and length, decoded
  packets included, which have the origin of the parities they came from.
- `RsReceiverProofs!ReportedWithinOpened`: the complete generations reported and
  the ones in the table still to be reported are together at most the ones opened
  (`ReportInv`); an eviction loses one of the second kind, a reopening adds
  one and counts it.
- `RsReceiverProofs!ConsumedWasReceived`: what has been charged and the parities
  stored in generations not charged yet are together at most the parities
  received (`ChargeInv`); the first decoding takes all of its own.
- `RsSystemProofs!GenerationsHaveRoom`: packets are of generations begun, and
  the last index of the one being filled has not been taken (`Filling`), so
  the packet that completes it adds a new one to the full generations.

- `RsSystemProofs!FragmentsLeaveInOrder`: every fragment in flight was made before
  the one the gateway sends next (`InFlight`): it is of an earlier generation, or of
  the same one with a lower index. The fragments of one packet, `SendEach`, have
  rising indices, the packet's own and then the parities (`EmittedRises`), so each
  may be appended or fail to be. The invariant also says what the data path
  needs: id, origin and index of a fragment agree, and its packets were taken.
- `RsSystemProofs!DataAlwaysReaches`: a packet whose data fragment arrived has been
  delivered, if the receiver's `sendto` works. What could withhold it is a
  decoding that took place earlier with fewer parities than packets were
  missing: it marks every packet as forwarded, and what it forwarded were bytes
  nobody sent. Hence the condition `Repairs = 0 \/ Repairs >= K`; with 1 parity
  for 4 packets `rs_system_delay` shows the packet withheld. The strengthening is
  `Held` of `RsReceiverProofs`, which ties each slot to the fragments that arrived:
  all it holds is of their generation, all it forwarded was brought by one of
  them, and what was delivered is what is marked. Generations must not meet in
  a slot: `origin <= MaxGens`, with no more slots than ids.
- `RsSystemProofs!DeliveredAtMostOnce`: the Reed-Solomon data path implements
  `PacketDelivery`, under the same two conditions. Sends may fail at both ends,
  and, unlike with RaptorQ, the network may repeat anything any number of times,
  because a slot is not given up when its generation is complete. `HandledHeld`
  is the receiver's half of a step: packets delivered for the first time, each
  brought by an arrived fragment; `BackedIsOffered` says that the gateway had it.
  `SysInv` is what links the two: the fragments of one generation have one length,
  on the wires and at the receiver, or the receiver would reset its slot.

- `TrafficGeneratorProofs!TgTypeSafe`: types, and that every slot was sent,
  skipped or given up to a failed sleep.
- `TrafficGeneratorProofs!PacedSafe`: the strengthening `Paced` relates the slots
  and the times of what was sent: slots increase, a datagram leaves no earlier
  than the deadline of its slot, and before the deadline after that of the *next*
  one's slot, for `Pace` skips every slot a period or more behind. Of four in a row
  the first and the last are then more than a period apart, however long
  anything took.
- `TrafficGeneratorProofs!WindowSafe`: each datagram but the last was sent before
  a reading of the clock that lay inside the window.
- `TrafficGeneratorProofs!TargetSafe`: without lateness and failures no slot is
  lost, and the target's slots all lie inside the window, because the period
  is rounded down.

- `ApplicationProofs!DsCountsExact` and `DsSummaryTruthful`: the server alone, for
  every table, mode and sequence of datagrams. `DsInv` ties the counters, the
  table of seen numbers and the history `heard` together; the summary is
  printed at two places, and `PrintInv` says what had been heard when it was.
- `ApplicationProofs!AppTypeSafe`, `AppPaced`, `AppCountsExact` and
  `AppSummaryTruthful`: each step of the composition is a step of one of the two and
  none of the other, so their invariants hold together, beside the typing of
  what is in flight.

- `ExperimentProofs`: five theorems from one inductive invariant, for every set of
  plans, number of attempts, combination of faults, and kill of the runner.
  `ExperimentTypes`, `ExperimentIsHonest`, `ExperimentLeavesNothing` and
  `ExperimentMetrics` state the properties of the run `experiment`;
  `ExperimentInvariant` is the invariant, `ExpInv`, which TLC has also checked on
  that run's plans. The next section is about it.

### The invariant of the experiment

The verdict is given some twenty operations after the programs it is about were
started, and the properties speak of the end only. Each conjunct of `ExpInv` says
what is known on the way there; none can be left out:

- `Types`, `Sound` (each program by itself: its stage is one of its life, it has
  counted nothing before it serves, it has logged only on the way out), `Course`
  (no traffic before its place in the script, one start of each program);
- `Exclusive`: nobody claims what another program holds;
- `Cleaning` and `OldStop`: after the `pkill` every program alive has been told to
  stop; after the rest behind it, one of an earlier attempt is past its start and
  on its way out, so it writes no pid file any more, and it never serves beside
  the attempt's own, which could not have claimed its queue or ports;
- `Named`: hence after the `rm -f` a pid file is empty or of this attempt, and
  after the wait for it, of this attempt's program;
- `Stopping`: hence the kill by pid file reaches that program. If its `TERM` was
  lost before the blocking call, the program has entered the call by the time the
  `finally` signals it again, which is why after that it is in no loop. All this is
  about attempts whose traffic was timed: of the others only the `finally` signals;
- `Logs` and `Summaries`: a log that is read is that of a program that has gone, or
  will never hold the statistics; a summary at the attempt's path was written by the
  attempt's program with its count, or by a leftover whose receive failed;
- `Chain`: no program has counted more than the one before it passed on, with what
  is still on the way between them;
- `Judged`: what the verdict rests on, which the programs and the runner leave
  alone after it was given.

The lives of the programs and the runner's scripts are sequences put together
from optional parts. `GatewayStages`, `ReceiverStages`, `ServerStages`, `ScriptIs` and
`FinallyIs` turn them into tables once: which stage follows which, which operation
stands at which place (the monitor shifts the places by `M`). The steps are
then described once, too, in a form the conjuncts can use: `StepFacts` for a
program (`StepIs`), `RunnerFacts` for the runner (`RunnerStepIs`), `Quiet` for
those that touch no program (`QuietIs`), `Fresh` for the start of an attempt
(`InvokeIs`). All but the last have `Going` in common, in which every program
`Evolves` along its life. There is one lemma per conjunct and kind of step.

The constants' assumptions are the named ASSUMEs in the modules; TLC evaluates
them in every run.

The library's induction theorems take an operator and cannot be used here. Induction
over a *set* of numbers can: `NatSetInduction` follows from the least element of
a set of naturals (`NatLessThanWellFounded`, `WFMin`), and serves where the model has
a recursive function over a number.

With these, every state invariant, action property and refinement that a passing
run checks is proved.

Only model-checked is liveness, which is out of the prover's reach:
`FullIsDelivered`, `ProtectedIsDelivered`, `StopReports` and `RunnerFinishes`. The
properties of the three runs that are expected to fail are theorems only under the
conditions given above, which those runs drop.

## Plan

1. (done) RQ receiver, RQ gateway with Decision Engine, their composition, the
   abstract service, first theorems.
2. (done) RS gateway, receiver, their composition and the first theorems.
3. (done) `TrafficGenerator`, `DestinationServer`, their composition
   `Application`, and the theorems about pacing.
4. (done) `Programs`, `PathMonitor` and `Experiment`: process life cycles,
   failures, kills, cleanup, verdict.
5. (done) The counters of both receivers, delivery by enough symbols, room in
   the generations of the RS gateway.
6. (done) The gateway's wires, the RaptorQ data path, the server's counts and
   summaries; the refinement of the abstract service by the RaptorQ data path.
7. (done) The order of fragments of the RS gateway, the Reed-Solomon data path and its
   refinement of the abstract service.
8. (done) The experiment's verdict, cleanup and exclusive claims.

## Not modelled

- The codecs are external libraries; what they return is an outcome.
- The formats of reports and CSV files, and timing and goodput figures: nothing
  that runs depends on them.
- The resource collectors, the delays set by `set_bleo_delay.py`, dry runs and
  `run_matrix.py`: the first two change no verdict, the last calls the runner for
  one line of a table after another.
- The socket server of the path monitor: nothing in the repository connects to it.
- Shell scripts for set-up and validation, and figure generation: sequential,
  without state the others depend on.
- `legacy/`: earlier versions of the same programs, neither built nor run by
  anything else in the repository.
