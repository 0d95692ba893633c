--------------------------- MODULE DecisionEngine ---------------------------
(***************************************************************************)
(* The RaptorQ gateway's Decision Engine (src/processing_host/openmc_rq.c):*)
(* which path a symbol takes, how many repair symbols a block gets, and    *)
(* how long a block is, from the last loss figures of the two paths.       *)
(*                                                                         *)
(* Losses are in basis points (0.005 is 50).  RTT and the pseudo-random    *)
(* sequence enter only the odds with which "adaptive" draws a path, so     *)
(* that draw is either path.                                               *)
(***************************************************************************)
EXTENDS Integers

CONSTANTS
  Policy,     \* --policy
  BlockSize,  \* --block-size (1..8 in the code)
  Repairs     \* --repairs (0..32 in the code)

Policies == {"default", "quality", "adaptive"}
Ifaces == {"A", "B"}
Metrics == [lossA : Nat, lossB : Nat]
NoMetrics == [lossA |-> 0, lossB |-> 0]

ASSUME PolicyAssumption == Policy \in Policies
ASSUME EngineSizesAssumption == BlockSize \in Nat \ {0} /\ Repairs \in Nat

\* Twice the average loss of the paths.
TwiceAverage(m) == m.lossA + m.lossB

MinRepairs == IF Policy = "quality" THEN 2 ELSE 1
MaxRepairs == IF Repairs > 0 THEN Repairs ELSE 2

\* "quality" takes the bounds as they come, also when the minimum of two
\* exceeds the configured maximum.  No loss at all reads as no metrics.
QualityRepairs(m) ==
  LET middle == (MinRepairs + MaxRepairs) \div 2
      loss == TwiceAverage(m)
  IN  IF loss = 0 THEN middle
      ELSE IF loss < 100 THEN MinRepairs
      ELSE IF loss < 400 THEN middle
      ELSE MaxRepairs

\* "adaptive" exchanges the bounds first if they are in the wrong order.
AdaptiveRepairs(m) ==
  LET low  == IF MaxRepairs < MinRepairs THEN MaxRepairs ELSE MinRepairs
      high == IF MaxRepairs < MinRepairs THEN MinRepairs ELSE MaxRepairs
      loss == TwiceAverage(m)
  IN  IF loss <= 20 THEN low
      ELSE IF loss <= 200 THEN (low + high) \div 2
      ELSE high

DecideRepairs(m) ==
  CASE Policy = "default"  -> Repairs
    [] Policy = "quality"  -> QualityRepairs(m)
    [] Policy = "adaptive" -> AdaptiveRepairs(m)

\* The block length a policy asks for: twice the configured one on a calm
\* network, which to "quality" one without any loss is not.
DefaultBlockSize == BlockSize
QualityBlockSize(m) ==
  IF TwiceAverage(m) \in 1 .. 199 THEN 2 * BlockSize ELSE BlockSize
AdaptiveBlockSize(m) ==
  IF TwiceAverage(m) <= 40 THEN 2 * BlockSize ELSE BlockSize

AskedBlockSize(m) ==
  CASE Policy = "default"  -> DefaultBlockSize
    [] Policy = "quality"  -> QualityBlockSize(m)
    [] Policy = "adaptive" -> AdaptiveBlockSize(m)

\* The guardrail of handle_ip_packet: not zero, not above --block-size.
DecideBlockSize(m) ==
  IF AskedBlockSize(m) \in 1 .. BlockSize THEN AskedBlockSize(m)
                                          ELSE BlockSize

\* The path of a symbol: by the parity of its index; the one with less loss,
\* or in turn if neither has any (rr is the parity of quality's rr_counter);
\* or drawn with odds that are never zero for either.
DefaultIface(esi) == IF esi % 2 = 1 THEN "B" ELSE "A"
QualityIface(m, rr) ==
  IF m.lossA = 0 /\ m.lossB = 0
  THEN IF rr = 1 THEN "B" ELSE "A"
  ELSE IF m.lossA <= m.lossB THEN "A" ELSE "B"
AdaptiveIfaces == Ifaces

\* The paths a symbol may take.
ChooseIface(m, rr, esi) ==
  CASE Policy = "default"  -> {DefaultIface(esi)}
    [] Policy = "quality"  -> {QualityIface(m, rr)}
    [] Policy = "adaptive" -> AdaptiveIfaces

NextRr(m, rr) ==
  IF Policy = "quality" /\ m.lossA = 0 /\ m.lossB = 0 THEN 1 - rr ELSE rr
=============================================================================
