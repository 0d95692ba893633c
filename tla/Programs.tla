------------------------------ MODULE Programs ------------------------------
(***************************************************************************)
(* The long-running programs of an experiment as seen from outside: which  *)
(* options each takes, and the stages it passes from its start to its end. *)
(*                                                                         *)
(* A stage is named for what the program does in it.  Any stage before     *)
(* "test" may fail and end the program; "signals" installs the handler that *)
(* makes a TERM a request to stop.  "test", "about" and "wait" are the     *)
(* main loop: the test of the stop flag, the moment between that test and  *)
(* the blocking call, and the call.                                        *)
(***************************************************************************)
EXTENDS Integers, Sequences

KData == 8        \* K_DATA, the same in all four programs
MaxParity == 32   \* MAX_PARITY; a bare 32 in openmc_rq.c

Policies == {"default", "quality", "adaptive"}

\* A command line, as far as its acceptance goes.  "wellFormed": every
\* number is one, every name fits and nothing is left over; "addressed": the
\* peers are IPv4 addresses; "output": a summary or block file was asked for;
\* "named": a run id was given; "found": the network interfaces exist.
Options == [block : Nat, repairs : Nat, policy : Policies,
            wellFormed : BOOLEAN, addressed : BOOLEAN, output : BOOLEAN,
            named : BOOLEAN, found : BOOLEAN]

RqGatewayTakes(o) ==
  /\ o.wellFormed
  /\ o.block \in 1 .. KData /\ o.repairs \in 0 .. MaxParity
  /\ o.policy \in Policies
  /\ o.output => o.named
  /\ o.addressed /\ o.found

RsGatewayTakes(o) ==
  /\ o.wellFormed
  /\ o.block \in 1 .. KData /\ o.repairs \in 0 .. MaxParity
  /\ o.policy = "default"
  /\ o.output => o.named
  /\ o.addressed /\ o.found

\* It has no --repairs: the number comes with each symbol.
RqReceiverTakes(o) ==
  /\ o.wellFormed
  /\ o.block \in 1 .. KData
  /\ o.output => o.named
  /\ o.found

RsReceiverTakes(o) ==
  /\ o.wellFormed
  /\ o.block \in 1 .. KData /\ o.repairs \in 0 .. MaxParity
  /\ o.output => o.named
  /\ o.found

-----------------------------------------------------------------------------
(* The stages before the main loop, program by program in the order of its *)
(* main.  Each is one that can fail.                                       *)
\* The decision engine, the path sockets, the NFQUEUE handle; "queue" claims
\* the queue, "mode" asks for whole packets.
RqGatewayEngine == <<"engine">>
RqGatewaySockets == <<"sockets">>
RqGatewayQueue == <<"open", "queue", "mode">>
RqGatewayStart ==
  <<"options">> \o RqGatewayEngine \o RqGatewaySockets \o RqGatewayQueue
    \o <<"signals">>

\* Without repairs there is no codec.
RsGatewayCodec(o) == IF o.repairs = 0 THEN <<>> ELSE <<"codec">>
RsGatewaySockets == <<"sockets">>
RsGatewayQueue == <<"open", "queue", "mode">>
RsGatewayStart(o) ==
  <<"options">> \o RsGatewayCodec(o) \o RsGatewaySockets \o RsGatewayQueue
    \o <<"signals">>

\* "blocks" opens the block metrics, "ports" claims the UDP port on both
\* interfaces, "raw" creates the output socket.
RqReceiverBlocks(o) == IF o.output THEN <<"blocks">> ELSE <<>>
RqReceiverPorts == <<"ports">>
RqReceiverRaw == <<"raw">>
RqReceiverStart(o) ==
  <<"options">> \o RqReceiverBlocks(o) \o RqReceiverPorts \o RqReceiverRaw
    \o <<"signals">>

RsReceiverBlocks(o) == IF o.output THEN <<"blocks">> ELSE <<>>
RsReceiverCodec(o) == IF o.repairs = 0 THEN <<>> ELSE <<"codec">>
RsReceiverPorts == <<"ports">>
RsReceiverRaw == <<"raw">>
RsReceiverStart(o) ==
  <<"options">> \o RsReceiverBlocks(o) \o RsReceiverCodec(o)
    \o RsReceiverPorts \o RsReceiverRaw \o <<"signals">>

\* The destination server installs its handler before it has a socket.
ServerStart == <<"signals", "bind">>

Loop == <<"test", "about", "wait">>
\* The server's call has a timeout, so that a signal before it is noticed as
\* well as one in it, only later.
ServerLoop == <<"wait">>

(* The stages after it: "statistics" prints them, "summary" writes the file *)
(* if one was asked for, "release" gives up the queue or the ports.        *)
RqGatewaySummary == <<"summary">>
RqGatewayEnd == <<"statistics">> \o RqGatewaySummary \o <<"release">>
RsGatewaySummary == <<"summary">>
RsGatewayEnd == <<"statistics">> \o RsGatewaySummary \o <<"release">>
RqReceiverSummary == <<"summary">>
RqReceiverEnd == <<"statistics">> \o RqReceiverSummary \o <<"release">>
RsReceiverSummary == <<"summary">>
RsReceiverEnd == <<"statistics">> \o RsReceiverSummary \o <<"release">>
ServerEnd == <<"statistics", "release">>

\* The whole life of a program, from the shell that starts it.
Life(backend, role, o) ==
  CASE role = "gateway" /\ backend = "rq" ->
         <<"shell">> \o RqGatewayStart \o Loop \o RqGatewayEnd
    [] role = "gateway" /\ backend = "rs" ->
         <<"shell">> \o RsGatewayStart(o) \o Loop \o RsGatewayEnd
    [] role = "receiver" /\ backend = "rq" ->
         <<"shell">> \o RqReceiverStart(o) \o Loop \o RqReceiverEnd
    [] role = "receiver" /\ backend = "rs" ->
         <<"shell">> \o RsReceiverStart(o) \o Loop \o RsReceiverEnd
    [] role = "server" -> ServerStart \o ServerLoop \o ServerEnd

Takes(backend, role, o) ==
  CASE role = "gateway" /\ backend = "rq" -> RqGatewayTakes(o)
    [] role = "gateway" /\ backend = "rs" -> RsGatewayTakes(o)
    [] role = "receiver" /\ backend = "rq" -> RqReceiverTakes(o)
    [] role = "receiver" /\ backend = "rs" -> RsReceiverTakes(o)
    [] role = "server" -> TRUE
=============================================================================
