---------------------------- MODULE Application ----------------------------
(***************************************************************************)
(* The end-to-end application: traffic generator, data path, destination   *)
(* server.  The data path is a set of datagrams in flight: one may be      *)
(* overtaken, delivered again, or stay for ever, which is how it is lost.  *)
(* When a run starts it may hold datagrams of an earlier one.              *)
(***************************************************************************)
EXTENDS TrafficGenerator, DestinationServer

CONSTANTS
  Run,      \* the generator's run id, drawn by rand32
  Strays,   \* what is in flight from earlier
  MaxDups   \* bound: extra deliveries

\* Run, and the numbers of its datagrams, are among those that occur.
ASSUME PathAssumption ==
  /\ Run \in Runs /\ 0 .. Target - 1 \subseteq Numbers
  /\ Strays \subseteq Datagrams \cup {Runt}

VARIABLES net, copies

appVars == <<tgVars, dsVars, net, copies>>

AppInit == TgInit /\ DsInit /\ net = Strays /\ copies = 0

\* The header of the next datagram: run_id and seq.
Header == [run |-> Run, seq |-> sent]

Generate(ok) ==
  /\ Transmit(ok)
  /\ net' = IF ok THEN net \cup {Header} ELSE net
  /\ UNCHANGED <<dsVars, copies>>

Deliver(d) ==
  /\ Receive(d)
  /\ net' = net \ {d}
  /\ UNCHANGED <<tgVars, copies>>

DeliverCopy(d) ==
  /\ copies < MaxDups
  /\ Receive(d)
  /\ copies' = copies + 1
  /\ UNCHANGED <<tgVars, net>>

GeneratorStep == Quiet /\ UNCHANGED <<dsVars, net, copies>>
ClockStep == Tick /\ UNCHANGED <<dsVars, net, copies>>
ServerStep == OwnStep /\ UNCHANGED <<tgVars, net, copies>>
Interruption ==
  (StopSignal \/ ReceiveFails) /\ UNCHANGED <<tgVars, net, copies>>

AppNext ==
  \/ GeneratorStep \/ ClockStep \/ ServerStep \/ Interruption
  \/ \E ok \in SendResults : Generate(ok)
  \/ \E d \in net : Deliver(d) \/ DeliverCopy(d)

AppSpec == AppInit /\ [][AppNext]_appVars

\* The server runs; what the data path delivers, and whether anybody stops
\* the server, is left open.
FairAppSpec == AppSpec /\ WF_appVars(ServerStep)
-----------------------------------------------------------------------------
\* The type invariants of both programs.
AppTypeOK == TgTypeOK /\ DsTypeOK
=============================================================================
