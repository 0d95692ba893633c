---------------------------- MODULE PathMonitor ----------------------------
(***************************************************************************)
(* The metrics file: the monitor (src/monitoring/path_monitor.py) measures *)
(* both paths round after round and overwrites the file with the figures,  *)
(* the RaptorQ gateway reads it before each packet.  Nothing removes it.   *)
(*                                                                         *)
(* The four figures of one writing are named by the monitor that wrote     *)
(* them.  They leave the writer's buffer in one piece when the file is     *)
(* closed; between open, which truncates, and close the file is empty.     *)
(***************************************************************************)
EXTENDS Integers

CONSTANT Monitors   \* the monitors that ever write, numbered

NoFile == -2        \* the file does not exist
Empty == -1         \* it holds no figures
NoFigures == -1     \* what a gateway that has read none goes by: all zero

VARIABLES
  metricsFile,   \* NoFile, Empty, or the monitor whose figures it holds
  monitorAt      \* for each monitor: "none", "shell", "measure", "publish",
                 \* "gone"

pmVars == <<metricsFile, monitorAt>>

\* The file of an earlier experiment, by monitor 0, may be there.
PmInit ==
  /\ metricsFile \in {NoFile, 0}
  /\ monitorAt = [m \in Monitors |-> "none"]

\* One round of pings.  The file is only opened when in the window of each
\* path some ping was answered; otherwise it keeps what it holds.
Measure(m, answered) ==
  /\ monitorAt[m] = "measure"
  /\ IF answered
     THEN /\ monitorAt' = [monitorAt EXCEPT ![m] = "publish"]
          /\ metricsFile' = Empty
     ELSE UNCHANGED pmVars

Publish(m) ==
  /\ monitorAt[m] = "publish"
  /\ monitorAt' = [monitorAt EXCEPT ![m] = "measure"]
  /\ metricsFile' = m

\* Mutant: a file without all four figures is taken for zeros.
Fetch_incomplete(old) == IF metricsFile = NoFile THEN old ELSE metricsFile

\* What the reader goes by after fetch_metrics_from_file: the last figures
\* unless the file has all four.
Fetch(old) == IF metricsFile \in {NoFile, Empty} THEN old ELSE metricsFile
=============================================================================
