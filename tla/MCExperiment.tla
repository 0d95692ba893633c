---------------------------- MODULE MCExperiment ----------------------------
EXTENDS Experiment

Plan(b, c, m, mon, len, n, tries, deaths, fs) ==
  [backend |-> b, campaign |-> c, mode |-> m, monitored |-> mon,
   block |-> len, repairs |-> 2, policy |-> "default", packets |-> n,
   attempts |-> tries, kills |-> deaths, faults |-> fs]

TestPlans ==
  {
   \* two attempts, whose summaries may fail to be written
   Plan("rq", "fixed", "full", FALSE, 1, 1, 2, 0, {"summary"}),
   \* the runner is killed in the first of two attempts
   Plan("rs", "rate", "functional", FALSE, 1, 1, 2, 1, {}),
   \* a block longer than the programs take
   Plan("rs", "fixed", "functional", FALSE, 9, 1, 1, 0, {}),
   \* with the path monitor
   Plan("rq", "fixed", "functional", TRUE, 1, 2, 1, 0, {}),
   \* every other fault
   Plan("rs", "rate", "full", FALSE, 1, 1, 1, 0,
        {"startup", "generator", "receive", "window", "short", "timing",
         "host"})}
TestMonitors == 1 .. 2
=============================================================================
