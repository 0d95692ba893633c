SPECIFICATION FairExpSpec
CONSTANTS
  Plans <- TestPlans
  Monitors <- TestMonitors
  MaxAttempts = 2
INVARIANTS
  ExpTypeOK
  ValidIsHonest
  NothingLeftRunning
PROPERTIES
  MetricsNotTorn
  RunnerFinishes
CHECK_DEADLOCK FALSE
