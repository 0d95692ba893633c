SPECIFICATION FairAppSpec
CONSTANTS
  TicksPerSecond = 9
  Pps = 4
  Seconds = 1
  Batch = 2
  CountSpace = 16
  MaxTime = 11
  Readable <- AllOrHalf
  PayloadSizes = {7, 1000}
  SendResults = {TRUE, FALSE}
  Runs = {"new", "old"}
  Numbers = {0, 1, 2, 3}
  NoRun = NoRun
  Runt = Runt
  Expected = 3
  SeenCap = 4
  BlockLen = 2
  Run = "new"
  Strays <- OldTail
  MaxDups = 1
INVARIANTS AppTypeOK NoCatchUpBurst StrictWindow TargetReached
  CountsExact SummaryTruthful
PROPERTY StopReports
ACTION_CONSTRAINT GeneratorFirst
CHECK_DEADLOCK FALSE
