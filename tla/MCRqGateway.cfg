SPECIFICATION GwSpec
CONSTANTS
  Policy = "quality"
  BlockSize = 2
  Repairs = 3
  MaxBlocks = 2
  IdSpace = 3
  MaxPktLen = 2
  Lengths = {0, 1, 2, 3}
  MetricsFeed <- Feed
  RepairEsis = {2}
  OpenOutcomes = {TRUE, FALSE}
  EncodeOutcomes = {TRUE, FALSE}
  SendOutcomes <- True
  MaxIntercepts = 5
INVARIANTS GwTypeOK OnlyCurrentInUse WireInOrder RepairsForFullBlocks
  WithinConfiguredRepairs
\* The main loop ends on a signal and on a recv error.
CHECK_DEADLOCK FALSE
