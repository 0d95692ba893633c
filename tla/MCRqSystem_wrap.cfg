SPECIFICATION SysSpec
\* As in the code there are more ids than entries in the completed table.
CONSTANTS
  Policy = "default"
  BlockSize = 1
  Repairs = 1
  MaxBlocks = 2
  IdSpace = 3
  MaxPktLen = 1
  Lengths = {1}
  MetricsFeed <- Silent
  RepairEsis = {1, 2}
  OpenOutcomes <- True
  EncodeOutcomes <- True
  SendOutcomes <- True
  MaxIntercepts = 5
  RxBlockSize = 1
  MaxSyms = 3
  RxSendOutcomes <- True
  DecodeOutcomes <- True
  InitOutcomes <- True
  MaxLosses = 0
  MaxDups = 0
INVARIANT OriginalsReach
CHECK_DEADLOCK FALSE
