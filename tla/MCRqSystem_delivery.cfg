SPECIFICATION SysSpec
CONSTANTS
  Policy = "adaptive"
  BlockSize = 2
  Repairs = 1
  MaxBlocks = 3
  IdSpace = 4
  MaxPktLen = 1
  Lengths = {1}
  MetricsFeed <- Silent
  RepairEsis = {2}
  OpenOutcomes <- True
  EncodeOutcomes <- True
  SendOutcomes <- True
  MaxIntercepts = 5
  RxBlockSize = 2
  MaxSyms = 3
  RxSendOutcomes = {TRUE, FALSE}
  DecodeOutcomes = {TRUE, FALSE}
  InitOutcomes <- True
  MaxLosses = 1
  MaxDups = 0
PROPERTY ImplementsDelivery
\* The loop of the gateway ends; then the paths run dry.
CHECK_DEADLOCK FALSE
