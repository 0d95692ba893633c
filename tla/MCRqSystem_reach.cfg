SPECIFICATION FairSpec
CONSTANTS
  Policy = "default"
  BlockSize = 2
  Repairs = 1
  MaxBlocks = 3
  IdSpace = 4
  MaxPktLen = 1
  Lengths = {1}
  MetricsFeed <- Silent
  RepairEsis = {2, 3}
  OpenOutcomes <- True
  EncodeOutcomes <- True
  SendOutcomes <- True
  MaxIntercepts = 5
  RxBlockSize = 2
  MaxSyms = 3
  RxSendOutcomes <- True
  DecodeOutcomes <- True
  InitOutcomes <- True
  MaxLosses = 1
  MaxDups = 1
INVARIANTS OriginalsReach EnoughArrivedDelivers
PROPERTY ProtectedIsDelivered
\* The loop of the gateway ends; then the paths run dry.
CHECK_DEADLOCK FALSE
