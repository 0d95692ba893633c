SPECIFICATION SysSpec
CONSTANTS
  K = 4
  Repairs = 1
  IdSpace = 5
  MaxPktLen = 1
  Lengths = {1}
  SendOutcomes <- True
  MaxIntercepts = 4
  MaxGens = 4
  RxSendOutcomes <- True
  MaxLosses = 0
  MaxDups = 0
INVARIANTS DataReaches
\* The loop of the gateway ends; then the paths run dry.
CHECK_DEADLOCK FALSE
