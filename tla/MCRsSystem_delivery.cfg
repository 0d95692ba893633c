SPECIFICATION FairSpec
CONSTANTS
  K = 2
  Repairs = 2
  IdSpace = 5
  MaxPktLen = 2
  Lengths = {0, 1, 2, 3}
  SendOutcomes <- True
  MaxIntercepts = 4
  MaxGens = 4
  RxSendOutcomes <- True
  MaxLosses = 1
  MaxDups = 1
INVARIANTS RoomInGeneration FragmentsInOrder DataReaches
PROPERTIES ImplementsDelivery FullIsDelivered
\* The loop of the gateway ends; then the paths run dry.
CHECK_DEADLOCK FALSE
