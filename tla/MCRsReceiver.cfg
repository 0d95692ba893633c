SPECIFICATION RsSpec
CONSTANTS
  Origins <- Three
  Fragments <- Everything
  K = 2
  Repairs = 1
  MaxGens = 1
  SendOutcomes <- Bool
  MaxArrivals = 5
INVARIANTS RsTypeOK FailuresUnreported ParityConsumedReceived NothingPending NothingMixed
\* The bound on arrivals ends every behaviour.
CHECK_DEADLOCK FALSE
