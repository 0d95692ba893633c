SPECIFICATION Spec
CONSTANTS
  Symbols <- TwoBlocks
  BlockSize = 2
  MaxBlocks = 1
  MaxSyms = 3
  Duplication = TRUE
  SendOutcomes = {TRUE, FALSE}
  DecodeOutcomes = {TRUE, FALSE}
  InitOutcomes = {TRUE, FALSE}
  MaxArrivals = 5
INVARIANTS TypeOK NoFinishedBlockHeld CountersAddUp ConsumedWithinReceived
  CountBehindFlags
CHECK_DEADLOCK FALSE
