SPECIFICATION Spec
CONSTANTS
  Symbols <- TwoBlocks
  BlockSize = 2
  MaxBlocks = 2
  MaxSyms = 4
  Duplication = TRUE
  SendOutcomes <- True
  DecodeOutcomes <- True
  InitOutcomes <- True
  MaxArrivals = 6
PROPERTY LateSymbolsDiscarded
CHECK_DEADLOCK FALSE
