SPECIFICATION Spec
CONSTANTS
  Symbols <- ThreeBlocks
  BlockSize = 2
  MaxBlocks = 2
  MaxSyms = 3
  Duplication = FALSE
  SendOutcomes <- True
  DecodeOutcomes <- True
  InitOutcomes <- True
  MaxArrivals = 9
INVARIANTS NothingFabricated EnoughSymbolsDeliver
PROPERTY LateSymbolsDiscarded
CHECK_DEADLOCK FALSE
