\* Pipes that hold two chunks, and commands that write up to three to each.
SPECIFICATION FairSpec
CONSTANTS
  Capacity = 2
  MaxOutput = 3
  Interrupts = TRUE
  Heirs = TRUE
  Unset = Unset
INVARIANTS TypeOK OutputComplete ReadNeverBlocks
PROPERTIES RunReturns
CHECK_DEADLOCK FALSE
