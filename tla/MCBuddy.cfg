SPECIFICATION FairSpec
CONSTANTS
  MaxLog = 4
  MinLog = 1
  HdrSize = 1
  Pow2 <- MCPow2
  Requests = {1, 4, 15}
  Junk <- MCJunkZero
  SizeMod = 64
  CounterMod = 2
INVARIANTS
  Partition
  BuddyFlags
  BuddyIsHeader
  HeldBlocks
  FullyCoalesced
  StatsAgree
PROPERTIES
  SplitsSmallest
  ImplementsHeap
  CallsReturn
