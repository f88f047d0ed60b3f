CONSTANTS
  b1 = b1
  b2 = b2
  b3 = b3
  LastHandle = 3
  Blocks <- ThreeBlocks
  NoBlock = NoBlock
  MaxHostFailures = 2
SPECIFICATION FairSpec
INVARIANTS HostHandleOnce JoinerHasRecord ShutdownComplete
PROPERTY ShutdownTerminates
