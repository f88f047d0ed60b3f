CONSTANTS
  b1 = b1
  b2 = b2
  b3 = b3
  LastHandle = 3
  Blocks <- TwoBlocks
  NoBlock = NoBlock
  MaxHostFailures = 0
SPECIFICATION Spec
INVARIANT SelfIsUnique
