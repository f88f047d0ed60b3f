SPECIFICATION InputSpec
CONSTANTS
  RingSize = 1
  PipeSize = 3
  Handles = 2
  MaxCommands = 3
INVARIANT CommandsNotLost
