SPECIFICATION GuestSpec
CONSTANTS
  Main = main
  Workers = {w1}
  MaxDepth = 2
  HostCalls = 2
  RingSize = 2
  PipeSize = 3
  Handles = 4
  MaxCommands = 4
INVARIANTS DispatchExact ImportsResumeCaller TouchesInOrder CommandsDelivered
PROPERTIES ShutdownDrains CommandsHandled
\* A pthread that waits with the JNI lock keeps the others out until a shutdown.
CHECK_DEADLOCK FALSE
