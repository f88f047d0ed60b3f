SPECIFICATION LaunchSpec
CONSTANTS
  Refusals = 2
  Changes = 3
INVARIANT HostPointersLive
