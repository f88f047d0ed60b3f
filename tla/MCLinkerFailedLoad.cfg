CONSTANTS
  Lib <- GameLibraries
  Host <- HostLibraries
  Needs <- GameNeeds
  NoLibrary = "null"
  MaxCalls = 2
  MaxBroken = 1
  MaxFailed = 0
SPECIFICATION LinkerSpec
INVARIANT ListIsLive
CHECK_DEADLOCK FALSE
