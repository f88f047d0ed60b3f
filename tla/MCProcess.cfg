CONSTANTS
  t1 = t1
  t2 = t2
  b1 = b1
  b2 = b2
  Threads <- TwoThreads
  Bases <- TwoBases
  NumKeys = 2
  Reserved <- FirstKey
  MaxSets = 3
  MaxFailures = 1
  MaxLives = 2
  Rounds = 2
  NumPages = 4
  Prots <- Protections
  NoAccess = "none"
  AllAccess = "rwx"
  Free = "free"
  FirstCapacity = 2
  MaxRefusals = 1
  Lib <- GameLibraries
  Host <- HostLibraries
  Needs <- GameNeeds
  NoLibrary = "null"
  MaxCalls = 6
  MaxBroken = 1
  MaxFailed = 1
SPECIFICATION ProcessSpec
INVARIANTS ValueIsOwn DestroyedGone NothingLeft RegionsValid RegionsCoalesced PermsPublished
INVARIANTS PointersLive DependenciesFirst FinalizedLast CountsAtRest
PROPERTY IsAddressSpace
