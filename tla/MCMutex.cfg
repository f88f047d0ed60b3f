CONSTANTS
  t1 = t1
  t2 = t2
  t3 = t3
  m = m
  Threads <- ThreeThreads
  Addrs <- OneAddr
  Values <- MutexWords
  Unmapped <- NoAddr
  Maxima <- One
  Modulus = 16
  Mutex = m
  Kinds <- AllKinds
  ThreadId <- DistinctIds
  IdModulus = 4
  MaxCounter = 1
  MaxCalls <- CallsEach
SPECIFICATION FairMutexSpec
INVARIANTS OwnerExact NoLostWakeup
PROPERTIES ImplementsLock CallsReturn
