CONSTANTS
  t1 = t1
  t2 = t2
  t3 = t3
  c = c
  bad = bad
  Threads <- ThreeThreads
  Addrs <- TwoAddrs
  Values <- Controls
  Unmapped <- Unreadable
  Maxima <- WakeMaxima
  Modulus = 16
  Control = c
  MaxCalls = 2
  MaxFailures = 1
SPECIFICATION PthreadSpec
INVARIANTS CountsExact TokensCovered InitOnce
PROPERTIES TokenAccounting CancelDrains TokensTaken CallsReturn
