CONSTANTS
  t1 = t1
  t2 = t2
  t3 = t3
  c = c
  Threads <- ThreeThreads
  Addrs <- OneAddr
  Values <- Seqs
  Unmapped <- NoAddr
  Maxima <- Counts
  Modulus = 16
  Cond = c
  Nobody = Nobody
  SeqModulus = 8
  MaxWaits <- WaitsEach
  MaxPulses = 2
SPECIFICATION FairCondSpec
CHECK_DEADLOCK FALSE
INVARIANTS NoMissedPulse
PROPERTIES TimedWaitEnds
