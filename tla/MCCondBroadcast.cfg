CONSTANTS
  t1 = t1
  t2 = t2
  t3 = t3
  c = c
  Threads <- ThreeThreads
  Addrs <- OneAddr
  Values <- Seqs
  Unmapped <- NoAddr
  Maxima <- Counts
  Modulus = 16
  Cond = c
  Nobody = Nobody
  SeqModulus = 8
  MaxWaits <- WaitsEach
  MaxPulses = 1
SPECIFICATION CondSpec
CHECK_DEADLOCK FALSE
INVARIANT BroadcastReleases
