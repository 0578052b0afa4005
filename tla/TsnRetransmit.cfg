INIT TsnInit
NEXT MCNext
CONSTANTS
  t1 = t1
  t2 = t2
  Threads <- MCThreads
  Buffers = {b1, b2}
  NoBuffer = NoBuffer
  PoolSize = 5
  LoanSizes = {5, 6}
  MovedSizes = {2}
  Shapes <- MCTsnShapes
  StaleAge = 1
  RingCap = 2
  MaxWrites = 2
  MaxFaults = 1
  Modulus = 4
  ChanCap = 1
  ErrCap = 1
  Earlier = 2
  E2EWrites = 3
  E2EFaults = 2
INVARIANTS
  TransmissionRepairs
CHECK_DEADLOCK FALSE
