SPECIFICATION MCSpec
CONSTANTS
  t1 = t1
  t2 = t2
  Threads <- MCThreads
  Buffers = {b1, b2}
  NoBuffer = NoBuffer
  PoolSize = 3
  LoanSizes = {3, 4}
  MovedSizes = {2}
  Shapes <- MCShapes
  StaleAge = 1
  RingCap = 2
  MaxWrites = 2
  MaxFaults = 2
  Modulus = 4
  ChanCap = 1
  ErrCap = 1
  Earlier = 2
  E2EWrites = 3
  E2EFaults = 1
INVARIANTS
  ArrivesAsCommitted
  OneOwner
  SilenceMeansIntact
  AlarmsHaveCause
PROPERTIES
  CommittedArrives
  CloseReturns
CHECK_DEADLOCK FALSE
