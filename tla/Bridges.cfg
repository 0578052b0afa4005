\* Three servers; two peers and two descriptors: both are served at once, or
\* the second gets the number of the first.  Two senders share a connection.
SPECIFICATION MCSpec
CONSTANTS
  Peers = {p1, p2}
  Fds = {4, 5}
  Kinds = {"wan", "rest", "grpc"}
  Topics = {"a", "b"}
  Order <- MCOrder
  Tokens = {"x"}
  NoToken = "none"
  ChanCap = 1
  WanSamples = 3
INVARIANTS
  NobodyOutlivesClose
  OnlyRacesSlip
  NothingLeft
PROPERTIES
  ImplementsFifo
  CloseReturns
  SendersEnd
CHECK_DEADLOCK FALSE
