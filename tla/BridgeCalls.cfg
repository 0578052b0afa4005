\* Two clients of a gRPC or REST bridge call it about the same topic or two;
\* some other publisher may write too; the bridge is closed once, or stops, at
\* any time.  MCCodecs says which inputs the algorithms on data get.
SPECIFICATION MCSpec
CONSTANTS
  Clients = {"c1", "c2"}
  NoClient = "nobody"
  Topics = {"a", "b"}
  Kinds = {"grpc", "rest"}
  MaxSamples = 2
  MaxStream = 2
  MaxEndpoints = 3
  MaxCloses = 1
INVARIANTS
  OneEndpointPerTopic
  AcksAreTrue
  EachSampleOnce
  TypesAreStructural
  JsonIsTheGrammar
  GlobMeansPattern
  WireIsRead
  BridgesUnderstand
  ConfigArrives
  IdlCompiles
\* Every call has ended and the bounds are reached; a text has lost everything.
CHECK_DEADLOCK FALSE
