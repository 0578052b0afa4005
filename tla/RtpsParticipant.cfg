\* A reader that may block and be durable, perhaps one that is neither, one
\* durable and reliable writer, channels of depth 1: the second of two samples,
\* from the writer or from the network, finds them full, and with one reader a
\* third is then behind it.
CONSTANTS
    r1 = r1
    r2 = r2
    w1 = w1
    Readers = {r1, r2}
    Writers = {w1}
    Durable = {r1, w1}
    Reliable = {w1}
    Asked <- MCAsked
    Depth = 1
    MaxSamples = 3
SPECIFICATION MCSpec
\* The program may stop: every call may have returned.
CHECK_DEADLOCK FALSE
INVARIANTS
    CloseClosesOwned
    HeartbeatsStopped
PROPERTIES
    GoneIsQuiet
    UnsubscribeReleases
    CloseReturns
