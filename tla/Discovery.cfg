\* Two participants; one lease expires although its owner runs, so that a peer
\* is forgotten on one side and met again.
CONSTANTS
    a = a
    b = b
    w1 = w1
    w2 = w2
    r1 = r1
    Parts = {a, b}
    Writers = {w1, w2}
    Readers = {r1}
    Home <- MCHome
    Topic <- MCTopic
    MaxExpiries = 1
SPECIFICATION Spec
\* The system may stop: both participants may have ended.
CHECK_DEADLOCK FALSE
INVARIANTS
    KnownPeersAreTold
PROPERTIES
    DiscoveryCompletes
    EndedIsForgotten
