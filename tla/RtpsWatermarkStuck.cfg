\* A third sample evicts the first from a history of two.
CONSTANTS
    Threads = {t1}
    Readers = {r1}
    HistoryDepth = 2
    AckWindow = 1
    MaxReorderAhead = 1
    MaxSeq = 3
SPECIFICATION Spec
CHECK_DEADLOCK FALSE
PROPERTY MissingIsRequestedUntilItArrives
