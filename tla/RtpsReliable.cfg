\* One thread, one reader. Three samples with a history of two, so that an
\* eviction happens; a window of one, so that the retained gap can be wider
\* than a window; a reorder bound of one, so that a sample can be too far
\* ahead. The network holds any set of messages.
CONSTANTS
    Threads = {t1}
    Readers = {r1}
    HistoryDepth = 2
    AckWindow = 1
    MaxReorderAhead = 1
    MaxSeq = 3
SPECIFICATION Spec
\* The system may stop: the writer closed and the network empty.
CHECK_DEADLOCK FALSE
INVARIANTS
    WatermarkSound
    HeartbeatHidesNothing
PROPERTIES
    RetainedArrives
