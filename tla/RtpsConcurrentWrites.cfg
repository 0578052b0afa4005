\* Two threads write one sample each.
CONSTANTS
    Threads = {t1,t2}
    Readers = {r1}
    HistoryDepth = 2
    AckWindow = 1
    MaxReorderAhead = 1
    MaxSeq = 2
SPECIFICATION Safety
CHECK_DEADLOCK FALSE
INVARIANT SpanCoversHistory
