\* As the passing run; two samples are enough for a reader that blocks.
CONSTANTS
    r1 = r1
    r2 = r2
    w1 = w1
    Readers = {r1, r2}
    Writers = {w1}
    Durable = {r1, w1}
    Reliable = {w1}
    Asked <- MCAsked
    Depth = 1
    MaxSamples = 2
SPECIFICATION MCSpec
\* The program may stop: every call may have returned.
CHECK_DEADLOCK FALSE
PROPERTY CloseUnblocksReaders
