\* Two senders and two receivers, so that there is a second waiter to be
\* forgotten and a second thread to overtake the one notified; two slots, so
\* that the buffer is empty, half full and full; two values, so that order
\* shows. Nothing else is bounded: the state space is finite as it is.
CONSTANTS
    s1 = s1
    s2 = s2
    r1 = r1
    r2 = r2
    a = a
    b = b
    Senders = {s1, s2}
    Receivers = {r1, r2}
    Values = {a, b}
    Capacity = 2
SPECIFICATION Spec
INVARIANTS
    NoLostWakeup
PROPERTIES
    CloseReleases
    ImplementsChannelSpec
