\* One publisher and two subscribers, or two publishers and one, with channels
\* of depth 1: the second of two samples finds them full, both publishers may
\* be blocked at once, and a subscription, an unsubscription and the close can
\* fall before, inside and after each delivery loop.  Or one publisher and one
\* late joiner with depth 2, which two live samples and the one handed over
\* overrun (three samples, of which its filter refuses the first).
CONSTANTS
    p1 = p1
    p2 = p2
    s1 = s1
    s2 = s2
    Pubs = {p1, p2}
    Subs = {s1, s2}
    Durable = {p1, s2}
    Accepts <- MCAccepts
    Asked <- MCAsked
    Depth <- MCDepth
    MaxWrites = 3
SPECIFICATION MCSpec
\* The program may stop: every call may have returned.
CHECK_DEADLOCK FALSE
INVARIANTS
    PerPublisherOrder
    BlockLosesNothing
    CloseClosesOwned
PROPERTIES
    UnsubscribeCompletes
