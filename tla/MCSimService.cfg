SPECIFICATION Spec
CONSTANTS
    r1 = r1  r2 = r2  r3 = r3
    e1 = e1  e2 = e2
    Requests = {r1, r2, r3}
    Servers = {e1, e2}
    MaxClients = 2
    MaxSubs = 2
SYMMETRY Symmetric
INVARIANTS StreamsAreServed NoOrphanStreams LeaksAreKnown
CHECK_DEADLOCK FALSE
