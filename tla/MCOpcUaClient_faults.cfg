SPECIFICATION FairSpec
CONSTANTS
    a = a
    b = b
    c = c
    Tasks = {a, b}
    Ops <- Anything
    Faults = {"refuse", "lose", "late", "reject", "badNode", "undeleted", "unclosed", "cancel"}
    MaxSessions = 2
    MaxSubs = 2
INVARIANTS
    RegisteredIsServed
    NoOrphans
PROPERTIES
    CallsReturn
