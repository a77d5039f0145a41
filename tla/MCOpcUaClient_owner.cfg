SPECIFICATION Spec
CONSTANTS
    a = a
    b = b
    c = c
    Tasks = {a, b}
    Ops <- OneOwner
    Faults = {"refuse", "lose", "reject", "badNode", "undeleted"}
    MaxSessions = 3
    MaxSubs = 3
INVARIANTS
    NoSessionLeaks
