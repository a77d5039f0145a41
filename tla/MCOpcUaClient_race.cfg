SPECIFICATION Spec
CONSTANTS
    a = a
    b = b
    c = c
    Tasks = {a, b, c}
    Ops <- LifeCycleAndListeners
    Faults = {}
    MaxSessions = 2
    MaxSubs = 2
PROPERTIES
    DisconnectEndsSession
