SPECIFICATION FairSpec
CONSTANTS
    Depth = 3
    Modes = {0, 1}
    Decimations = {1}
    MaxCycles = 5
    MaxRuns = 2
    MaxRestarts = 1
    Clients = {c1}
    FetchChunk = 2
    MaxFailures = 1
PROPERTIES
    CallsReturn
    StopStops
INVARIANTS
    ClientTypeOK
    FetchAfterStopIsExact
    StopIsSettled
    UnwrappedFetchIsPrefix
