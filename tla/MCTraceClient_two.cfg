SPECIFICATION CSpec
CONSTANTS
    Depth = 2
    Modes = {0}
    Decimations = {1}
    MaxCycles = 3
    MaxRuns = 2
    MaxRestarts = 0
    Clients = {c1, c2}
    FetchChunk = 2
    MaxFailures = 0
SYMMETRY ClientSymmetry
PROPERTIES
    QuietFetchIsExact
