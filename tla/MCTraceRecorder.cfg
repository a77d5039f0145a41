SPECIFICATION Spec
CONSTANTS
    Depth = 3
    Modes = {0, 1}
    Decimations = {0, 2}
    MaxCycles = 8
    MaxRuns = 2
    MaxRestarts = 1
INVARIANTS
    TypeOK
    IndexInBounds
    OccupancyIsKnown
    RingHoldsNewest
    IInv
PROPERTIES
    SamplesSpaced
    OneShotNeverOverwrites
    ImplementsWindow
