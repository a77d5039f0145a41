SPECIFICATION Spec
CONSTANTS
    Blocks = {"TON", "TOF", "TP", "TONR", "R_TRIG", "F_TRIG"}
    Presets = {0, 2}
    Advances = {1, 2}
    MaxTime = 3
    MaxCalls = 4
INVARIANTS
    TypeOK
    OnDelayIsExact
    OffDelayIsExact
    PulseIsBounded
PROPERTIES
    PulseRunsOut
    RetentiveHolds
CHECK_DEADLOCK FALSE
