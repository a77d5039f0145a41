SPECIFICATION Spec
CONSTANTS
    Blocks = {"TONR"}
    Presets = {0, 2}
    Advances = {1, 2}
    MaxTime = 3
    MaxCalls = 4
INVARIANT RetentiveCountsOnTime
CHECK_DEADLOCK FALSE
