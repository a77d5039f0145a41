SPECIFICATION Spec
CONSTANTS
    s1 = s1  s2 = s2  s3 = s3  i1 = i1
    Scenarios = {s1, s2, s3}
    Ids = {i1}
    Sources = {1, 2}
    MaxCommands = 1
    Script <- MCScript
    Setup <- MCSetup
    Position <- MCPosition
PROPERTIES PassedMeansExecuted
CHECK_DEADLOCK FALSE
