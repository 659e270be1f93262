\* A whole cycle against a server that may misbehave at any point.
CONSTANTS
    Calls <- MCCalls
    StderrCap = 2
    MaxNoise = 3
SPECIFICATION FairSpec
INVARIANTS OkMeansClean HealthyIsOk
PROPERTIES SessionEnds
\* A session ends.
CHECK_DEADLOCK FALSE
