CONSTANTS
    Queries = {q1, q2}
    FailureThreshold = 1
    Attempts = 1
    InitialBackoff = 1
    MaxBackoff = 2
    StepCap = 2
SPECIFICATION FairSpec
PROPERTY
    HalfOpenProbeRestores
