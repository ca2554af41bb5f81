CONSTANTS
    Queries = {q1, q2}
    FailureThreshold = 2
    Attempts = 2
    InitialBackoff = 5
    MaxBackoff = 6
    StepCap = 2
SPECIFICATION FairSpec
INVARIANTS
    GaugesTruthful
    OneProbePerRound
    ResponseIsOwn
PROPERTIES
    OutageProlongedOnlyByProbe
    ImplementsBreaker
    ExecReturns
    ClosesUnlessProbeAbandoned
