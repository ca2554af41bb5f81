CONSTANTS
    Requests = {r1, r2}
    NUpstreams = 2
    NAuto = 1
    InitialBackoff = 1
    MaxBackoff = 1
    StepCap = 1
SPECIFICATION FairSpec
INVARIANTS ProbeIsHeld AvailableProviderAnswers
PROPERTIES ImplementsBreakers EveryRequestReturns PreferredRecovers
