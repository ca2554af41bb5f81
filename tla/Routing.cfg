CONSTANTS
    Attempts = 2
    AttemptTimeout = 2
    Threshold = 5
    None = None
SPECIFICATION FairSpec
INVARIANTS
    TypeOK
    FakeNeverCached
    RealPathIsEncrypted
    PlaintextOnlyIfDomestic
    NegativeNotFaked
    FallbackIsTransient
    StandbyIsErrorDriven
    ResolutionSurvives
    OneRouteCounted
PROPERTY EveryQueryEnds
