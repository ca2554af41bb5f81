CONSTANTS
    NQueries = 2
    PipeLimit = 2
    None = None
SPECIFICATION FairSpec
INVARIANTS TypeOK SuppressedOnlyAfterReport DisconnectsAreQuiet
PROPERTY FailureIsReported
