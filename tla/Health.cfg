CONSTANTS
    NChildren = 2
    StaleAfter = 3
    MaxDelay = 2
    QueueLimit = 2
    NoSnapshot = NoSnapshot
SPECIFICATION HealthFairSpec
INVARIANT ReadyIsRecent
PROPERTY ReportSettles
