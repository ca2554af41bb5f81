CONSTANTS
    NChildren = 2
    InitialDelay = 5
    MaximumDelay = 6
    StepCap = 2
SPECIFICATION FairSpec
INVARIANTS
    OneInstance
    NoOrphans
PROPERTIES
    ImplementsComponents
    ShutdownCompletes
    ExitedChildIsRestarted
