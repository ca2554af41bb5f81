CONSTANTS
    MaxDelay = 40
    MaxStep = 9
    Width = 8
SPECIFICATION Spec
INVARIANTS
    LoopMeetsClosedForm
CHECK_DEADLOCK FALSE
