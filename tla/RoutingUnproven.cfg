CONSTANTS
    Attempts = 2
    AttemptTimeout = 2
    Threshold = 5
    None = None
SPECIFICATION Spec
INVARIANT UnknownForwardedOnlyIfNonCN
