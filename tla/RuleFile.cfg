CONSTANTS
    r1 = r1
    r2 = r2
    Rules = {r1, r2}
    Saves <- MCSaves
    Absent = Absent
    Oversized <- MCOversized
    NoMatcher = NoMatcher
    MaxSaves = 3
    MaxRestarts = 1
SPECIFICATION FairSpec
INVARIANTS SettledFileIsActive RewrittenFileIsActive
PROPERTIES ClearedOnlyByEmptyFile RewrittenOnce WatcherSettles
