CONSTANTS
    r1 = r1
    r2 = r2
    Rules = {r1, r2}
    Saves <- MCSaves
    Absent = Absent
    Oversized <- MCOversized
    NoMatcher = NoMatcher
    MaxSaves = 1
    MaxRestarts = 0
SPECIFICATION Spec
PROPERTY SavedChangeIsRead
