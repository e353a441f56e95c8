SPECIFICATION SnapshotsSpec
CONSTANTS
    Matches = {1, 2}
    Threads = {1, 2}
    Readers = {1}
    MaxTries = 2
    MaxFaults = 0
    MaxEdits = 0
    NoMatch = NoMatch
INVARIANTS
    FreshAfterSignal
CHECK_DEADLOCK FALSE
