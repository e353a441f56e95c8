SPECIFICATION SnapshotsSpec
CONSTANTS
    Matches = {1, 2}
    Threads = {1, 2}
    Readers = {1}
    MaxTries = 2
    MaxFaults = 2
    MaxEdits = 1
    NoMatch = NoMatch
INVARIANTS
    SnapshotHasTrigger
PROPERTIES
    SnapshotComes
CHECK_DEADLOCK FALSE
