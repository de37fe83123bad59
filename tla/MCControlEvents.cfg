SPECIFICATION Safety
CONSTANTS
    Runtimes = {r1, r2}
    Clients = {c1, c2}
    Buffer = 2
    MaxVersions = 2
SYMMETRY Symmetry
CONSTRAINT Bound
INVARIANTS OneWriter SnapshotsFirst NothingLost
CHECK_DEADLOCK FALSE
