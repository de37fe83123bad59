SPECIFICATION Safety
CONSTANTS
    Runtimes = {r1}
    Clients = {c1}
    Buffer = 1
    MaxVersions = 3
INVARIANT DeckShowsCurrentState
CHECK_DEADLOCK FALSE
