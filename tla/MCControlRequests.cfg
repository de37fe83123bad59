SPECIFICATION RequestsSpec
CONSTANTS
    Clients = {c1, c2}
    c1 = c1
    c2 = c2
    Configurations = {t1, t2}
    t1 = t1
    t2 = t2
    Garbage = garbage
    Cut = cut
    NoFile = nofile
    None = None
    MaximumRequest = 3
    Requests <- MCRequests
INVARIANTS OldOrNew LastReportedIsUsed
PROPERTIES ReadsWholeRequests MemoryFollowsFile ComesUpAgain EveryoneIsAnswered
CHECK_DEADLOCK FALSE
