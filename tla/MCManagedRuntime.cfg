SPECIFICATION Spec
CONSTANTS
    Aliases = {a}
    Workers = {w1, w2}
    NoWorker = NoWorker
INVARIANTS
    NoOrphan
    OneThreadPerKey
    ActiveMeansAlive
    EventsTold
PROPERTIES
    FinalStays
    RequestsEnd
    StopsEnd
    SupervisorSafety
CHECK_DEADLOCK FALSE
