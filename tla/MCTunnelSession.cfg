SPECIFICATION Spec
CONSTANTS
    HeartbeatPeriod = 3
    SilenceTimeout = 5
    MaxDelay = 1
    ConnectTimeout = 3
    ConnectPoll = 1
    AcceptPoll = 2
    MaxFlight = 2
INVARIANTS
    NoFalseAlarm
    CadenceWithoutJumbos
    StopHeeded
PROPERTIES
    BothExitWithoutJumbos
CHECK_DEADLOCK FALSE
