SPECIFICATION Spec
CONSTANTS
    HeartbeatPeriod = 3
    SilenceTimeout = 5
    MaxDelay = 1
    ConnectTimeout = 3
    ConnectPoll = 1
    AcceptPoll = 2
    MaxFlight = 2
PROPERTY BothExit
CHECK_DEADLOCK FALSE
