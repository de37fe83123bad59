SPECIFICATION Spec
CONSTANTS
    EventLines = 3
    LatencyWindow = 3
    RecentDatagrams = 2
    ReportInterval = 2
    HeartbeatPeriod = 2
    ClockDifferences <- Differences
    None = None
    MaxDatagrams = 5
    MaxTime = 7
INVARIANTS
    ScreenShowsLast WindowsAreLast Percentiles ReportedOnce ReportedSoon
CHECK_DEADLOCK FALSE
