\* One event and one query within the hour, no faults.
SPECIFICATION ViewSpec
CONSTANTS
    Worker = {w1}
    Ups = 1
    HourLen = 10
    DayLen = 20
    KeepHours = 1
    KeepDays = 1
    QueueMax = 4
    RingMax = 2
    Debounce = 1
    Step = 1
    MaxClock = 5
    MaxEvents = 1
    MaxQueries = 1
    MaxFlushes = 1
    MaxFaults = 0
INVARIANT OneHourViewIsExact
CHECK_DEADLOCK FALSE
