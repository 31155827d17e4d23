\* Two events over three hours and two days, one timed flush, one query, one fault.
SPECIFICATION Spec
CONSTANTS
    Worker = {w1}
    Ups = 1
    HourLen = 1
    DayLen = 2
    KeepHours = 1
    KeepDays = 1
    QueueMax = 4
    RingMax = 1
    Debounce = 1
    Step = 0
    MaxClock = 2
    MaxEvents = 2
    MaxQueries = 1
    MaxFlushes = 1
    MaxFaults = 1
INVARIANTS TypeOK NeverCountedTwice RestartKeepsTotals CloseLosesNothing
CHECK_DEADLOCK FALSE
