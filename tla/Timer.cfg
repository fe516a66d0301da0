SPECIFICATION Spec
CONSTANTS
    Duration = 3
    TicksPerSecond = 2
    Horizon = 10
    MaxStarts = 4
INVARIANT TypeOK
PROPERTY IsCountdown
PROPERTY IsPausableTimer
CHECK_DEADLOCK FALSE
