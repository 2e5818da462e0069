CONSTANTS
    RCC_TIMEOUT = 4
SPECIFICATION ClockSpec
INVARIANT
    FailureIsHsi
CHECK_DEADLOCK FALSE
