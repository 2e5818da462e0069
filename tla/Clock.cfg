CONSTANTS
    RCC_TIMEOUT = 4
SPECIFICATION ClockSpec
INVARIANTS
    ClockTypeOK
    ClocksInLimits
    SuccessIsPll
    FailureIsUniform
PROPERTIES
    ClockReturns
CHECK_DEADLOCK FALSE
