CONSTANTS
    EP0_MAX_SIZE = 2
    Requests <- MCRequests
    MayAbandon <- AllButAddress
    Timely = TRUE
    ResetAnywhere = TRUE
SPECIFICATION Ep0Spec
INVARIANTS
    NeverDeaf
