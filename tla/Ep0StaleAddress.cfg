CONSTANTS
    EP0_MAX_SIZE = 2
    Requests <- MCRequests
    MayAbandon <- MCRequests
    Timely = TRUE
    ResetAnywhere = FALSE
SPECIFICATION Ep0Spec
INVARIANTS
    AddressAgreed
