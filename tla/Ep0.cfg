CONSTANTS
    EP0_MAX_SIZE = 2
    Requests <- MCRequests
    MayAbandon <- AllButAddress
    Timely = TRUE
    ResetAnywhere = FALSE
SPECIFICATION Ep0Spec
INVARIANTS
    Ep0TypeOK
    NeverDeaf
    AddressAgreed
PROPERTIES
    ReplyWhole
    TransferEnds
