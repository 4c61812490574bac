\* One request, retried by two calls; one prompt to spare, one death, callbacks on both routes.
CONSTANTS
    Requests = {k1}
    Checkouts = {p1, p2}
    Clients = {c1, c2}
    None = None
    MaxAttempts = 2
    MaxDeaths = 1
    UnsignedRoute = TRUE
SPECIFICATION FairSpec
INVARIANTS
    TypeOK
    PromptedAtMostOnce
    ReceiptsBackedByPayment
    ReceiptsAgree
    FailedOnProvidersWord
PROPERTIES
    AcceptedPaymentCompletes
    EvidenceKept
CHECK_DEADLOCK FALSE
