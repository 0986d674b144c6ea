\* One webhook with two or three overlapping deliveries.
CONSTANTS
    Names = {w1}
    Owners = {o1}
    Requests = {r1, r2, r3}
    DeliveryKeys = {delivery}
    ClientKeys = {client}
    NoKey = NoKey
    ResponseModes = {"ack", "sync"}
    Payloads = {p1, p2}
    RateLimit = 1
    Quota = 0
    Grace = 2
    LedgerKeep = 1
    DeliveryKeep = 1
    Crashes = TRUE
    MaxIssued = 2
    MaxTime = 2
SPECIFICATION MCSpec
SYMMETRY Symmetry
INVARIANTS LimitsHold PreviousRevoked LedgerSound
