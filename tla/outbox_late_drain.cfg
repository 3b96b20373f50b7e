SPECIFICATION Spec
CONSTANTS
    d1 = d1  d2 = d2  b1 = b1  b2 = b2
    c1 = c1  c2 = c2  r1 = r1  r2 = r2

    Deliveries = {d1, d2}
    Batches = {b1, b2}
    Candidates = {c1}
    Recipients = {r1, r2}
    Workers = {w1, w2}
    BatchOf <- OneEach
    CandidateOf <- SharedCandidate
    RecipientOf <- SameAddress
    MaxUpsets = 1
    MaxCalls = 1
    DrainLimit = 2
    NoDelivery = NoDelivery
    NoTask = NoTask
    DrainTask = DrainTask
SYMMETRY Symmetry
CHECK_DEADLOCK FALSE

PROPERTIES UnknownOnlyAfterClaim
