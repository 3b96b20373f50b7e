SPECIFICATION FairSpec
CONSTANTS
    d1 = d1  d2 = d2  b1 = b1  b2 = b2
    c1 = c1  c2 = c2  r1 = r1  r2 = r2
    Deliveries = {d1, d2}
    Batches = {b1, b2}
    Candidates = {c1, c2}
    Recipients = {r1, r2}
    Workers = {w1}
    BatchOf <- OneEach
    CandidateOf <- OwnCandidate
    RecipientOf <- OwnAddress
    MaxUpsets = 1
    MaxCalls = 1
    DrainLimit = 1
    NoDelivery = NoDelivery
    NoTask = NoTask
    DrainTask = DrainTask
CHECK_DEADLOCK FALSE
PROPERTIES QueuedIsServed SendingIsSettled
