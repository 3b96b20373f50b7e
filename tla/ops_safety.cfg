SPECIFICATION Spec
CONSTANTS
    p1 = p1  p2 = p2  p3 = p3
    Proposals = {p1, p2, p3}
    Multipliers = {2, 4}
    MultiplierOf <- LastDiffers
    Default = Default
    DefaultMultiplier = 2
    Jobs = {j1, j2}
    Admins = {a1, a2}
    Workers = {w1}
    Shells = {s1}
    NoProposal = NoProposal
    NoJob = NoJob
    NoOne = NoOne
    NoReport = NoReport
    MaxCalls = 5
    MaxUpsets = 1
CHECK_DEADLOCK FALSE
SYMMETRY Symmetry
INVARIANTS TypeOK OneExperiment ReportIsLatest RetrievalUnchanged
PROPERTIES ApprovedReportStays ActivatedAfterEvaluation
