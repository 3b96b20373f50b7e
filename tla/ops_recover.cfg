SPECIFICATION FairSpec
CONSTANTS
    p1 = p1  p2 = p2  p3 = p3
    Proposals = {p1}
    Multipliers = {2, 4}
    MultiplierOf <- LastDiffers
    Default = Default
    DefaultMultiplier = 2
    Jobs = {j1}
    Admins = {a1}
    Workers = {w1}
    Shells = {}
    NoProposal = NoProposal
    NoJob = NoJob
    NoOne = NoOne
    NoReport = NoReport
    MaxCalls = 3
    MaxUpsets = 0
CHECK_DEADLOCK FALSE
PROPERTIES RecoveredJobRuns
