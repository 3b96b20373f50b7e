SPECIFICATION Spec
CONSTANTS
    Jobs = {j1, j2, j3}
    j1 = j1  j2 = j2  t1 = t1  t2 = t2
    Texts = {t1, t2}
    TextOf <- AllAlike
    Workers = {w1, w2}
    MaxAttempts = 2
    MaxRetries = 1
    MaxUpsets = 1
    MaxLostJobLocks = 0
    MaxLostPipelines = 1
    NoWorker = NoWorker
    NoJob = NoJob
SYMMETRY AllSymmetry
CHECK_DEADLOCK FALSE
INVARIANTS TypeOK DuplicatesBounded ChunksSearchable AttemptsCountRuns
    StoppedJobCanRun
PROPERTIES KeepsCVPromise
