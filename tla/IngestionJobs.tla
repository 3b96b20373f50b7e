---------------------------- MODULE IngestionJobs ----------------------------
(***************************************************************************)
(* CV ingestion: a job row per accepted PDF, a Celery message per attempt, *)
(* a MySQL advisory lock per job and one for the whole pipeline, and the   *)
(* pipeline that screens the text, writes Qdrant points and commits the    *)
(* candidate (src/ingestion/jobs.py, locking.py and pipeline.py,           *)
(* src/workers/tasks_ingestion.py).                                        *)
(*                                                                         *)
(* An advisory lock belongs to the database session that took it: it goes  *)
(* away with that session, also when the worker itself goes on.            *)
(***************************************************************************)
EXTENDS Integers, FiniteSets

CONSTANTS
    Jobs,
    Texts,
    TextOf,         \* [Jobs -> Texts], what parsing or OCR makes of the file
    Workers,        \* Celery worker processes
    MaxAttempts,    \* IngestionJob.max_attempts
    MaxRetries,     \* bound: administrators' retries
    MaxUpsets,      \* bound: crashes and broker or database failures
    MaxLostJobLocks,    \* bound: sessions of a job's lock that break under a
                        \* live worker
    MaxLostPipelines,   \* bound: sessions of the pipeline's lock that do
    NoWorker,
    NoJob

ASSUME IngestionAssumption ==
    /\ TextOf \in [Jobs -> Texts]
    /\ IsFiniteSet(Workers) /\ NoWorker \notin Workers
    /\ NoJob \notin Jobs
    /\ MaxAttempts \in Nat \ {0}
    /\ MaxRetries \in Nat /\ MaxUpsets \in Nat
    /\ MaxLostJobLocks \in Nat /\ MaxLostPipelines \in Nat

VARIABLES
    status,         \* IngestionJob.status; "none" before the file is accepted
    attempts,       \* IngestionJob.attempts
    turns,          \* tries since attempts was last zero that ran the pipeline, or
                    \* failed at its lock (history)
    publishing,     \* jobs whose publish call is still to come
    messages,       \* process_cv_job messages in the broker, per job
    jobLock,        \* who holds the advisory lock of each job
    pipelineLock,   \* who holds the pipeline's lock
    task,           \* the job each worker has claimed
    pc,             \* where each worker is in process_cv_job
    seen,           \* per worker: candidates in its pipeline session's snapshot
    version,        \* per worker: the points it has written, 0 for none
    candidates,     \* jobs whose candidate row is committed
    chunkRows,      \* which version of the points the candidate's chunk rows list
    points,         \* which version of the points Qdrant has, 0 for none
    retries, upsets, lostJobLocks, lostPipelines    \* counted against their bounds

jobRows == <<status, attempts, turns>>
broker == <<publishing, messages>>
locks == <<jobLock, pipelineLock>>
worker == <<task, pc, seen, version>>
stores == <<candidates, chunkRows, points>>
losses == <<lostJobLocks, lostPipelines>>
bounds == <<retries, upsets, losses>>
vars == <<jobRows, broker, locks, worker, stores, bounds>>

Statuses == {"none", "pending", "processing", "failed", "dlq", "rejected", "indexed"}

\* "claimed": the row says processing; "running": inside the pipeline; "writing":
\* old points deleted; "indexing": ready to commit; the rest: in a handler.
Stages == {"idle", "claimed", "running", "writing", "indexing",
           "busy", "rejecting", "failing"}

TypeOK ==
    /\ status \in [Jobs -> Statuses]
    /\ attempts \in [Jobs -> Int]
    /\ turns \in [Jobs -> Nat]
    /\ publishing \subseteq Jobs
    /\ messages \in [Jobs -> Nat]
    /\ jobLock \in [Jobs -> Workers \cup {NoWorker}]
    /\ pipelineLock \in Workers \cup {NoWorker}
    /\ task \in [Workers -> Jobs \cup {NoJob}]
    /\ pc \in [Workers -> Stages]
    /\ seen \in [Workers -> SUBSET Jobs]
    /\ version \in [Workers -> Nat]
    /\ candidates \subseteq Jobs
    /\ chunkRows \in [Jobs -> Nat]
    /\ points \in [Jobs -> Nat]
    /\ retries \in Nat /\ upsets \in Nat
    /\ lostJobLocks \in Nat /\ lostPipelines \in Nat

Init ==
    /\ status = [j \in Jobs |-> "none"]
    /\ attempts = [j \in Jobs |-> 0]
    /\ turns = [j \in Jobs |-> 0]
    /\ publishing = {}
    /\ messages = [j \in Jobs |-> 0]
    /\ jobLock = [j \in Jobs |-> NoWorker]
    /\ pipelineLock = NoWorker
    /\ task = [w \in Workers |-> NoJob]
    /\ pc = [w \in Workers |-> "idle"]
    /\ seen = [w \in Workers |-> {}]
    /\ version = [w \in Workers |-> 0]
    /\ candidates = {}
    /\ chunkRows = [j \in Jobs |-> 0]
    /\ points = [j \in Jobs |-> 0]
    /\ retries = 0
    /\ upsets = 0
    /\ lostJobLocks = 0
    /\ lostPipelines = 0

Upset == upsets < MaxUpsets /\ upsets' = upsets + 1 /\ UNCHANGED <<retries, losses>>

-----------------------------------------------------------------------------
(* The API: accept() a new file, retry() a job.                             *)

Accept(j) ==
    /\ status[j] = "none"
    /\ status' = [status EXCEPT ![j] = "pending"]
    /\ publishing' = publishing \cup {j}
    /\ UNCHANGED <<attempts, turns, messages, locks, worker, stores, bounds>>

\* Wrong variant: a retry keeps the attempts that were used up.
RetryKeepingAttempts(j) ==
    /\ retries < MaxRetries
    /\ jobLock[j] = NoWorker
    /\ status[j] \in {"pending", "processing", "failed", "dlq"}
    /\ status' = [status EXCEPT ![j] = "pending"]
    /\ publishing' = publishing \cup {j}
    /\ retries' = retries + 1
    /\ UNCHANGED <<attempts, turns, messages, locks, worker, stores, upsets, losses>>

\* The job lock is taken for this one transaction: no worker may hold it.
Retry(j) ==
    /\ retries < MaxRetries
    /\ jobLock[j] = NoWorker
    /\ status[j] \in {"pending", "processing", "failed", "dlq"}
    /\ IF status[j] \in {"processing", "dlq"}
       THEN /\ attempts' = [attempts EXCEPT ![j] = 0]
            /\ turns' = [turns EXCEPT ![j] = 0]
       ELSE UNCHANGED <<attempts, turns>>
    /\ status' = [status EXCEPT ![j] = "pending"]
    /\ publishing' = publishing \cup {j}
    /\ retries' = retries + 1
    /\ UNCHANGED <<messages, locks, worker, stores, upsets, losses>>

\* A message goes to the broker, or is lost with the call that sends it.
Send(j) ==
    \/ messages' = [messages EXCEPT ![j] = @ + 1] /\ UNCHANGED bounds
    \/ UNCHANGED messages /\ Upset

Publish(j) ==
    /\ j \in publishing
    /\ publishing' = publishing \ {j}
    /\ Send(j)
    /\ UNCHANGED <<jobRows, locks, worker, stores>>

-----------------------------------------------------------------------------
(* process_cv_job, outside the pipeline.                                    *)

Idle(w) == pc[w] = "idle"
Claimable(j) == status[j] \in {"pending", "failed"} /\ attempts[j] < MaxAttempts

\* Another worker has the job, or there is nothing to do for it (any more).
Drop(w, j) ==
    /\ Idle(w)
    /\ messages[j] > 0
    /\ jobLock[j] # NoWorker \/ ~Claimable(j)
    /\ messages' = [messages EXCEPT ![j] = @ - 1]
    /\ status' = IF jobLock[j] = NoWorker /\ status[j] \in {"pending", "failed"}
                 THEN [status EXCEPT ![j] = "dlq"] ELSE status
    /\ UNCHANGED <<attempts, turns, publishing, locks, worker, stores, bounds>>

Claim(w, j) ==
    /\ Idle(w)
    /\ messages[j] > 0
    /\ jobLock[j] = NoWorker /\ Claimable(j)
    /\ messages' = [messages EXCEPT ![j] = @ - 1]
    /\ jobLock' = [jobLock EXCEPT ![j] = w]
    /\ status' = [status EXCEPT ![j] = "processing"]
    /\ attempts' = [attempts EXCEPT ![j] = @ + 1]
    /\ task' = [task EXCEPT ![w] = j]
    /\ pc' = [pc EXCEPT ![w] = "claimed"]
    /\ UNCHANGED <<turns, publishing, pipelineLock, seen, version, stores, bounds>>

\* The call for the job's lock or the claim's transaction fails: the message is used
\* up, the row stays as it was.
FailToClaim(w, j) ==
    /\ Idle(w)
    /\ messages[j] > 0
    /\ Upset
    /\ messages' = [messages EXCEPT ![j] = @ - 1]
    /\ UNCHANGED <<jobRows, publishing, locks, worker, stores>>

\* Leaving a named_lock block frees the lock unless its session is gone.
FreeJobLock(w) ==
    jobLock' = [j \in Jobs |-> IF jobLock[j] = w THEN NoWorker ELSE jobLock[j]]
FreePipelineLock(w) ==
    pipelineLock' = IF pipelineLock = w THEN NoWorker ELSE pipelineLock

EndTask(w) ==
    /\ task' = [task EXCEPT ![w] = NoJob]
    /\ pc' = [pc EXCEPT ![w] = "idle"]
    /\ seen' = [seen EXCEPT ![w] = {}]
    /\ version' = [version EXCEPT ![w] = 0]
    /\ FreeJobLock(w)

\* Wrong variant: waiting for the pipeline uses up an attempt.
ChargeBusy(w) ==
    /\ pc[w] = "busy"
    /\ status' = [status EXCEPT ![task[w]] = "pending"]
    /\ Send(task[w])
    /\ EndTask(w)
    /\ UNCHANGED <<attempts, turns, publishing, pipelineLock, stores>>

\* PipelineBusy: give the attempt back and come again in 15 seconds.
HandleBusy(w) ==
    /\ pc[w] = "busy"
    /\ status' = [status EXCEPT ![task[w]] = "pending"]
    /\ attempts' = [attempts EXCEPT ![task[w]] = @ - 1]
    /\ Send(task[w])
    /\ EndTask(w)
    /\ UNCHANGED <<turns, publishing, pipelineLock, stores>>

\* Wrong variant: the reason is written where the status belongs.
HandleRejectReason(w) ==
    /\ pc[w] = "rejecting"
    /\ status' = [status EXCEPT ![task[w]] = "duplicate"]
    /\ EndTask(w)
    /\ UNCHANGED <<attempts, turns, broker, pipelineLock, stores, bounds>>

HandleReject(w) ==
    /\ pc[w] = "rejecting"
    /\ status' = [status EXCEPT ![task[w]] = "rejected"]
    /\ EndTask(w)
    /\ UNCHANGED <<attempts, turns, broker, pipelineLock, stores, bounds>>

\* Wrong variant: a failed attempt is not scheduled again.
FailWithoutRetry(w) ==
    /\ pc[w] = "failing"
    /\ status' = [status EXCEPT ![task[w]] = IF @ = "indexed" THEN @ ELSE "failed"]
    /\ EndTask(w)
    /\ UNCHANGED <<attempts, turns, broker, pipelineLock, stores, bounds>>

HandleFailure(w) ==
    /\ pc[w] = "failing"
    /\ \/ status[task[w]] = "indexed" /\ UNCHANGED <<status, messages, bounds>>
       \/ /\ status[task[w]] # "indexed" /\ attempts[task[w]] >= MaxAttempts
          /\ status' = [status EXCEPT ![task[w]] = "dlq"]
          /\ UNCHANGED <<messages, bounds>>
       \/ /\ status[task[w]] # "indexed" /\ attempts[task[w]] < MaxAttempts
          /\ status' = [status EXCEPT ![task[w]] = "failed"]
          /\ Send(task[w])
    /\ EndTask(w)
    /\ UNCHANGED <<attempts, turns, publishing, pipelineLock, stores>>

-----------------------------------------------------------------------------
(* run_ingestion_pipeline.                                                  *)

\* The pipeline's lock is free, taken, or the call for it fails; the last one uses
\* the attempt up although nothing was run.
EnterPipeline(w) ==
    /\ pc[w] = "claimed"
    /\ \/ /\ pipelineLock = NoWorker
          /\ pipelineLock' = w
          /\ pc' = [pc EXCEPT ![w] = "running"]
          /\ seen' = [seen EXCEPT ![w] = candidates]
          /\ turns' = [turns EXCEPT ![task[w]] = @ + 1]
       \/ /\ pipelineLock # NoWorker
          /\ pc' = [pc EXCEPT ![w] = "busy"]
          /\ UNCHANGED <<pipelineLock, seen, turns>>
       \/ /\ pc' = [pc EXCEPT ![w] = "failing"]
          /\ turns' = [turns EXCEPT ![task[w]] = @ + 1]
          /\ UNCHANGED <<pipelineLock, seen>>
    /\ UNCHANGED <<status, attempts, broker, jobLock, task, version, stores, bounds>>

\* A run that succeeded ends the task; telemetry or the release of the pipeline's
\* lock may still fail, which the handler of failures gets.
EndRun(w) ==
    /\ FreePipelineLock(w)
    /\ \/ EndTask(w)
       \/ /\ pc' = [pc EXCEPT ![w] = "failing"]
          /\ UNCHANGED <<jobLock, task, seen, version>>

\* An earlier attempt committed the candidate after all.
FindCandidate(w) ==
    /\ pc[w] = "running"
    /\ task[w] \in seen[w]
    /\ status' = [status EXCEPT ![task[w]] = "indexed"]
    /\ EndRun(w)
    /\ UNCHANGED <<attempts, turns, broker, stores, bounds>>

SameText(w) == \E k \in seen[w] : TextOf[k] = TextOf[task[w]]

\* CVRejected: a duplicate, or the file or its text is no CV.  If the pipeline's
\* lock session is gone, releasing it raises and the error replaces CVRejected.
Reject(w) ==
    /\ pc[w] = "running"
    /\ task[w] \notin seen[w]
    /\ pc' = [pc EXCEPT ![w] = IF pipelineLock = w THEN "rejecting" ELSE "failing"]
    /\ FreePipelineLock(w)
    /\ UNCHANGED <<jobRows, broker, jobLock, task, seen, version, stores, bounds>>

\* Storage, model, Qdrant or database errors.
Fail(w) ==
    /\ pc[w] \in {"running", "writing", "indexing"}
    /\ pc' = [pc EXCEPT ![w] = "failing"]
    /\ FreePipelineLock(w)
    /\ UNCHANGED <<jobRows, broker, jobLock, task, seen, version, stores, bounds>>

\* Wrong variant: duplicates are looked for only in the file's own job.
ExtractAnyway(w) ==
    /\ pc[w] = "running"
    /\ task[w] \notin seen[w]
    /\ \/ /\ points' = [points EXCEPT ![task[w]] = 0]
          /\ pc' = [pc EXCEPT ![w] = "writing"]
       \/ /\ pc' = [pc EXCEPT ![w] = "indexing"]
          /\ UNCHANGED points
    /\ UNCHANGED <<jobRows, broker, locks, task, seen, version,
                   candidates, chunkRows, bounds>>

\* The text is new and is a CV.  If it yields documents, the points an earlier
\* attempt may have left are deleted first; without documents Qdrant is not asked.
Extract(w) ==
    /\ pc[w] = "running"
    /\ task[w] \notin seen[w] /\ ~SameText(w)
    /\ \/ /\ points' = [points EXCEPT ![task[w]] = 0]
          /\ pc' = [pc EXCEPT ![w] = "writing"]
       \/ /\ pc' = [pc EXCEPT ![w] = "indexing"]
          /\ UNCHANGED points
    /\ UNCHANGED <<jobRows, broker, locks, task, seen, version,
                   candidates, chunkRows, bounds>>

\* New random chunk ids: a version of the job's points that nothing refers to.
InUse(j) ==
    {0, points[j], chunkRows[j]} \cup {version[w] : w \in {v \in Workers : task[v] = j}}
FreshVersion(j) ==
    CHOOSE n \in (1 .. Cardinality(Workers) + 3) \ InUse(j) : TRUE

\* Wrong variant: the list of chunk ids is kept from before the failed attempt.
UpsertOldIds(w) ==
    /\ pc[w] = "writing"
    /\ points' = [points EXCEPT ![task[w]] = FreshVersion(task[w])]
    /\ version' = [version EXCEPT ![w] = attempts[task[w]]]
    /\ pc' = [pc EXCEPT ![w] = "indexing"]
    /\ UNCHANGED <<jobRows, broker, locks, task, seen, candidates, chunkRows, bounds>>

Upsert(w) ==
    /\ pc[w] = "writing"
    /\ points' = [points EXCEPT ![task[w]] = FreshVersion(task[w])]
    /\ version' = [version EXCEPT ![w] = FreshVersion(task[w])]
    /\ pc' = [pc EXCEPT ![w] = "indexing"]
    /\ UNCHANGED <<jobRows, broker, locks, task, seen, candidates, chunkRows, bounds>>

\* Wrong variant: the candidate is committed before the job's status.
CommitCandidateOnly(w) ==
    /\ pc[w] = "indexing"
    /\ task[w] \notin candidates
    /\ candidates' = candidates \cup {task[w]}
    /\ chunkRows' = [chunkRows EXCEPT ![task[w]] = version[w]]
    /\ pc' = [pc EXCEPT ![w] = "failing"]
    /\ FreePipelineLock(w)
    /\ UNCHANGED <<jobRows, broker, jobLock, task, seen, version, points, bounds>>

\* Candidate, chunk rows and status in one transaction.  The candidate's key is the
\* job's, so a second commit for it fails.
Commit(w) ==
    /\ pc[w] = "indexing"
    /\ task[w] \notin candidates
    /\ candidates' = candidates \cup {task[w]}
    /\ chunkRows' = [chunkRows EXCEPT ![task[w]] = version[w]]
    /\ status' = [status EXCEPT ![task[w]] = "indexed"]
    /\ EndRun(w)
    /\ UNCHANGED <<attempts, turns, broker, points, bounds>>

-----------------------------------------------------------------------------
(* Failures.                                                                *)

\* The worker dies, or the database fails a handler: its sessions and locks are
\* gone, the row stays as it is, and its message comes back or does not.
Crash(w) ==
    /\ ~Idle(w)
    /\ Upset
    /\ FreePipelineLock(w)
    /\ EndTask(w)
    /\ \E n \in {0, 1} : messages' = [messages EXCEPT ![task[w]] = @ + n]
    /\ UNCHANGED <<jobRows, publishing, stores>>

\* The session that holds a lock breaks; the worker does not notice.
LoseJobLock(w) ==
    /\ lostJobLocks < MaxLostJobLocks
    /\ \E j \in Jobs : jobLock[j] = w
    /\ FreeJobLock(w)
    /\ lostJobLocks' = lostJobLocks + 1
    /\ UNCHANGED <<jobRows, broker, pipelineLock, worker, stores,
                   retries, upsets, lostPipelines>>

LosePipelineLock(w) ==
    /\ lostPipelines < MaxLostPipelines
    /\ pipelineLock = w
    /\ pipelineLock' = NoWorker
    /\ lostPipelines' = lostPipelines + 1
    /\ UNCHANGED <<jobRows, broker, jobLock, worker, stores, retries, upsets, lostJobLocks>>

-----------------------------------------------------------------------------

WorkerStep(w) ==
    \/ EnterPipeline(w) \/ FindCandidate(w) \/ Reject(w) \/ Fail(w)
    \/ Extract(w) \/ Upsert(w) \/ Commit(w)
    \/ HandleBusy(w) \/ HandleReject(w) \/ HandleFailure(w)

Receive(w, j) == Drop(w, j) \/ Claim(w, j) \/ FailToClaim(w, j)

Next ==
    \/ \E j \in Jobs : Accept(j) \/ Retry(j) \/ Publish(j)
    \/ \E w \in Workers, j \in Jobs : Receive(w, j)
    \/ \E w \in Workers : WorkerStep(w) \/ Crash(w) \/ LoseJobLock(w) \/ LosePipelineLock(w)

Spec == Init /\ [][Next]_vars

\* The API call that accepted a job goes on to publish it; a worker goes on with
\* its job; the broker delivers a waiting message when workers become idle.
Fairness ==
    /\ \A j \in Jobs : WF_vars(Publish(j))
    /\ \A w \in Workers : WF_vars(WorkerStep(w))
    /\ \A j \in Jobs : SF_vars(\E w \in Workers : Receive(w, j))

FairSpec == Spec /\ Fairness

-----------------------------------------------------------------------------
(* Properties.                                                             *)

\* No session that holds a job's lock has broken under its worker so far.
JobLocksKept == lostJobLocks = 0

\* Files with the same text become one candidate, whatever order workers, retries and
\* crashes take (the pipeline's lock makes the duplicate check and the commit one
\* step), and at most one more for each time the session that holds the pipeline's
\* lock breaks under its worker; lost locks of jobs let no duplicate in.
AlikeJobs(S, t) == {j \in S : TextOf[j] = t}
DuplicatesBounded ==
    \A t \in Texts : Cardinality(AlikeJobs(candidates, t)) <= 1 + lostPipelines

\* A job says indexed exactly when its candidate is committed, in every state in
\* between too: one transaction, no later handler undoes it.
IndexedMeansCandidate == \A j \in Jobs : j \in candidates <=> status[j] = "indexed"

\* What a candidate's chunk rows list is what Qdrant holds for it, not what a
\* failed attempt left or another attempt deleted, also when the pipeline's lock was
\* lost and two runs overlap.
ChunksFound == \A j \in candidates : chunkRows[j] # 0 => points[j] = chunkRows[j]
ChunksSearchable == JobLocksKept => ChunksFound

\* attempts counts the tries that got their turn: pipeline runs, and calls for the
\* pipeline's lock that failed.  A worker that only found the pipeline taken is not
\* charged, a crash not forgotten, and no job is tried more than MaxAttempts times
\* before an administrator looks at it.
AttemptsCountRuns ==
    JobLocksKept =>
        \A j \in Jobs :
            /\ status[j] # "processing" => attempts[j] = turns[j]
            /\ turns[j] <= MaxAttempts

\* A job that no worker is on can always be taken up again, also after a worker died
\* with it on its last attempt: its lock is free for an administrator's retry, and the
\* message of a retry finds an attempt left instead of ending the job unrun.
StoppedJobCanRun ==
    JobLocksKept =>
        \A j \in Jobs : (\A w \in Workers : task[w] # j) =>
            /\ jobLock[j] = NoWorker
            /\ status[j] \in {"pending", "failed"} => attempts[j] < MaxAttempts

\* Rejected and indexed jobs stay so.
FinishedIsFinal ==
    [][JobLocksKept' => \A j \in Jobs :
        status[j] \in {"rejected", "indexed"} => status'[j] = status[j]]_vars

\* pipeline.py: a "retry replaces the same candidate's points rather than leaving
\* new orphans": once a job is finished Qdrant holds the points its candidate's
\* chunk rows list, and none for a job without candidate.
NoOrphanPoints ==
    \A j \in Jobs :
        status[j] \in {"rejected", "indexed"} => points[j] = chunkRows[j]

\* Unless a worker dies or a message is lost, an accepted job ends: indexed,
\* rejected, or in the dead letter state for an administrator.
JobSettles ==
    \A j \in Jobs :
        status[j] = "pending" ~> status[j] \in {"indexed", "rejected", "dlq"}

-----------------------------------------------------------------------------
(* Why the properties hold: a worker has the lock of its job as long as no  *)
(* session of a job's lock breaks, and no more workers are inside the       *)
(* pipeline than its lock was lost, and one.                                *)

Working == {"running", "writing", "indexing"}

WorkersBusy == \A w \in Workers : pc[w] = "idle" <=> task[w] = NoJob

\* Inside the pipeline a worker has the lock, or the lock was lost since.
Inside == {w \in Workers : pc[w] \in Working}
FewOverlap == Cardinality(Inside \ {pipelineLock}) <= lostPipelines

\* Snapshots age, but show nothing that is not there; what is written was new.
SnapshotsTrue ==
    \A w \in Workers :
        /\ seen[w] \subseteq candidates
        /\ pc[w] \in {"writing", "indexing"} => ~SameText(w)

\* The workers that may still commit a candidate with the text t: each entered when
\* there was none, so all of them were inside at once.
Hopeful(t) == {w \in Inside : TextOf[task[w]] = t /\ ~SameText(w)}
TextsBounded ==
    /\ IsFiniteSet(candidates)
    /\ \A t \in Texts :
        Cardinality(AlikeJobs(candidates, t)) + Cardinality(Hopeful(t)) <= 1 + lostPipelines

OverlapInv == FewOverlap /\ SnapshotsTrue /\ TextsBounded

JobLocks == \A w \in Workers, j \in Jobs : jobLock[j] = w <=> task[w] = j

\* A worker's job is processing, or just indexed by the worker itself.
RowsFit ==
    \A w \in Workers : pc[w] # "idle" =>
        \/ status[task[w]] = "processing"
        \/ status[task[w]] = "indexed" /\ pc[w] = "failing"

\* What a worker is about to commit is what it has written.
PointsWritten ==
    \A w \in Workers :
        /\ pc[w] \in {"idle", "claimed", "running", "writing"} => version[w] = 0
        /\ pc[w] = "indexing" /\ version[w] # 0 => points[task[w]] = version[w]

\* A claim is one attempt, which becomes a run, is lost at the pipeline's lock or is
\* given back.
AttemptsFit ==
    /\ \A j \in Jobs : turns[j] <= attempts[j] /\ attempts[j] <= MaxAttempts
    /\ \A j \in Jobs : status[j] # "processing" => attempts[j] = turns[j]
    /\ \A w \in Workers : pc[w] # "idle" =>
        attempts[task[w]] = turns[task[w]] + IF pc[w] \in {"claimed", "busy"} THEN 1 ELSE 0

AttemptsLeft ==
    \A j \in Jobs : status[j] \in {"none", "pending", "failed"} => attempts[j] < MaxAttempts

LockedInv ==
    /\ JobLocks /\ RowsFit /\ PointsWritten /\ AttemptsFit /\ AttemptsLeft
    /\ IndexedMeansCandidate /\ ChunksFound

\* Types and the bound on overlaps hold in any case, the rest while no session of a
\* job's lock has broken.
JobsInv == TypeOK /\ WorkersBusy /\ OverlapInv /\ (JobLocksKept => LockedInv)

-----------------------------------------------------------------------------
(* Ingestion implements CVPromise, as long as no session of a job's lock    *)
(* breaks.                                                                  *)

Promise == INSTANCE CVPromise WITH
    Files <- Jobs, TextIn <- TextOf,
    waiting <- {j \in Jobs : status[j] \in {"pending", "processing", "failed", "dlq"}},
    refused <- {j \in Jobs : status[j] = "rejected"},
    searchable <- {j \in candidates : chunkRows[j] # 0 => points[j] = chunkRows[j]},
    lapses <- lostPipelines

\* Rows, messages, locks, workers that die, retries and two stores together do what
\* CVPromise says of a file: it is taken in whole and with a new text, or refused, and
\* neither is ever undone.
KeepsCVPromise ==
    /\ Promise!FilesInit
    /\ [][Promise!FilesNext \/ ~JobLocksKept']_(Promise!fileVars)

=============================================================================
