------------------------- MODULE IngestionJobsProofs -------------------------
(***************************************************************************)
(* Theorems about CV ingestion, for every set of jobs, texts and workers   *)
(* and for every bound.  The bound on candidates with the same text holds  *)
(* with any number of broken lock sessions; the rest as long as no session *)
(* that holds a job's lock breaks under a live worker.                     *)
(***************************************************************************)
EXTENDS IngestionJobs, FiniteSetTheorems, TLAPS

USE DEF jobRows, broker, locks, worker, stores, losses, bounds, vars

-----------------------------------------------------------------------------
(* Types.                                                                  *)

\* There is always a fresh version of a job's points.
LEMMA FreshTypes == ASSUME TypeOK, NEW j \in Jobs PROVE FreshVersion(j) \in Nat
<1> DEFINE n == Cardinality(Workers)
           mine == {v \in Workers : task[v] = j}
           V == {version[w] : w \in mine}
           f == [w \in mine |-> version[w]]
           R == 1 .. (n + 3)
<1>1. IsFiniteSet(Workers) /\ n \in Nat
  BY IngestionAssumption, FS_CardinalityType
<1>2. IsFiniteSet(mine) /\ Cardinality(mine) <= n /\ Cardinality(mine) \in Nat
  <2>1. mine \in SUBSET Workers
    OBVIOUS
  <2> QED
    BY <1>1, <2>1, FS_Subset, FS_CardinalityType
<1>3. IsFiniteSet(V) /\ Cardinality(V) <= n /\ Cardinality(V) \in Nat
  <2>1. f \in Surjection(mine, V)
    BY DEF Surjection
  <2>2. IsFiniteSet(V) /\ Cardinality(V) <= Cardinality(mine)
    BY <1>2, <2>1, FS_Surjection
  <2> QED
    BY <1>1, <1>2, <2>2, FS_CardinalityType
<1> HIDE DEF V, mine, f
<1> DEFINE W == V \cup {points[j]}
<1>4. IsFiniteSet(W) /\ Cardinality(W) <= n + 1 /\ Cardinality(W) \in Nat
  <2>1. IsFiniteSet(W) /\ Cardinality(W) <= Cardinality(V) + 1
    BY <1>3, FS_AddElement
  <2> QED
    BY <1>1, <1>3, <2>1, FS_CardinalityType
<1> HIDE DEF W
<1> DEFINE U == W \cup {chunkRows[j]}
<1>5. IsFiniteSet(U) /\ Cardinality(U) <= n + 2 /\ Cardinality(U) \in Nat
  <2>1. IsFiniteSet(U) /\ Cardinality(U) <= Cardinality(W) + 1
    BY <1>4, FS_AddElement
  <2> QED
    BY <1>1, <1>4, <2>1, FS_CardinalityType
<1>6. IsFiniteSet(R) /\ Cardinality(R) = n + 3
  <2>1. n + 3 \in Int /\ 1 \in Int /\ ~(1 > n + 3)
    BY <1>1
  <2> QED
    BY <1>1, <2>1, FS_Interval
<1> HIDE DEF U, n
<1>7. ~(R \subseteq U)
  <2>1. SUFFICES ASSUME R \in SUBSET U PROVE FALSE
    OBVIOUS
  <2>2. Cardinality(R) <= Cardinality(U)
    BY <1>5, <2>1, FS_Subset
  <2> QED
    BY <1>1, <1>5, <1>6, <2>2
<1>8. R \ InUse(j) # {}
  BY <1>1, <1>7 DEF InUse, U, W, V, mine
<1>9. FreshVersion(j) \in R \ InUse(j)
  BY <1>8 DEF FreshVersion, n
<1> QED
  BY <1>1, <1>9

\* Initially every variable has its type.
LEMMA TypeInit == ASSUME Init PROVE TypeOK
  BY IngestionAssumption DEF Init, TypeOK, Statuses, Stages

\* The end of a task keeps the types of what it touches.
LEMMA EndTypes ==
  ASSUME TypeOK, NEW w \in Workers, EndTask(w)
  PROVE  /\ task' \in [Workers -> Jobs \cup {NoJob}] /\ pc' \in [Workers -> Stages]
         /\ seen' \in [Workers -> SUBSET Jobs] /\ version' \in [Workers -> Nat]
         /\ jobLock' \in [Jobs -> Workers \cup {NoWorker}]
  BY DEF TypeOK, EndTask, FreeJobLock, Stages

\* So does the release of the pipeline's lock.
LEMMA PipelineTypes ==
  ASSUME TypeOK, NEW w \in Workers, FreePipelineLock(w)
  PROVE  pipelineLock' \in Workers \cup {NoWorker}
  BY DEF TypeOK, FreePipelineLock

\* And both together.
LEMMA RunTypes ==
  ASSUME TypeOK, NEW w \in Workers, EndRun(w)
  PROVE  /\ task' \in [Workers -> Jobs \cup {NoJob}] /\ pc' \in [Workers -> Stages]
         /\ seen' \in [Workers -> SUBSET Jobs] /\ version' \in [Workers -> Nat]
         /\ jobLock' \in [Jobs -> Workers \cup {NoWorker}]
         /\ pipelineLock' \in Workers \cup {NoWorker}
<1>1. pipelineLock' \in Workers \cup {NoWorker}
  BY PipelineTypes DEF EndRun
<1>2. CASE EndTask(w)
  BY <1>1, <1>2, EndTypes
<1>3. CASE ~EndTask(w)
  BY <1>1, <1>3 DEF EndRun, TypeOK, Stages
<1> QED
  BY <1>2, <1>3

\* And a message that is sent or lost.
LEMMA SendTypes ==
  ASSUME TypeOK, NEW j \in Jobs, Send(j)
  PROVE  /\ messages' \in [Jobs -> Nat]
         /\ retries' \in Nat /\ upsets' \in Nat
         /\ lostJobLocks' \in Nat /\ lostPipelines' \in Nat
  BY DEF TypeOK, Send, Upset

\* A step of the API keeps the types.
LEMMA TypeApi ==
  ASSUME TypeOK, NEW j \in Jobs, Accept(j) \/ Retry(j) \/ Publish(j) PROVE TypeOK'
<1>1. CASE Accept(j)
  BY <1>1 DEF Accept, TypeOK, Statuses
<1>2. CASE Retry(j)
  BY <1>2 DEF Retry, TypeOK, Statuses
<1>3. CASE Publish(j)
  BY <1>3, SendTypes DEF Publish, TypeOK
<1> QED
  BY <1>1, <1>2, <1>3

\* A message that is received keeps the types.
LEMMA TypeReceive ==
  ASSUME TypeOK, NEW w \in Workers, NEW j \in Jobs, Receive(w, j) PROVE TypeOK'
<1>1. CASE Drop(w, j)
  BY <1>1 DEF Drop, TypeOK, Statuses
<1>2. CASE Claim(w, j)
  BY <1>2 DEF Claim, TypeOK, Statuses, Stages
<1>3. CASE FailToClaim(w, j)
  BY <1>3 DEF FailToClaim, Upset, TypeOK
<1> QED
  BY <1>1, <1>2, <1>3 DEF Receive

\* A step of a worker keeps the types.
LEMMA TypeWorker ==
  ASSUME TypeOK, WorkersBusy, NEW w \in Workers, WorkerStep(w) PROVE TypeOK'
<1>0. pc[w] # "idle" => task[w] \in Jobs
  BY DEF TypeOK, WorkersBusy
<1>1. CASE EnterPipeline(w)
  BY <1>0, <1>1 DEF EnterPipeline, TypeOK, Stages
<1>2. CASE FindCandidate(w)
  <2>1. status' \in [Jobs -> Statuses]
    BY <1>2 DEF FindCandidate, TypeOK, Statuses
  <2> QED
    BY <1>2, <2>1, RunTypes DEF FindCandidate, TypeOK
<1>3. CASE Reject(w)
  BY <1>3, PipelineTypes DEF Reject, TypeOK, Stages
<1>4. CASE Fail(w)
  BY <1>4, PipelineTypes DEF Fail, TypeOK, Stages
<1>5. CASE Extract(w)
  BY <1>0, <1>5 DEF Extract, TypeOK, Stages
<1>6. CASE Upsert(w)
  <2>1. task[w] \in Jobs /\ FreshVersion(task[w]) \in Nat
    BY <1>0, <1>6, FreshTypes DEF Upsert
  <2> QED
    BY <1>6, <2>1 DEF Upsert, TypeOK, Stages
<1>7. CASE Commit(w)
  <2>1. /\ candidates' \subseteq Jobs /\ chunkRows' \in [Jobs -> Nat]
        /\ status' \in [Jobs -> Statuses]
    BY <1>0, <1>7 DEF Commit, TypeOK, Statuses
  <2> QED
    BY <1>7, <2>1, RunTypes DEF Commit, TypeOK
<1>8. CASE HandleBusy(w)
  <2>1. attempts' \in [Jobs -> Int] /\ status' \in [Jobs -> Statuses]
    BY <1>0, <1>8 DEF HandleBusy, TypeOK, Statuses
  <2>2. task[w] \in Jobs
    BY <1>0, <1>8 DEF HandleBusy
  <2> QED
    BY <1>8, <2>1, <2>2, EndTypes, SendTypes DEF HandleBusy, TypeOK
<1>9. CASE HandleReject(w)
  BY <1>0, <1>9, EndTypes DEF HandleReject, TypeOK, Statuses
<1>10. CASE HandleFailure(w)
  <2>1. task[w] \in Jobs
    BY <1>0, <1>10 DEF HandleFailure
  <2>2. status' \in [Jobs -> Statuses]
    BY <1>10 DEF HandleFailure, TypeOK, Statuses
  <2>3. /\ messages' \in [Jobs -> Nat]
        /\ retries' \in Nat /\ upsets' \in Nat
        /\ lostJobLocks' \in Nat /\ lostPipelines' \in Nat
    <3>1. CASE Send(task[w])
      BY <2>1, <3>1, SendTypes
    <3>2. CASE UNCHANGED <<messages, bounds>>
      BY <3>2 DEF TypeOK
    <3> QED
      BY <1>10, <3>1, <3>2 DEF HandleFailure
  <2> QED
    BY <1>10, <2>2, <2>3, EndTypes DEF HandleFailure, TypeOK
<1> QED
  BY <1>1, <1>2, <1>3, <1>4, <1>5, <1>6, <1>7, <1>8, <1>9, <1>10 DEF WorkerStep

\* Every step keeps the types.
LEMMA TypeStep == ASSUME TypeOK, WorkersBusy, [Next]_vars PROVE TypeOK'
<1>1. ASSUME NEW w \in Workers, Crash(w) PROVE TypeOK'
  <2>1. task[w] \in Jobs
    BY <1>1 DEF Crash, Idle, TypeOK, WorkersBusy
  <2>2. PICK n \in {0, 1} : messages' = [messages EXCEPT ![task[w]] = @ + n]
    BY <1>1 DEF Crash
  <2>3. messages' \in [Jobs -> Nat]
    BY <2>1, <2>2 DEF TypeOK
  <2> QED
    BY <1>1, <2>3, EndTypes, PipelineTypes DEF Crash, Upset, TypeOK
<1>2. ASSUME NEW w \in Workers, LoseJobLock(w) \/ LosePipelineLock(w) PROVE TypeOK'
  BY <1>2 DEF LoseJobLock, LosePipelineLock, FreeJobLock, TypeOK
<1>3. CASE UNCHANGED vars
  BY <1>3 DEF TypeOK
<1> QED
  BY <1>1, <1>2, <1>3, TypeApi, TypeReceive, TypeWorker DEF Next

\* A worker has a task exactly while it is not idle.
LEMMA BusyStep == ASSUME TypeOK, WorkersBusy, [Next]_vars PROVE WorkersBusy'
<1>1. ASSUME NEW w \in Workers, EndTask(w) PROVE WorkersBusy'
  BY <1>1 DEF EndTask, TypeOK, WorkersBusy
<1>2. ASSUME NEW w \in Workers, WorkerStep(w) PROVE WorkersBusy'
  <2>1. \/ EndTask(w)
        \/ \E s \in Stages \ {"idle"} :
              pc[w] # "idle" /\ pc' = [pc EXCEPT ![w] = s] /\ UNCHANGED task
    BY <1>2 DEF WorkerStep, EnterPipeline, FindCandidate, EndRun, Reject, Fail, Extract, Upsert,
                Commit, HandleBusy, HandleReject, HandleFailure, Stages
  <2>2. CASE EndTask(w)
    BY <1>1, <2>2
  <2>3. CASE ~EndTask(w)
    BY <2>1, <2>3 DEF TypeOK, WorkersBusy
  <2> QED
    BY <2>2, <2>3
<1>3. ASSUME NEW w \in Workers, NEW j \in Jobs, Receive(w, j) PROVE WorkersBusy'
  BY <1>3, IngestionAssumption DEF Receive, Drop, Claim, FailToClaim, TypeOK, WorkersBusy
<1>4. ASSUME NEW w \in Workers, Crash(w) PROVE WorkersBusy'
  BY <1>1, <1>4 DEF Crash
<1>5. ASSUME UNCHANGED worker PROVE WorkersBusy'
  BY <1>5 DEF WorkersBusy
<1>6. \/ \E w \in Workers : WorkerStep(w) \/ Crash(w)
      \/ \E w \in Workers, j \in Jobs : Receive(w, j)
      \/ UNCHANGED worker
  BY DEF Next, Accept, Retry, Publish, LoseJobLock, LosePipelineLock
<1> QED
  BY <1>2, <1>3, <1>4, <1>5, <1>6

-----------------------------------------------------------------------------
(* The locks: while no session of a job's lock breaks, every action keeps    *)
(* LockedInv.                                                               *)

\* Initially nobody holds or works on anything.
LEMMA LockedInit == ASSUME Init PROVE LockedInv
  BY IngestionAssumption DEF Init, LockedInv, JobLocks, RowsFit, PointsWritten, AttemptsFit, AttemptsLeft,
     IndexedMeansCandidate, ChunksFound

\* A new file has no worker, no candidate and no points.
LEMMA LockAccept ==
  ASSUME TypeOK, WorkersBusy, LockedInv, NEW j \in Jobs, Accept(j)
  PROVE  LockedInv'
<1>1. JobLocks'
  BY DEF Accept, LockedInv, JobLocks
<1>2. RowsFit' /\ AttemptsFit'
  BY DEF Accept, LockedInv, RowsFit, AttemptsFit
<1>3. PointsWritten'
  BY DEF Accept, LockedInv, PointsWritten
<1>4. IndexedMeansCandidate' /\ ChunksFound'
  BY DEF Accept, LockedInv, IndexedMeansCandidate, ChunksFound
<1>5. AttemptsLeft'
  BY IngestionAssumption DEF Accept, TypeOK, LockedInv, AttemptsLeft
<1> QED
  BY <1>1, <1>2, <1>3, <1>4, <1>5 DEF LockedInv

\* Nobody works on a job an administrator retries, as its lock is free; an indexed job
\* is refused.
LEMMA LockRetry ==
  ASSUME TypeOK, WorkersBusy, LockedInv, NEW j \in Jobs, Retry(j)
  PROVE  LockedInv'
<1>1. JobLocks'
  BY DEF Retry, LockedInv, JobLocks
<1>2. RowsFit' /\ AttemptsFit'
  BY IngestionAssumption DEF Retry, TypeOK, WorkersBusy, LockedInv, RowsFit, AttemptsFit,
     JobLocks
<1>3. PointsWritten'
  BY DEF Retry, LockedInv, PointsWritten
<1>4. IndexedMeansCandidate' /\ ChunksFound'
  BY DEF Retry, LockedInv, IndexedMeansCandidate, ChunksFound
<1>5. AttemptsLeft'
  BY IngestionAssumption DEF Retry, TypeOK, LockedInv, AttemptsLeft
<1> QED
  BY <1>1, <1>2, <1>3, <1>4, <1>5 DEF LockedInv

\* The broker and the pipeline's lock do not show in the invariant.
LEMMA LockFrame ==
  ASSUME LockedInv,
         UNCHANGED <<jobRows, jobLock, task, pc, version, candidates, chunkRows, points>>
  PROVE  LockedInv'
BY DEF LockedInv, JobLocks, RowsFit, PointsWritten, AttemptsFit, AttemptsLeft,
       IndexedMeansCandidate, ChunksFound

\* Only a pending or failed row is given up, and no worker has it.
LEMMA LockDrop ==
  ASSUME TypeOK, WorkersBusy, LockedInv, NEW w \in Workers, NEW j \in Jobs, Drop(w, j)
  PROVE  LockedInv'
<1>1. JobLocks'
  BY DEF Drop, LockedInv, JobLocks
<1>2. RowsFit' /\ AttemptsFit'
  BY DEF Drop, LockedInv, RowsFit, AttemptsFit
<1>3. PointsWritten'
  BY DEF Drop, LockedInv, PointsWritten
<1>4. IndexedMeansCandidate' /\ ChunksFound'
  BY DEF Drop, LockedInv, IndexedMeansCandidate, ChunksFound
<1>5. AttemptsLeft'
  BY DEF Drop, Claimable, TypeOK, LockedInv, AttemptsLeft
<1> QED
  BY <1>1, <1>2, <1>3, <1>4, <1>5 DEF LockedInv

\* A claimed job was nobody's, and the attempt is within MaxAttempts.
LEMMA LockClaim ==
  ASSUME TypeOK, WorkersBusy, LockedInv, NEW w \in Workers, NEW j \in Jobs, Claim(w, j)
  PROVE  LockedInv'
<1>1. JobLocks'
  BY IngestionAssumption DEF Claim, Idle, TypeOK, WorkersBusy, LockedInv, JobLocks
<1>2. RowsFit' /\ AttemptsFit'
  BY IngestionAssumption DEF Claim, Claimable, TypeOK, LockedInv, RowsFit, AttemptsFit
<1>3. PointsWritten'
  BY DEF Claim, Idle, LockedInv, PointsWritten
<1>4. IndexedMeansCandidate' /\ ChunksFound'
  BY DEF Claim, Claimable, LockedInv, IndexedMeansCandidate, ChunksFound
<1>5. AttemptsLeft'
  BY DEF Claim, TypeOK, LockedInv, AttemptsLeft
<1> QED
  BY <1>1, <1>2, <1>3, <1>4, <1>5 DEF LockedInv

\* Whoever gets the pipeline's lock takes its snapshot at once and turns the attempt
\* into a run; whoever does not keeps an attempt to give back.
LEMMA LockEnterPipeline ==
  ASSUME TypeOK, WorkersBusy, LockedInv, NEW w \in Workers, EnterPipeline(w)
  PROVE  LockedInv'
<1>1. JobLocks'
  BY IngestionAssumption DEF EnterPipeline, TypeOK, LockedInv, JobLocks
<1>2. RowsFit' /\ AttemptsFit'
  BY DEF EnterPipeline, TypeOK, WorkersBusy, LockedInv, RowsFit, AttemptsFit, JobLocks
<1>3. PointsWritten'
  BY DEF EnterPipeline, TypeOK, LockedInv, PointsWritten
<1>4. IndexedMeansCandidate' /\ ChunksFound'
  BY DEF EnterPipeline, LockedInv, IndexedMeansCandidate, ChunksFound
<1>5. AttemptsLeft'
  BY DEF EnterPipeline, TypeOK, LockedInv, AttemptsLeft
<1> QED
  BY <1>1, <1>2, <1>3, <1>4, <1>5 DEF LockedInv

\* A rejecting worker still holds the pipeline's lock, so its error is CVRejected.
LEMMA LockReject ==
  ASSUME TypeOK, WorkersBusy, LockedInv, NEW w \in Workers, Reject(w)
  PROVE  LockedInv'
<1>1. JobLocks'
  BY IngestionAssumption DEF Reject, TypeOK, LockedInv, JobLocks
<1>2. RowsFit' /\ AttemptsFit'
  BY DEF Reject, LockedInv, RowsFit, AttemptsFit
<1>3. PointsWritten'
  BY DEF Reject, LockedInv, PointsWritten
<1>4. IndexedMeansCandidate' /\ ChunksFound'
  BY DEF Reject, LockedInv, IndexedMeansCandidate, ChunksFound
<1>5. AttemptsLeft'
  BY DEF Reject, TypeOK, LockedInv, AttemptsLeft
<1> QED
  BY <1>1, <1>2, <1>3, <1>4, <1>5 DEF LockedInv

\* A failed run leaves the row and the candidates alone.
LEMMA LockFail ==
  ASSUME TypeOK, WorkersBusy, LockedInv, NEW w \in Workers, Fail(w)
  PROVE  LockedInv'
<1>1. JobLocks'
  BY IngestionAssumption DEF Fail, TypeOK, LockedInv, JobLocks
<1>2. RowsFit' /\ AttemptsFit'
  BY DEF Fail, LockedInv, RowsFit, AttemptsFit
<1>3. PointsWritten'
  BY DEF Fail, LockedInv, PointsWritten
<1>4. IndexedMeansCandidate' /\ ChunksFound'
  BY DEF Fail, LockedInv, IndexedMeansCandidate, ChunksFound
<1>5. AttemptsLeft'
  BY DEF Fail, TypeOK, LockedInv, AttemptsLeft
<1> QED
  BY <1>1, <1>2, <1>3, <1>4, <1>5 DEF LockedInv

\* Old points are deleted only for a job without candidate.
LEMMA LockExtract ==
  ASSUME TypeOK, WorkersBusy, LockedInv, NEW w \in Workers, Extract(w)
  PROVE  LockedInv'
<1>1. JobLocks'
  BY DEF Extract, TypeOK, LockedInv, JobLocks
<1>2. RowsFit' /\ AttemptsFit'
  BY DEF Extract, TypeOK, LockedInv, RowsFit, AttemptsFit
<1>3. PointsWritten'
  BY DEF Extract, TypeOK, WorkersBusy, LockedInv, PointsWritten,
     JobLocks
<1>4. IndexedMeansCandidate' /\ ChunksFound'
  BY DEF Extract, TypeOK, LockedInv, IndexedMeansCandidate, ChunksFound,
     RowsFit
<1>5. AttemptsLeft'
  BY DEF Extract, TypeOK, LockedInv, AttemptsLeft
<1> QED
  BY <1>1, <1>2, <1>3, <1>4, <1>5 DEF LockedInv

\* New points are written only for a job without candidate, and remembered.
LEMMA LockUpsert ==
  ASSUME TypeOK, WorkersBusy, LockedInv, NEW w \in Workers, Upsert(w)
  PROVE  LockedInv'
<1>1. JobLocks'
  BY DEF Upsert, LockedInv, JobLocks
<1>2. RowsFit' /\ AttemptsFit'
  BY DEF Upsert, LockedInv, RowsFit, AttemptsFit
<1>3. PointsWritten'
  BY DEF Upsert, TypeOK, WorkersBusy, LockedInv, PointsWritten,
     JobLocks
<1>4. IndexedMeansCandidate' /\ ChunksFound'
  BY DEF Upsert, TypeOK, LockedInv, IndexedMeansCandidate, ChunksFound,
     RowsFit
<1>5. AttemptsLeft'
  BY DEF Upsert, TypeOK, LockedInv, AttemptsLeft
<1> QED
  BY <1>1, <1>2, <1>3, <1>4, <1>5 DEF LockedInv

\* The text is still new, since the snapshot is the candidates; no other worker is
\* inside the pipeline, whose snapshot the commit would age.
LEMMA LockCommit ==
  ASSUME TypeOK, WorkersBusy, LockedInv, NEW w \in Workers, Commit(w)
  PROVE  LockedInv'
<1>1. JobLocks'
  BY IngestionAssumption DEF Commit, EndRun, EndTask, FreeJobLock, TypeOK,
     LockedInv, JobLocks
<1>2. RowsFit' /\ AttemptsFit'
  BY DEF Commit, EndRun, EndTask, TypeOK, LockedInv, RowsFit, AttemptsFit, JobLocks
<1>3. PointsWritten'
  BY DEF Commit, EndRun, EndTask, TypeOK, LockedInv, PointsWritten
<1>4. IndexedMeansCandidate' /\ ChunksFound'
  BY DEF Commit, EndRun, TypeOK, WorkersBusy, LockedInv, IndexedMeansCandidate,
     ChunksFound, PointsWritten
<1>5. AttemptsLeft'
  BY DEF Commit, EndRun, EndTask, TypeOK, LockedInv, AttemptsLeft
<1> QED
  BY <1>1, <1>2, <1>3, <1>4, <1>5 DEF LockedInv

\* The attempt that is given back is the one that did not become a run.
LEMMA LockHandleBusy ==
  ASSUME TypeOK, WorkersBusy, LockedInv, NEW w \in Workers, HandleBusy(w)
  PROVE  LockedInv'
<1>1. JobLocks'
  BY IngestionAssumption DEF HandleBusy, EndTask, FreeJobLock, TypeOK, LockedInv, JobLocks
<1>2. RowsFit' /\ AttemptsFit'
  BY IngestionAssumption DEF HandleBusy, EndTask, TypeOK, LockedInv, RowsFit, AttemptsFit,
     JobLocks
<1>3. PointsWritten'
  BY DEF HandleBusy, EndTask, TypeOK, LockedInv, PointsWritten
<1>4. IndexedMeansCandidate' /\ ChunksFound'
  BY DEF HandleBusy, LockedInv, IndexedMeansCandidate, ChunksFound,
     RowsFit
<1>5. AttemptsLeft'
  BY IngestionAssumption DEF HandleBusy, EndTask, TypeOK, LockedInv, AttemptsLeft, AttemptsFit, WorkersBusy
<1> QED
  BY <1>1, <1>2, <1>3, <1>4, <1>5 DEF LockedInv

\* A rejected job has no candidate.
LEMMA LockHandleReject ==
  ASSUME TypeOK, WorkersBusy, LockedInv, NEW w \in Workers, HandleReject(w)
  PROVE  LockedInv'
<1>1. JobLocks'
  BY IngestionAssumption DEF HandleReject, EndTask, FreeJobLock, TypeOK, LockedInv, JobLocks
<1>2. RowsFit' /\ AttemptsFit'
  BY DEF HandleReject, EndTask, TypeOK, LockedInv, RowsFit, AttemptsFit, JobLocks
<1>3. PointsWritten'
  BY DEF HandleReject, EndTask, TypeOK, LockedInv, PointsWritten
<1>4. IndexedMeansCandidate' /\ ChunksFound'
  BY DEF HandleReject, LockedInv, IndexedMeansCandidate, ChunksFound,
     RowsFit
<1>5. AttemptsLeft'
  BY DEF HandleReject, EndTask, TypeOK, LockedInv, AttemptsLeft
<1> QED
  BY <1>1, <1>2, <1>3, <1>4, <1>5 DEF LockedInv

\* The handler finds the row as this worker left it: processing, or indexed.
LEMMA LockHandleFailure ==
  ASSUME TypeOK, WorkersBusy, LockedInv, NEW w \in Workers, HandleFailure(w)
  PROVE  LockedInv'
<1>1. JobLocks'
  BY IngestionAssumption DEF HandleFailure, EndTask, FreeJobLock, TypeOK, LockedInv, JobLocks
<1>2. RowsFit' /\ AttemptsFit'
  BY DEF HandleFailure, EndTask, TypeOK, WorkersBusy, LockedInv, RowsFit, AttemptsFit,
     JobLocks
<1>3. PointsWritten'
  BY DEF HandleFailure, EndTask, TypeOK, LockedInv, PointsWritten
<1>4. IndexedMeansCandidate' /\ ChunksFound'
  BY DEF HandleFailure, TypeOK, LockedInv, IndexedMeansCandidate,
     ChunksFound
<1>5. AttemptsLeft'
  BY DEF HandleFailure, EndTask, TypeOK, LockedInv, AttemptsLeft, WorkersBusy
<1> QED
  BY <1>1, <1>2, <1>3, <1>4, <1>5 DEF LockedInv

\* A crash frees the locks and leaves the row processing, which nobody claims.
LEMMA LockCrash ==
  ASSUME TypeOK, WorkersBusy, LockedInv, NEW w \in Workers, Crash(w)
  PROVE  LockedInv'
<1>1. JobLocks'
  BY IngestionAssumption DEF Crash, EndTask, FreeJobLock, TypeOK, LockedInv,
     JobLocks
<1>2. RowsFit' /\ AttemptsFit'
  BY DEF Crash, EndTask, TypeOK, LockedInv, RowsFit, AttemptsFit
<1>3. PointsWritten'
  BY DEF Crash, EndTask, TypeOK, LockedInv, PointsWritten
<1>4. IndexedMeansCandidate' /\ ChunksFound'
  BY DEF Crash, LockedInv, IndexedMeansCandidate, ChunksFound
<1>5. AttemptsLeft'
  BY DEF Crash, EndTask, TypeOK, LockedInv, AttemptsLeft
<1> QED
  BY <1>1, <1>2, <1>3, <1>4, <1>5 DEF LockedInv

\* A candidate in the snapshot is indexed, and nobody runs an indexed job.
LEMMA NeverFound ==
  ASSUME TypeOK, WorkersBusy, SnapshotsTrue, LockedInv, NEW w \in Workers
  PROVE  ~FindCandidate(w)
<1>1. SUFFICES ASSUME FindCandidate(w) PROVE FALSE
  OBVIOUS
<1>2. pc[w] = "running" /\ task[w] \in candidates
  BY <1>1 DEF FindCandidate, SnapshotsTrue
<1>3. task[w] \in Jobs
  BY <1>2 DEF TypeOK
<1>4. status[task[w]] = "processing"
  BY <1>2 DEF LockedInv, RowsFit
<1> QED
  BY <1>2, <1>3, <1>4 DEF LockedInv, IndexedMeansCandidate

-----------------------------------------------------------------------------
(* The overlap inside the pipeline, with any number of broken sessions.     *)

\* Workers are finitely many.
LEMMA InsideFinite ==
  ASSUME NEW S \in SUBSET Workers
  PROVE  IsFiniteSet(S) /\ Cardinality(S) \in Nat
BY IngestionAssumption, FS_Subset, FS_CardinalityType

\* A part of a finite set is no larger.
LEMMA PartNoLarger ==
  ASSUME NEW T, IsFiniteSet(T), NEW S \in SUBSET T
  PROVE  IsFiniteSet(S) /\ Cardinality(S) <= Cardinality(T) /\ Cardinality(S) \in Nat
         /\ Cardinality(T) \in Nat
BY FS_Subset, FS_CardinalityType

\* Steps that let nobody in and commit nothing.
LEMMA OverlapStays ==
  ASSUME TypeOK, TypeOK', OverlapInv, UNCHANGED candidates,
         lostPipelines' >= lostPipelines,
         \A v \in Workers : pc'[v] \in Working =>
            /\ pc[v] \in Working
            /\ task'[v] = task[v] /\ seen'[v] = seen[v]
            /\ pipelineLock = v => pipelineLock' = v,
         \A v \in Workers : seen'[v] = seen[v] \/ seen'[v] = {},
         \A v \in Workers : pc'[v] \in {"writing", "indexing"} =>
            pc[v] \in {"writing", "indexing"} \/ ~SameText(v)
  PROVE  OverlapInv'
<1>1. lostPipelines \in Nat /\ lostPipelines' \in Nat
  BY DEF TypeOK
<1>2. FewOverlap'
  <2>1. (Inside \ {pipelineLock})' \in SUBSET (Inside \ {pipelineLock})
    BY DEF Inside
  <2>2. Inside \ {pipelineLock} \in SUBSET Workers
    BY DEF Inside
  <2> DEFINE new == (Inside \ {pipelineLock})'
             old == Inside \ {pipelineLock}
  <2>3. Cardinality(new) <= Cardinality(old) /\ Cardinality(new) \in Nat
        /\ Cardinality(old) \in Nat
    BY <2>1, <2>2, InsideFinite, PartNoLarger
  <2>4. Cardinality(old) <= lostPipelines
    BY DEF OverlapInv, FewOverlap
  <2> HIDE DEF new, old
  <2>5. Cardinality(new) <= lostPipelines'
    BY <1>1, <2>3, <2>4
  <2> QED
    BY <2>5 DEF FewOverlap, new
<1>3. SnapshotsTrue'
  <2>1. ASSUME NEW v \in Workers PROVE seen'[v] \subseteq candidates'
    BY DEF OverlapInv, SnapshotsTrue
  <2>2. ASSUME NEW v \in Workers, pc'[v] \in {"writing", "indexing"} PROVE ~SameText(v)'
    <3>1. task'[v] = task[v] /\ seen'[v] = seen[v]
      BY <2>2 DEF Working
    <3>2. ~SameText(v)
      BY <2>2 DEF OverlapInv, SnapshotsTrue
    <3> QED
      BY <3>1, <3>2 DEF SameText
  <2> QED
    BY <2>1, <2>2 DEF SnapshotsTrue
<1>4. ASSUME NEW t \in Texts
      PROVE  Cardinality(AlikeJobs(candidates', t)) + Cardinality(Hopeful(t)')
                <= 1 + lostPipelines'
  <2> DEFINE a == Cardinality(AlikeJobs(candidates, t))
             new == Hopeful(t)'
             old == Hopeful(t)
  <2>1. new \in SUBSET old
    BY DEF Hopeful, Inside, SameText
  <2>2. old \in SUBSET Workers
    BY DEF Hopeful, Inside
  <2>3. Cardinality(new) <= Cardinality(old) /\ Cardinality(new) \in Nat
        /\ Cardinality(old) \in Nat
    BY <2>1, <2>2, InsideFinite, PartNoLarger
  <2>4. a \in Nat /\ a + Cardinality(old) <= 1 + lostPipelines
    <3>1. IsFiniteSet(candidates) /\ AlikeJobs(candidates, t) \in SUBSET candidates
      BY DEF OverlapInv, TextsBounded, AlikeJobs
    <3>2. a \in Nat
      BY <3>1, PartNoLarger
    <3> QED
      BY <3>2 DEF OverlapInv, TextsBounded
  <2>5. AlikeJobs(candidates', t) = AlikeJobs(candidates, t)
    BY DEF AlikeJobs
  <2> HIDE DEF new, old, a
  <2>6. a + Cardinality(new) <= 1 + lostPipelines'
    BY <1>1, <2>3, <2>4
  <2> QED
    BY <2>5, <2>6 DEF a, new
<1>5. TextsBounded'
  BY <1>4 DEF OverlapInv, TextsBounded, AlikeJobs
<1> QED
  BY <1>2, <1>3, <1>5 DEF OverlapInv

\* A worker enters when nobody has the lock: all who are inside lost it.  It is hopeful
\* only if no candidate has its text yet.
LEMMA OverlapEnter ==
  ASSUME TypeOK, TypeOK', WorkersBusy, OverlapInv, NEW w \in Workers,
         EnterPipeline(w), pc'[w] = "running"
  PROVE  OverlapInv'
<1>1. /\ pc[w] = "claimed" /\ pipelineLock = NoWorker /\ pipelineLock' = w
      /\ seen'[w] = candidates
      /\ \A v \in Workers \ {w} : seen'[v] = seen[v] /\ pc'[v] = pc[v]
      /\ UNCHANGED <<task, candidates, lostPipelines>>
  BY DEF EnterPipeline, TypeOK
<1>2. lostPipelines \in Nat
  BY DEF TypeOK
<1>3. w \notin Inside /\ Inside' = Inside \cup {w} /\ Inside \in SUBSET Workers
  BY <1>1 DEF Inside, Working
<1> DEFINE in == Cardinality(Inside)
<1>4. in \in Nat /\ in <= lostPipelines
  <2>1. Inside \ {pipelineLock} = Inside
    BY <1>1, <1>3, IngestionAssumption
  <2> QED
    BY <1>3, <2>1, InsideFinite DEF OverlapInv, FewOverlap
<1>5. FewOverlap'
  <2>1. (Inside \ {pipelineLock})' = Inside
    BY <1>1, <1>3
  <2> QED
    BY <1>1, <1>4, <2>1 DEF FewOverlap
<1>6. SnapshotsTrue'
  BY <1>1 DEF OverlapInv, SnapshotsTrue, SameText
<1>7. ASSUME NEW t \in Texts
      PROVE  Cardinality(AlikeJobs(candidates', t)) + Cardinality(Hopeful(t)')
                <= 1 + lostPipelines'
  <2> DEFINE a == Cardinality(AlikeJobs(candidates, t))
             new == Hopeful(t)'
             old == Hopeful(t)
  <2>1. IsFiniteSet(candidates) /\ AlikeJobs(candidates, t) \in SUBSET candidates
    BY DEF OverlapInv, TextsBounded, AlikeJobs
  <2>2. a \in Nat /\ a + Cardinality(old) <= 1 + lostPipelines
    BY <2>1, PartNoLarger DEF OverlapInv, TextsBounded
  <2>3. CASE w \in new
    <3>1. AlikeJobs(candidates, t) = {}
      BY <1>1, <2>3 DEF Hopeful, SameText, AlikeJobs
    <3>2. a = 0
      BY <3>1, FS_EmptySet
    <3>3. new \in SUBSET (Inside \cup {w})
      BY <1>3 DEF Hopeful
    <3>4. IsFiniteSet(Inside \cup {w}) /\ Cardinality(Inside \cup {w}) = in + 1
      BY <1>3, InsideFinite, FS_AddElement
    <3>5. Cardinality(new) <= Cardinality(Inside \cup {w}) /\ Cardinality(new) \in Nat
      BY <3>3, <3>4, PartNoLarger
    <3> HIDE DEF new, a, in
    <3>6. a + Cardinality(new) <= 1 + lostPipelines
      BY <1>2, <1>4, <3>2, <3>4, <3>5
    <3> QED
      BY <1>1, <3>6 DEF a, new, AlikeJobs
  <2>4. CASE w \notin new
    <3>1. new \in SUBSET old
      BY <1>1, <1>3, <2>4 DEF Hopeful, SameText, Inside
    <3>2. old \in SUBSET Workers
      BY DEF Hopeful, Inside
    <3>3. Cardinality(new) <= Cardinality(old) /\ Cardinality(new) \in Nat
          /\ Cardinality(old) \in Nat
      BY <3>1, <3>2, InsideFinite, PartNoLarger
    <3> HIDE DEF new, old, a
    <3>4. a + Cardinality(new) <= 1 + lostPipelines
      BY <1>2, <2>2, <3>3
    <3> QED
      BY <1>1, <3>4 DEF a, new, AlikeJobs
  <2> QED
    BY <2>3, <2>4
<1>8. TextsBounded'
  BY <1>1, <1>7 DEF OverlapInv, TextsBounded, AlikeJobs
<1> QED
  BY <1>5, <1>6, <1>8 DEF OverlapInv

\* A commit makes a candidate of a hope.
LEMMA OverlapCommit ==
  ASSUME TypeOK, TypeOK', WorkersBusy, OverlapInv, NEW w \in Workers, Commit(w)
  PROVE  OverlapInv'
<1>1. /\ pc[w] = "indexing" /\ pc'[w] \notin Working
      /\ candidates' = candidates \cup {task[w]}
      /\ \A v \in Workers \ {w} : /\ seen'[v] = seen[v] /\ pc'[v] = pc[v]
                                  /\ task'[v] = task[v]
      /\ seen'[w] = seen[w] \/ seen'[w] = {}
      /\ pipelineLock' = IF pipelineLock = w THEN NoWorker ELSE pipelineLock
      /\ UNCHANGED lostPipelines
  BY DEF Commit, EndRun, EndTask, FreePipelineLock, TypeOK, Working
<1>2. lostPipelines \in Nat
  BY DEF TypeOK
<1>3. FewOverlap'
  <2> DEFINE new == (Inside \ {pipelineLock})'
             old == Inside \ {pipelineLock}
  <2>1. new \in SUBSET old
    BY <1>1 DEF Inside
  <2>2. old \in SUBSET Workers
    BY DEF Inside
  <2>3. Cardinality(new) <= Cardinality(old) /\ Cardinality(new) \in Nat
        /\ Cardinality(old) \in Nat
    BY <2>1, <2>2, InsideFinite, PartNoLarger
  <2>4. Cardinality(old) <= lostPipelines
    BY DEF OverlapInv, FewOverlap
  <2> HIDE DEF new, old
  <2>5. Cardinality(new) <= lostPipelines
    BY <1>2, <2>3, <2>4
  <2> QED
    BY <1>1, <2>5 DEF FewOverlap, new
<1>4. SnapshotsTrue'
  BY <1>1 DEF OverlapInv, SnapshotsTrue, SameText, Working
<1>5. ASSUME NEW t \in Texts
      PROVE  Cardinality(AlikeJobs(candidates', t)) + Cardinality(Hopeful(t)')
                <= 1 + lostPipelines'
  <2> DEFINE A == AlikeJobs(candidates, t)
             a == Cardinality(A)
             new == Hopeful(t)'
             old == Hopeful(t)
  <2>1. IsFiniteSet(candidates) /\ A \in SUBSET candidates
    BY DEF OverlapInv, TextsBounded, AlikeJobs
  <2>2. IsFiniteSet(A) /\ a \in Nat /\ a + Cardinality(old) <= 1 + lostPipelines
    BY <2>1, PartNoLarger DEF OverlapInv, TextsBounded
  <2>3. new \in SUBSET (old \ {w}) /\ old \in SUBSET Workers
    BY <1>1 DEF Hopeful, SameText, Inside
  <2>4. CASE TextOf[task[w]] = t
    <3>1. w \in old
      BY <1>1, <2>4 DEF Hopeful, Inside, Working, OverlapInv, SnapshotsTrue
    <3>2. Cardinality(old \ {w}) = Cardinality(old) - 1 /\ Cardinality(old) \in Nat
          /\ IsFiniteSet(old \ {w})
      BY <2>3, <3>1, InsideFinite, FS_RemoveElement
    <3>3. Cardinality(new) <= Cardinality(old \ {w}) /\ Cardinality(new) \in Nat
          /\ Cardinality(old \ {w}) \in Nat
      BY <2>3, <3>2, PartNoLarger
    <3>4. AlikeJobs(candidates', t) = A \cup {task[w]}
      BY <1>1, <2>4 DEF AlikeJobs
    <3>5. Cardinality(AlikeJobs(candidates', t)) <= a + 1
          /\ Cardinality(AlikeJobs(candidates', t)) \in Nat
      <4>1. IsFiniteSet(A \cup {task[w]})
            /\ (Cardinality(A \cup {task[w]}) = a \/ Cardinality(A \cup {task[w]}) = a + 1)
        BY <2>2, FS_AddElement
      <4> QED
        BY <2>2, <3>4, <4>1
    <3> DEFINE b == Cardinality(AlikeJobs(candidates', t))
    <3> HIDE DEF new, old, a, A, b
    <3>6. b \in Nat /\ b <= a + 1
      BY <3>5 DEF b
    <3>7. b + Cardinality(new) <= 1 + lostPipelines
      BY <1>2, <2>2, <3>2, <3>3, <3>6
    <3> QED
      BY <1>1, <3>7 DEF b, new
  <2>5. CASE TextOf[task[w]] # t
    <3>1. AlikeJobs(candidates', t) = A
      BY <1>1, <2>5 DEF AlikeJobs
    <3>2. Cardinality(new) <= Cardinality(old) /\ Cardinality(new) \in Nat
          /\ Cardinality(old) \in Nat
      BY <2>3, InsideFinite, PartNoLarger
    <3> HIDE DEF new, old, a
    <3>3. a + Cardinality(new) <= 1 + lostPipelines
      BY <1>2, <2>2, <3>2
    <3> QED
      BY <1>1, <3>1, <3>3 DEF a, new
  <2> QED
    BY <2>4, <2>5
<1>6. IsFiniteSet(candidates')
  BY <1>1, FS_AddElement DEF OverlapInv, TextsBounded
<1>7. TextsBounded'
  BY <1>5, <1>6 DEF TextsBounded
<1> QED
  BY <1>3, <1>4, <1>7 DEF OverlapInv

\* Who loses the lock stays inside, and is counted.
LEMMA OverlapLose ==
  ASSUME TypeOK, TypeOK', OverlapInv, NEW w \in Workers, LosePipelineLock(w)
  PROVE  OverlapInv'
<1>1. /\ pipelineLock = w /\ pipelineLock' = NoWorker /\ lostPipelines' = lostPipelines + 1
      /\ UNCHANGED <<task, pc, seen, candidates>>
  BY DEF LosePipelineLock
<1>2. lostPipelines \in Nat
  BY DEF TypeOK
<1>3. FewOverlap'
  <2> DEFINE new == (Inside \ {pipelineLock})'
             old == Inside \ {pipelineLock}
  <2>1. new \in SUBSET (old \cup {w}) /\ old \in SUBSET Workers
    BY <1>1 DEF Inside
  <2>2. IsFiniteSet(old) /\ Cardinality(old) \in Nat
    BY <2>1, InsideFinite
  <2>3. IsFiniteSet(old \cup {w})
        /\ (Cardinality(old \cup {w}) = Cardinality(old)
            \/ Cardinality(old \cup {w}) = Cardinality(old) + 1)
    BY <2>2, FS_AddElement
  <2>4. Cardinality(new) <= Cardinality(old \cup {w}) /\ Cardinality(new) \in Nat
    BY <2>1, <2>3, PartNoLarger
  <2>5. Cardinality(old) <= lostPipelines
    BY DEF OverlapInv, FewOverlap
  <2> HIDE DEF new, old
  <2>6. Cardinality(new) <= lostPipelines + 1
    BY <1>2, <2>2, <2>3, <2>4, <2>5
  <2> QED
    BY <1>1, <2>6 DEF FewOverlap, new
<1>4. SnapshotsTrue'
  BY <1>1 DEF OverlapInv, SnapshotsTrue, SameText
<1>5. ASSUME NEW t \in Texts
      PROVE  Cardinality(AlikeJobs(candidates', t)) + Cardinality(Hopeful(t)')
                <= 1 + lostPipelines'
  <2> DEFINE a == Cardinality(AlikeJobs(candidates, t))
             h == Cardinality(Hopeful(t))
  <2>1. IsFiniteSet(candidates) /\ AlikeJobs(candidates, t) \in SUBSET candidates
        /\ Hopeful(t) \in SUBSET Workers
    BY DEF OverlapInv, TextsBounded, AlikeJobs, Hopeful, Inside
  <2>2. a \in Nat /\ h \in Nat /\ a + h <= 1 + lostPipelines
    BY <2>1, PartNoLarger, InsideFinite DEF OverlapInv, TextsBounded
  <2>3. Hopeful(t)' = Hopeful(t) /\ AlikeJobs(candidates', t) = AlikeJobs(candidates, t)
    BY <1>1 DEF Hopeful, SameText, Inside, AlikeJobs
  <2> HIDE DEF a, h
  <2>4. a + h <= 1 + (lostPipelines + 1)
    BY <1>2, <2>2
  <2> QED
    BY <1>1, <2>3, <2>4 DEF a, h
<1>6. TextsBounded'
  BY <1>1, <1>5 DEF OverlapInv, TextsBounded
<1> QED
  BY <1>3, <1>4, <1>6 DEF OverlapInv

\* Every step keeps the bound on the overlap.
LEMMA OverlapStep ==
  ASSUME TypeOK, TypeOK', WorkersBusy, OverlapInv, [Next]_vars
  PROVE  OverlapInv'
<1>0. lostPipelines \in Nat
  BY DEF TypeOK
<1>1. ASSUME NEW j \in Jobs, Accept(j) \/ Retry(j) \/ Publish(j) PROVE OverlapInv'
  <2>1. UNCHANGED <<pc, task, seen, pipelineLock, candidates, lostPipelines>>
    BY <1>1 DEF Accept, Retry, Publish, Send, Upset
  <2> QED
    BY <1>0, <2>1, OverlapStays
<1>2. ASSUME NEW w \in Workers, NEW j \in Jobs, Receive(w, j) PROVE OverlapInv'
  <2>1. UNCHANGED <<seen, pipelineLock, candidates, lostPipelines>>
    BY <1>2 DEF Receive, Drop, Claim, FailToClaim, Upset
  <2>2. \A v \in Workers : pc'[v] \in Working => pc'[v] = pc[v] /\ task'[v] = task[v]
    BY <1>2 DEF Receive, Drop, Claim, FailToClaim, TypeOK, Working
  <2> QED
    BY <1>0, <2>1, <2>2, OverlapStays DEF Working
<1>3. ASSUME NEW w \in Workers, EnterPipeline(w), pc'[w] # "running" PROVE OverlapInv'
  <2>1. UNCHANGED <<task, seen, pipelineLock, candidates, lostPipelines>>
        /\ pc'[w] \notin Working /\ \A v \in Workers \ {w} : pc'[v] = pc[v]
    BY <1>3 DEF EnterPipeline, TypeOK, Working
  <2> QED
    BY <1>0, <2>1, OverlapStays DEF Working
<1>4. ASSUME NEW w \in Workers,
             FindCandidate(w) \/ Reject(w) \/ Fail(w)
               \/ HandleBusy(w) \/ HandleReject(w) \/ HandleFailure(w) \/ Crash(w)
      PROVE  OverlapInv'
  <2>1. UNCHANGED <<candidates, lostPipelines>>
    BY <1>4 DEF FindCandidate, Reject, Fail, HandleBusy, HandleReject, HandleFailure, Crash,
       Send, Upset
  <2>2. /\ pc'[w] \notin Working /\ seen'[w] \in {seen[w], {}}
        /\ \A v \in Workers \ {w} : /\ seen'[v] = seen[v] /\ pc'[v] = pc[v]
                                    /\ task'[v] = task[v]
    BY <1>4 DEF FindCandidate, Reject, Fail, HandleBusy, HandleReject, HandleFailure, Crash,
       EndRun, EndTask, TypeOK, Working
  <2>3. pipelineLock' = pipelineLock \/ (pipelineLock = w /\ pipelineLock' = NoWorker)
    BY <1>4 DEF FindCandidate, Reject, Fail, HandleBusy, HandleReject, HandleFailure, Crash,
       EndRun, FreePipelineLock
  <2> QED
    BY <1>0, <2>1, <2>2, <2>3, OverlapStays DEF Working
<1>5. ASSUME NEW w \in Workers, Extract(w) \/ Upsert(w) PROVE OverlapInv'
  <2>1. /\ UNCHANGED <<task, seen, pipelineLock, candidates, lostPipelines>>
        /\ \A v \in Workers \ {w} : pc'[v] = pc[v]
        /\ pc[w] \in Working
        /\ pc[w] = "writing" \/ ~SameText(w)
    BY <1>5 DEF Extract, Upsert, TypeOK, Working
  <2> QED
    BY <1>0, <2>1, OverlapStays DEF Working
<1>6. ASSUME UNCHANGED <<pc, task, seen, pipelineLock, candidates, lostPipelines>>
      PROVE  OverlapInv'
  BY <1>0, <1>6, OverlapStays
<1>7. ASSUME NEW w \in Workers, WorkerStep(w) PROVE OverlapInv'
  BY <1>3, <1>4, <1>5, <1>7, OverlapEnter, OverlapCommit DEF WorkerStep
<1>8. ASSUME NEW w \in Workers, LoseJobLock(w) PROVE OverlapInv'
  BY <1>6, <1>8 DEF LoseJobLock
<1> QED
  BY <1>1, <1>2, <1>4, <1>6, <1>7, <1>8, OverlapLose DEF Next

\* A broken session of a job's lock is counted for good.
LEMMA KeptBefore == ASSUME JobsInv, [Next]_vars, JobLocksKept' PROVE JobLocksKept
<1>1. lostJobLocks <= lostJobLocks'
  BY DEF Next, Accept, Retry, Publish, Send, Upset, Receive, Drop, Claim, FailToClaim,
     WorkerStep, EnterPipeline, FindCandidate, Reject, Fail, Extract, Upsert, Commit,
     HandleBusy, HandleReject, HandleFailure, Crash, LoseJobLock, LosePipelineLock, JobsInv,
     TypeOK
<1> QED
  BY <1>1 DEF JobLocksKept, JobsInv, TypeOK

\* Every step keeps the invariant: a broken session of a job's lock is counted for good.
LEMMA JobsStep == ASSUME JobsInv, [Next]_vars PROVE JobsInv'
<1>1. TypeOK /\ WorkersBusy /\ OverlapInv /\ TypeOK' /\ WorkersBusy' /\ OverlapInv'
  BY TypeStep, BusyStep, OverlapStep DEF JobsInv
<1>2. SUFFICES ASSUME JobLocksKept' PROVE LockedInv'
  BY <1>1 DEF JobsInv
<1>3. JobLocksKept
  BY <1>2, KeptBefore
<1>4. LockedInv /\ SnapshotsTrue
  BY <1>1, <1>3 DEF JobsInv, OverlapInv
<1>5. ASSUME NEW j \in Jobs, Accept(j) \/ Retry(j) \/ Publish(j) PROVE LockedInv'
  <2>1. CASE Publish(j)
    BY <1>4, <2>1, LockFrame DEF Publish
  <2> QED
    BY <1>1, <1>4, <1>5, <2>1, LockAccept, LockRetry
<1>6. ASSUME NEW w \in Workers, NEW j \in Jobs, Receive(w, j) PROVE LockedInv'
  <2>1. CASE FailToClaim(w, j)
    BY <1>4, <2>1, LockFrame DEF FailToClaim
  <2> QED
    BY <1>1, <1>4, <1>6, <2>1, LockDrop, LockClaim DEF Receive
<1>7. ASSUME NEW w \in Workers, WorkerStep(w) PROVE LockedInv'
  BY <1>1, <1>4, <1>7, NeverFound, LockEnterPipeline, LockReject, LockFail, LockExtract,
     LockUpsert, LockCommit, LockHandleBusy, LockHandleReject, LockHandleFailure DEF
     WorkerStep
<1>8. ASSUME NEW w \in Workers, Crash(w) PROVE LockedInv'
  BY <1>1, <1>4, <1>8, LockCrash
<1>9. ~\E w \in Workers : LoseJobLock(w)
  BY <1>1, <1>2, <1>3 DEF LoseJobLock, JobLocksKept
<1>10. ASSUME NEW w \in Workers, LosePipelineLock(w) PROVE LockedInv'
  BY <1>4, <1>10, LockFrame DEF LosePipelineLock
<1>11. CASE UNCHANGED vars
  BY <1>4, <1>11, LockFrame
<1> QED
  BY <1>5, <1>6, <1>7, <1>8, <1>9, <1>10, <1>11 DEF Next

-----------------------------------------------------------------------------
(* The theorems.                                                           *)

\* The inductive invariant, with any number of broken lock sessions.
THEOREM Inductive == Spec => []JobsInv
<1>1. Init => JobsInv
  <2>1. Init => WorkersBusy
    BY DEF Init, WorkersBusy
  <2>2. ASSUME Init PROVE OverlapInv
    <3>1. Inside = {} /\ \A t \in Texts : Hopeful(t) = {} /\ AlikeJobs(candidates, t) = {}
      BY <2>2 DEF Init, Inside, Hopeful, AlikeJobs, Working
    <3>2. FewOverlap
      BY <2>2, <3>1, FS_EmptySet DEF Init, FewOverlap
    <3>3. TextsBounded
      BY <2>2, <3>1, FS_EmptySet DEF Init, TextsBounded
    <3>4. SnapshotsTrue
      BY <2>2 DEF Init, SnapshotsTrue
    <3> QED
      BY <3>2, <3>3, <3>4 DEF OverlapInv
  <2> QED
    BY <2>1, <2>2, TypeInit, LockedInit DEF JobsInv
<1>2. JobsInv /\ [Next]_vars => JobsInv'
  BY JobsStep
<1> QED
  BY <1>1, <1>2, PTL DEF Spec

\* Every variable keeps its type: fresh point versions do not run out either.
THEOREM TypeCorrect == Spec => []TypeOK
<1>1. JobsInv => TypeOK
  BY DEF JobsInv
<1> QED
  BY <1>1, Inductive, PTL

\* Whatever locks are lost, there are at most as many candidates with one text as the
\* pipeline's lock was lost, and one.
THEOREM CandidatesPerText == Spec => []DuplicatesBounded
<1>1. JobsInv => DuplicatesBounded
  <2>1. ASSUME JobsInv, NEW t \in Texts
        PROVE  Cardinality(AlikeJobs(candidates, t)) <= 1 + lostPipelines
    <3> DEFINE a == Cardinality(AlikeJobs(candidates, t))
               h == Cardinality(Hopeful(t))
    <3>1. IsFiniteSet(candidates) /\ AlikeJobs(candidates, t) \in SUBSET candidates
          /\ Hopeful(t) \in SUBSET Workers
      BY <2>1 DEF JobsInv, OverlapInv, TextsBounded, AlikeJobs, Hopeful, Inside
    <3>2. a \in Nat /\ h \in Nat /\ a + h <= 1 + lostPipelines /\ lostPipelines \in Nat
      BY <2>1, <3>1, PartNoLarger, InsideFinite DEF JobsInv, OverlapInv, TextsBounded, TypeOK
    <3> HIDE DEF a, h
    <3>3. a <= 1 + lostPipelines
      BY <3>2
    <3> QED
      BY <3>3 DEF a
  <2> QED
    BY <2>1 DEF DuplicatesBounded
<1> QED
  BY <1>1, Inductive, PTL

\* While no session of a job's lock breaks, indexed rows and candidates are the same jobs.
THEOREM IndexedIsCommitted == Spec => [](JobLocksKept => IndexedMeansCandidate)
<1>1. JobsInv => (JobLocksKept => IndexedMeansCandidate)
  BY DEF JobsInv, LockedInv
<1> QED
  BY <1>1, Inductive, PTL

\* While no session of a job's lock breaks, Qdrant holds what the candidates' chunk rows
\* list, also when runs overlap that lost the pipeline's lock.
THEOREM ChunksAreThere == Spec => []ChunksSearchable
<1>1. JobsInv => ChunksSearchable
  BY DEF JobsInv, LockedInv, ChunksSearchable
<1> QED
  BY <1>1, Inductive, PTL

\* While no session of a job's lock breaks, attempts counts the tries that got their
\* turn and stays within its maximum.
THEOREM AttemptsAreTurns == Spec => []AttemptsCountRuns
<1>1. JobsInv => AttemptsCountRuns
  <2>1. TypeOK /\ AttemptsFit => AttemptsCountRuns
    BY IngestionAssumption DEF TypeOK, AttemptsFit, AttemptsCountRuns
  <2> QED
    BY <2>1 DEF JobsInv, LockedInv, AttemptsCountRuns
<1> QED
  BY <1>1, Inductive, PTL

\* While no session of a job's lock breaks, a job without worker can be taken up again.
THEOREM StoppedCanRun == Spec => []StoppedJobCanRun
<1>1. JobsInv => StoppedJobCanRun
  BY DEF JobsInv, TypeOK, LockedInv, JobLocks, AttemptsLeft, StoppedJobCanRun
<1> QED
  BY <1>1, Inductive, PTL

\* No step moves a job out of rejected or indexed: workers have only processing rows,
\* or the one they have indexed, and the API and the broker leave both alone.
LEMMA FinishedStep ==
  ASSUME TypeOK, WorkersBusy, SnapshotsTrue, LockedInv, [Next]_vars,
         NEW k \in Jobs, status[k] \in {"rejected", "indexed"}
  PROVE  status'[k] = status[k]
<1>1. ASSUME NEW j \in Jobs, Accept(j) \/ Retry(j) \/ Publish(j) PROVE status'[k] = status[k]
  BY <1>1 DEF Accept, Retry, Publish, TypeOK
<1>2. ASSUME NEW w \in Workers, NEW j \in Jobs, Receive(w, j) PROVE status'[k] = status[k]
  BY <1>2 DEF Receive, Drop, Claim, FailToClaim, Claimable, TypeOK
<1>3. ASSUME NEW w \in Workers, WorkerStep(w) PROVE status'[k] = status[k]
  <2>1. pc[w] # "idle" => task[w] \in Jobs
    BY DEF TypeOK, WorkersBusy
  <2>2. pc[w] # "idle" => \/ status[task[w]] = "processing"
                          \/ status[task[w]] = "indexed" /\ pc[w] = "failing"
    BY DEF LockedInv, RowsFit
  <2>3. ~FindCandidate(w)
    BY NeverFound
  <2> QED
    BY <1>3, <2>1, <2>2, <2>3 DEF WorkerStep, EnterPipeline, Reject, Fail, Extract,
       Upsert, Commit,
       HandleBusy, HandleReject, HandleFailure, TypeOK
<1>4. ASSUME NEW w \in Workers, Crash(w) \/ LoseJobLock(w) \/ LosePipelineLock(w)
      PROVE  status'[k] = status[k]
  BY <1>4 DEF Crash, LoseJobLock, LosePipelineLock
<1> QED
  BY <1>1, <1>2, <1>3, <1>4 DEF Next

\* While no session of a job's lock breaks, rejected and indexed jobs stay so.
THEOREM FinishedStays == Spec => FinishedIsFinal
<1>1. JobsInv /\ [Next]_vars
        => [JobLocksKept' => \A j \in Jobs :
              status[j] \in {"rejected", "indexed"} => status'[j] = status[j]]_vars
  BY FinishedStep, KeptBefore DEF JobsInv, OverlapInv
<1> QED
  BY <1>1, Inductive, PTL DEF Spec, FinishedIsFinal

-----------------------------------------------------------------------------
(* The refinement of CVPromise.                                             *)

Waits == {"pending", "processing", "failed", "dlq"}

\* All that is listed of any candidate can be found.
LEMMA AllSearchable ==
  ASSUME LockedInv
  PROVE  {j \in candidates : chunkRows[j] # 0 => points[j] = chunkRows[j]} = candidates
  BY DEF LockedInv, ChunksFound

\* Rows that wait before and after, and the same candidates, are a stutter.
LEMMA FilesStay ==
  ASSUME LockedInv, LockedInv', UNCHANGED <<candidates, lostPipelines>>,
         \A j \in Jobs : status'[j] = status[j] \/ {status[j], status'[j]} \subseteq Waits
  PROVE  UNCHANGED Promise!fileVars
<1>1. {j \in candidates : chunkRows[j] # 0 => points[j] = chunkRows[j]}' = candidates'
  BY DEF LockedInv, ChunksFound
<1>2. \A j \in Jobs : (status'[j] \in Waits <=> status[j] \in Waits)
                      /\ (status'[j] = "rejected" <=> status[j] = "rejected")
  BY DEF Waits
<1> QED
  BY <1>1, <1>2, AllSearchable DEF Promise!fileVars, Waits

\* A new row is a new file.
LEMMA FilesAccept ==
  ASSUME TypeOK, LockedInv, LockedInv', NEW j \in Jobs, Accept(j)
  PROVE  Promise!AcceptFile(j)
<1>1. /\ status[j] = "none" /\ status' = [status EXCEPT ![j] = "pending"]
      /\ UNCHANGED <<candidates, chunkRows, points, lostPipelines>>
  BY DEF Accept
<1>2. j \notin candidates
  BY <1>1 DEF LockedInv, IndexedMeansCandidate
<1>3. {k \in Jobs : status'[k] \in {"pending", "processing", "failed", "dlq"}}
      = {k \in Jobs : status[k] \in {"pending", "processing", "failed", "dlq"}} \cup {j}
  BY <1>1 DEF TypeOK
<1>4. {k \in Jobs : status'[k] = "rejected"} = {k \in Jobs : status[k] = "rejected"}
  BY <1>1 DEF TypeOK
<1> QED
  BY <1>1, <1>2, <1>3, <1>4, AllSearchable DEF Promise!AcceptFile

\* A lost lock of the pipeline is a lapse.
LEMMA FilesLapse ==
  ASSUME NEW w \in Workers, LosePipelineLock(w)
  PROVE  Promise!FilesNext
  BY DEF LosePipelineLock, Promise!FilesNext, Promise!Lapse

\* A worker refuses the file whose row it has.
LEMMA FilesRefuse ==
  ASSUME TypeOK, WorkersBusy, LockedInv, NEW w \in Workers, HandleReject(w)
  PROVE  Promise!FilesNext
<1>1. /\ task[w] \in Jobs /\ status[task[w]] = "processing"
      /\ status' = [status EXCEPT ![task[w]] = "rejected"]
      /\ UNCHANGED <<candidates, chunkRows, points, lostPipelines>>
  BY DEF HandleReject, TypeOK, WorkersBusy, LockedInv, RowsFit
<1>2. {k \in Jobs : status'[k] \in {"pending", "processing", "failed", "dlq"}}
      = {k \in Jobs : status[k] \in {"pending", "processing", "failed", "dlq"}} \ {task[w]}
  BY <1>1 DEF TypeOK
<1>3. {k \in Jobs : status'[k] = "rejected"}
      = {k \in Jobs : status[k] = "rejected"} \cup {task[w]}
  BY <1>1 DEF TypeOK
<1> QED
  BY <1>1, <1>2, <1>3 DEF Promise!FilesNext, Promise!RefuseFile

\* The promise counts as this module does.
LEMMA SameCount ==
  ASSUME NEW S PROVE Promise!Cardinality(S) = Cardinality(S)
  BY DEF Promise!Cardinality, Cardinality

\* Whoever commits was hopeful, so there is room for one more candidate with its text.
LEMMA FilesTakeIn ==
  ASSUME TypeOK, WorkersBusy, OverlapInv, LockedInv, LockedInv', NEW w \in Workers, Commit(w)
  PROVE  Promise!FilesNext
<1>1. /\ task[w] \in Jobs /\ status[task[w]] = "processing" /\ pc[w] = "indexing"
      /\ status' = [status EXCEPT ![task[w]] = "indexed"]
      /\ candidates' = candidates \cup {task[w]}
      /\ UNCHANGED lostPipelines
  BY DEF Commit, TypeOK, WorkersBusy, LockedInv, RowsFit
<1>2. {k \in Jobs : status'[k] \in {"pending", "processing", "failed", "dlq"}}
      = {k \in Jobs : status[k] \in {"pending", "processing", "failed", "dlq"}} \ {task[w]}
  BY <1>1 DEF TypeOK
<1>3. {k \in Jobs : status'[k] = "rejected"} = {k \in Jobs : status[k] = "rejected"}
  BY <1>1 DEF TypeOK
<1> DEFINE t == TextOf[task[w]]
           alike == Cardinality(AlikeJobs(candidates, t))
           h == Cardinality(Hopeful(t))
<1>4. alike <= lostPipelines
  <2>1. t \in Texts /\ w \in Hopeful(t) /\ Hopeful(t) \in SUBSET Workers
    BY <1>1, IngestionAssumption
    DEF Hopeful, Inside, Working, OverlapInv, SnapshotsTrue
  <2>2. IsFiniteSet(candidates) /\ AlikeJobs(candidates, t) \in SUBSET candidates
    BY DEF OverlapInv, TextsBounded, AlikeJobs
  <2>3. alike \in Nat /\ h \in Nat /\ alike + h <= 1 + lostPipelines
        /\ lostPipelines \in Nat
    BY <2>1, <2>2, PartNoLarger, InsideFinite DEF OverlapInv, TextsBounded, TypeOK
  <2>4. h # 0
    BY <2>1, InsideFinite, FS_EmptySet
  <2> HIDE DEF alike, h
  <2> QED
    BY <2>3, <2>4
<1>5. Cardinality({k \in candidates : TextOf[k] = TextOf[task[w]]}) <= lostPipelines
  BY <1>4 DEF AlikeJobs
<1>6. {k \in candidates : chunkRows[k] # 0 => points[k] = chunkRows[k]}' = candidates'
  BY DEF LockedInv, ChunksFound
<1> HIDE DEF t, alike, h
<1>7. PICK j \in Jobs : j = task[w]
  BY <1>1
<1> QED
  BY <1>1, <1>2, <1>3, <1>5, <1>6, <1>7, AllSearchable, SameCount
     DEF Promise!FilesNext, Promise!TakeIn

\* Every step is one of the promise, or shows nothing.
LEMMA FilesStep ==
  ASSUME JobsInv, JobsInv', [Next]_vars, JobLocksKept'
  PROVE  [Promise!FilesNext]_(Promise!fileVars)
<1>1. TypeOK /\ WorkersBusy /\ OverlapInv /\ SnapshotsTrue /\ LockedInv /\ LockedInv'
  BY KeptBefore DEF JobsInv, OverlapInv
<1>2. ASSUME NEW j \in Jobs, Accept(j) PROVE Promise!FilesNext
  BY <1>1, <1>2, FilesAccept DEF Promise!FilesNext
<1>3. ASSUME NEW j \in Jobs, Retry(j) \/ Publish(j) PROVE UNCHANGED Promise!fileVars
  <2>1. UNCHANGED <<candidates, lostPipelines>>
    BY <1>3 DEF Retry, Publish, Send, Upset
  <2>2. \A k \in Jobs : status'[k] = status[k] \/ {status[k], status'[k]} \subseteq Waits
    BY <1>1, <1>3 DEF Retry, Publish, TypeOK, Waits
  <2> QED
    BY <1>1, <2>1, <2>2, FilesStay
<1>4. ASSUME NEW w \in Workers, NEW j \in Jobs, Receive(w, j)
      PROVE  UNCHANGED Promise!fileVars
  <2>1. UNCHANGED <<candidates, lostPipelines>>
    BY <1>4 DEF Receive, Drop, Claim, FailToClaim, Upset
  <2>2. \A k \in Jobs : status'[k] = status[k] \/ {status[k], status'[k]} \subseteq Waits
    BY <1>1, <1>4 DEF Receive, Drop, Claim, FailToClaim, Claimable, TypeOK, Waits
  <2> QED
    BY <1>1, <2>1, <2>2, FilesStay
<1>5. ASSUME NEW w \in Workers, WorkerStep(w)
      PROVE  Promise!FilesNext \/ UNCHANGED Promise!fileVars
  <2>1. pc[w] # "idle" => task[w] \in Jobs
    BY <1>1 DEF TypeOK, WorkersBusy
  <2>2. CASE HandleReject(w)
    BY <1>1, <2>2, FilesRefuse
  <2>3. CASE Commit(w)
    BY <1>1, <2>3, FilesTakeIn
  <2>4. CASE HandleBusy(w) \/ HandleFailure(w)
    <3>1. UNCHANGED <<candidates, lostPipelines>> /\ pc[w] # "idle"
      BY <2>4 DEF HandleBusy, HandleFailure, Send, Upset
    <3>2. \/ status[task[w]] = "processing"
          \/ status[task[w]] = "indexed" /\ pc[w] = "failing"
      BY <1>1, <3>1 DEF LockedInv, RowsFit
    <3>3. \A k \in Jobs : status'[k] = status[k] \/ {status[k], status'[k]} \subseteq Waits
      BY <1>1, <2>1, <2>4, <3>1, <3>2 DEF HandleBusy, HandleFailure, TypeOK, Waits
    <3> QED
      BY <1>1, <3>1, <3>3, FilesStay
  <2>5. CASE EnterPipeline(w) \/ Reject(w) \/ Fail(w) \/ Extract(w) \/ Upsert(w)
    <3>1. UNCHANGED <<candidates, lostPipelines, status>>
      BY <2>5 DEF EnterPipeline, Reject, Fail, Extract, Upsert
    <3> QED
      BY <1>1, <3>1, FilesStay
  <2>6. ~FindCandidate(w)
    BY <1>1, NeverFound
  <2> QED
    BY <1>5, <2>2, <2>3, <2>4, <2>5, <2>6 DEF WorkerStep
<1>6. ASSUME NEW w \in Workers, Crash(w) \/ LoseJobLock(w)
      PROVE  UNCHANGED Promise!fileVars
  <2>1. UNCHANGED <<candidates, lostPipelines, status>>
    BY <1>6 DEF Crash, LoseJobLock, Upset
  <2> QED
    BY <1>1, <2>1, FilesStay
<1>7. CASE UNCHANGED vars
  BY <1>1, <1>7, FilesStay
<1> QED
  BY <1>2, <1>3, <1>4, <1>5, <1>6, <1>7, FilesLapse DEF Next

\* While no session of a job's lock breaks, ingestion implements CVPromise: a file is
\* taken in whole, with a text no candidate has but for lapses, or refused, once and for
\* all.
THEOREM ImplementsCVPromise == Spec => KeepsCVPromise
<1>1. Init => Promise!FilesInit
  BY DEF Init, Promise!FilesInit
<1>2. JobsInv /\ JobsInv' /\ [Next]_vars
        => [Promise!FilesNext \/ ~JobLocksKept']_(Promise!fileVars)
  BY FilesStep
<1> QED
  BY <1>1, <1>2, Inductive, PTL DEF Spec, KeepsCVPromise

=============================================================================
