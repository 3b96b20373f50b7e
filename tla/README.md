# CV RAG AI: TLA+ models of its services

CV RAG AI is a recruiting assistant. Administrators and department users upload CVs (or let the
program fetch them from a mailbox), ask questions about the candidates, prepare interviews, and
invite candidates by e-mail. The modules here model the parts of it whose correctness
depends on the order in which several processes touch shared state: the invitation outbox, the
drafts before it and the bulk mails it replaces, CV ingestion and the mailbox, the optimization
experiments, conversations with the agent, interview questions, accounts, departments and openings,
searches, and the Gemini keys. TLC checks them on small instances; the TLA+ proof system proves the
safety properties of every modelled component for every instance.

Paths below are relative to the repository (`src/...` is its Python package).

## 1. The system

| process | what it does |
| --- | --- |
| Next.js front end | tabs in browsers; forwards calls to the API |
| FastAPI | one process (`uvicorn --workers 1`), synchronous end points in threads |
| Streamlit page, scripts | the older interface; calls the same services directly |
| Celery workers | ingestion, invitations, experiments; `acks_late`, prefetch 1 |
| Celery beat | drains the outbox every 30 s, polls the mailbox, refreshes the BM25 index |

They share MySQL (REPEATABLE READ, SQLAlchemy sessions without autoflush), Redis (Celery's broker,
the key index, the intake keys), MinIO (files), Qdrant (vectors), and call Gemini and Gmail.

Named locks (`ingestion/locking.py`) are MySQL advisory locks: `GET_LOCK(name, 0)` on a session of their
own, without waiting, gone when that session is. A session may close under a holder that works for
minutes and never notices: `IngestionJobs`, `OpsExperiments` and `Management` have that as an action,
count how often it happened, and their properties say what it costs.

### Inventory

| component | state | operations | what is hard |
| --- | --- | --- | --- |
| Invitation outbox (`notification/invitations.py`, `delivery_worker.py`) | delivery, batch and guard rows; broker messages | dispatch, retry_delivery, requeue, publish_batch, reconcile_delivery; process_batch, deliver, finish, drain_outbox | redelivered messages, workers that die around the Gmail call, a drain and reconciliations that act on rows read earlier, two approvals for one person |
| Invitation drafts (same file) | batch and draft rows, the set `_generating` | create_batch, save_draft, generate_draft, dispatch | several tabs, a model call outside any transaction, snapshots older than locks, process restarts |
| Ingestion (`ingestion/jobs.py`, `pipeline.py`, `workers/tasks_ingestion.py`) | job, candidate and chunk rows, Qdrant points, advisory locks, messages | accept, retry, publish, process_cv_job, run_ingestion_pipeline | two stores and no common transaction, retries that race with messages, lock sessions that break, attempts that are given back |
| Optimization (`ops/workflow.py`, `optimization.py`, `experiments.py`) | proposals with reports, the pointer, experiment jobs, locks | enqueue, recover, activate, execute_job, run_experiment, approve, rollback | reports that compare with a configuration that is no longer active, jobs whose worker died, messages dropped under a lock |
| E-mail intake (`ingestion/email_intake`) | Redis key per mail, Gmail's unread list, jobs | poll, take, accept or reject each PDF, send, mark | polls overlap and die; one PDF's error ends its mail; a mail is marked whatever happened to it |
| Conversations (`chat/`, `agent/router.py`, `agent/tools`) | conversation and feedback rows, graph checkpoints in SQLite, a lock per conversation whose object comes and goes with its users | create, history, ask, confirm or cancel, feedback, delete | several tabs, a turn that is interrupted for a confirmation and resumed later, deletion in two stores |
| Interview sets (`interview/`, `interfaces/interview_interface.py`) | stored questions and their revision, a lock per candidate and process | generate, delete, read; the page's and the agent's own generate and delete | minutes of model time between check and save; two processes with a lock each; sessions that end meanwhile |
| Accounts (`auth/service.py`, `scripts/manage_users.py`) | user and session rows, failed attempts, lock-out | login, logout, activate, deactivate, reset | changes read rows without a lock and write them at the commit, while a login is under way |
| Management (`management/service.py`) | departments, openings, candidates' assignment | create, assign | no unique key: only an advisory lock keeps names apart |
| Retrieval and ranking (`retrieval/`) | Qdrant points, keyword snapshot; both behind SQL | search, rank, list, details | three stores read one after the other while candidates move |
| Key failover (`llm/key_manager.py`) | index of the current Gemini key in Redis | call_with_key_failover, mark_exhausted | read and write of the index are two commands |
| Legacy bulk sender (`app.py`, `notification/email_sender.py`, `tasks_notification.py`) | the page's session_state, a task's rows, SentEmail rows | draft, confirm, send one, send a batch | mails without a claim; redelivered tasks; records that fail |
| Telemetry, HTTP layer, storage clients, extraction, front ends | | | append-only, parsing or pure I/O; see section 6 |

What makes each correct:

* *outbox*: no mail twice; no second mail to one person unless an administrator agreed; what is recorded
  about Gmail is true; whatever waits is served, whatever is doubtful gets settled;
* *drafts*: no lost update; what is approved is what was on the approver's screen; one request id, one
  batch; a draft is busy exactly while it is generated;
* *ingestion*: one candidate per text (and one more per lost pipeline lock); status and candidate agree;
  what chunk rows list is what Qdrant holds; attempts are counted exactly; a job ends;
* *experiments*: one experiment per proposal; an approval rests on the latest experiment against the
  active configuration; nothing unmeasured is activated;
* *intake*: overlapping polls take a mail once, and each of its PDFs is accounted for;
* *conversations*: a ranking runs once, and only if a tab that showed its criteria confirmed them; a
  deleted conversation stays empty; one turn at a time;
* *interview sets*: a request replaces the set its tab had shown and no other;
* *accounts*: no session outlives a deactivation or its password; guesses are bounded;
* *management*: names are unique; *search*: nobody from another department is shown, or takes the place
  of somebody who should be; *failover*: a call that gives up has tried every key;
* *bulk mails*: every mail has its confirmation, or the redelivery that explains it.

`PROJECT.json` lists, under "hazards", every place where this code can go wrong in a way a test
hardly reaches, with the properties that cover it.

## 2. Modules

| module | models | 
| --- | --- |
| `MailPromise` | what the outbox promises: a small state machine of deliveries that are live, sent and confirmed |
| `InvitationOutbox` | the outbox: API calls, broker, workers, Gmail, drain, crashes; its inductive invariant and the refinement mapping to `MailPromise` |
| `CVPromise` | what ingestion promises: files that wait, are refused, or are taken in whole with a new text |
| `InvitationDrafts` | one batch from create_batch to approval |
| `IngestionJobs` | jobs, messages, locks, the pipeline, Qdrant and the commit; its inductive invariant and the refinement mapping to `CVPromise` |
| `OpsExperiments` | proposals, jobs, experiments, approval |
| `TryLock` | what a lock per key promises: one holder, others are turned away |
| `KeyedLocks` | the process-local locks of conversations and candidates, and the mapping to `TryLock` |
| `Conversations` | EXTENDS `KeyedLocks`: turns, confirmations, feedback, deletion |
| `InterviewSets` | one candidate's questions; takes its locks from `TryLock` (INSTANCE), as `KeyedLocks` implements it |
| `Accounts` | accounts, logins, sessions, changes |
| `EmailIntake` | polls of the mailbox, up to the job that is sent |
| `Management` | creation of names, assignment of candidates |
| `CandidateSearch` | EXTENDS `Management`: ingestion, the keyword snapshot, searches and rankings |
| `KeyFailover` | the shared key index |
| `BulkMail` | the page's mails |
| `InvitationOutboxProofs`, `InvitationDraftsProofs`, `IngestionJobsProofs`, `OpsExperimentsProofs`, `ConversationsProofs`, `RecordsProofs` (`Accounts`, `InterviewSets`, `Management`, `CandidateSearch`), `IntakeProofs` (`EmailIntake`, `KeyFailover`), `ServicesProofs` (`BulkMail`, and the composition of `MCServices`) | theorems about these, with their lemmas |
| `MCServices` | the composition and the instances of the eight services above, from `TryLock` to `BulkMail` |
| `MC...` | instances and symmetry sets for TLC |

Every module keeps one VARIABLE per column or process-local variable the code decides by, one action
per transaction, external call or message, and marks history variables (only properties read them).
Definitions commented "Wrong variant" are plausible mistakes in one operation; no behaviour
uses them. They are there to confirm that each property notices the mistake it is meant to catch:
put in the place of the operation, each breaks its property.

### InvitationOutbox

One action is one transaction, one Gmail call or one broker call. A delivery is named by its draft,
because a draft has at most one (unique constraint); "none" means that the row does not exist.
`Dispatch` and `RetryDelivery` are each one action although the code takes several locks first:
their first statement is a locking read of the batch row, the guard rows of the candidate and the
address are locked before the checks, so their reads are fresh and nobody in conflict runs between.
`ReconcileRead`, `ReconcileSearch`, `ReconcileWrite` and, for a drain, `StartDrain` and `FlagStale`
are separate because the code commits between them. A worker goes through `Claim` (the conditional
update, committed before Gmail is called), one of `Refused`, `Taken`, `Unclear`, and
`RecordOutcome`, which may fail and leave the row "sending". `Crash` kills a worker anywhere; its
message comes back (acks_late) or does not (the parent acknowledges a task whose child died).

Abstractions: the SentEmail row of a delivery changes in the same transactions as the delivery and
is not kept apart; the queue is a set, as two messages of a batch do what one message and the next
drain do; an exception in a drain's own transactions is a crash of its task; attempt counters,
error codes and dispatch_error are read by no guard. `ChangeEmail` is external: nothing under `src/`
updates Candidate.email, but every send checks it. The legacy sender (`BulkMail`) writes
SentEmail rows too, which the code counts as earlier successes once they are committed. This module has no
such rows: what it says about second mails is about the outbox's own.

### InvitationDrafts

One batch, named by one request id; a tab has one request under way. `SaveRead` takes the
transaction's snapshot (`sawApproved`), `SaveCommit` locks the batch, looks at the *snapshot's*
approval as the code does, and updates where the *latest* revision is the expected one.
`generate_draft` calls the model between two transactions, with the draft in `_generating`; `Restart`
empties that set and ends all requests. Candidate data, access rights and the rest of dispatch are in
`InvitationOutbox`.

### IngestionJobs

The stages of a worker are the places where the code commits, calls another store or raises.
`EnterPipeline` takes the pipeline's lock and the session's snapshot (`seen`); `Extract` is the
duplicate check with the deletion of an earlier attempt's points; `Upsert` writes new points under new
ids; `Commit` is the one transaction of candidate, chunk rows and status. A call for the job's lock or a
claim that fails ends the message (`FailToClaim`); one for the pipeline's lock that fails goes to the
failure handler with the attempt charged and no run started, the third branch of `EnterPipeline`; `turns`
(history) counts it with the runs. `EndRun` is what a run that
succeeded does next, where telemetry or the release of the lock may still raise. The three handlers of
process_cv_job are `HandleBusy`, `HandleReject` and `HandleFailure`. Chunk ids are numbered by
versions; a number nothing refers to any more is used again, which keeps the state space finite
(`FreshTypes` proves that there is always one). `Accept` merges validation, storage and the insert.
`LoseJobLock` and `LosePipelineLock` close the session of a lock under its worker, which goes on; when it
releases the lock, that raises.
Publishing the next attempt and leaving the job lock are one step: a message that arrives before the
lock is free would be dropped, which self.retry's countdown excludes.

### OpsExperiments

`Begin` takes a proposal's lock or the call fails (it is not begun); the operation's transaction then
ends the call. enqueue checks in sessions of their own (`CheckEnqueue`) and inserts in another
transaction (`Enqueue`); it dispatches the job after it has released the lock, so not if that raises.
`LoseLock` closes the session of a lock under its holder, a call or an experiment, which goes on, while
others can take the lock; the history variable `exposed` keeps the proposals this happened to. What is
promised is promised of the others (`Sheltered`), but for `RetrievalUnchanged`, which holds of all.
`approveDirectly` is the Streamlit page, which calls `approve` without asking for jobs under way.
`Shells` run experiments without a job (Streamlit, `scripts/run_ops_experiment.py`). `RecoverDispatch`
sends the message while the lock is still held, as the code does. That a job's requester is no
administrator any more is a choice in `Claim`. The measurements of an experiment are a Boolean,
`passed`.

### KeyedLocks and Conversations

`KeyedLocks` is one lock for each conversation (`chat/concurrency.py`) or candidate
(`interview/concurrency.py`): the dictionary, the reference counts and the lock objects, with an
action for each stretch under the guard (`Register`, `Unregister`) and for the try (`Acquire`,
`Refuse`). In `Conversations` every request registers, tries the lock, works and leaves through these
actions. Work under the lock is cut where the code commits, calls the model or writes the other store:
a turn (`StartAsk`, then `Answer`, `AskConfirmation` or `Break`), a resumed one (`StartResume`,
`Rank`), feedback, and a deletion that first commits the tombstone (`StartDelete`) and then clears the
checkpoints (`DeleteCheckpoints` or `CleanupFails`). A tab may read the history at any time, outside
the lock, so what it shows, and names in its answer, may be old. The graph is LangGraph's, modelled by
how router.py uses it: a turn may stop for several confirmations at once, each is resumed by its id, a
task whose attempt failed may use the answer the graph kept. Texts, titles and renaming are left out.
A Streamlit page is a tab like the others: it reaches the same `send_message` and `resume_message` through
`interfaces/query_interface.py:13-34` and `agent/router.py:80-88`, names the confirmation it shows
(`app.py:208-216`), and rates and deletes under the same lock. What the model does not have is a page in a
process of its own *beside* the API: the locks are the process's, and the documentation rules that out
(one writer process, `README.md:23` and `docs/deployment/demo.md:69`).

### InterviewSets

One candidate. A request of the API goes `RequestSet`, `StartModel` (revision and `replace` checked),
`ModelAnswers`, perhaps after a second attempt, `CheckAgain` (the session), `LockRow` (the revision once
more, under FOR UPDATE) and `SaveSet`. The Streamlit page and the agent's tool save without a revision
(`LegacySave`); their INSERT waits for the row lock through the foreign key, their DELETE does not, which
is why a request may find its set emptied. `SignOut` happens at any time.

### Accounts

`login` keeps the row locked from the password check on, so `LoginStart` and `LoginFinish` or
`LoginVictim` bracket it, while a wrong password is one step. A change is `ReadRow` (plain SELECT;
decides which columns will differ and be written), `DeleteSessions` (the DELETE's gap lock stops new
sessions of the user until the commit), `CommitChange` (the UPDATE, which waits for the row) or
`ChangeVictim`. The deadlock of login and change is therefore in the model, with either victim.

### EmailIntake

A poll lists (`StartPoll`), takes or skips mails by their key, and goes through the PDFs of the mail it
has: `RejectPart`, or `AcceptPart` (file and job committed) and `SendJob`. `MailFails` is any exception
between: the mail is over, whatever it still had. `PollDies` is the process. `rehearses` is `--dry-run`,
which sets the production key but leaves no jobs. `LeaveMail` keeps the mail unread, see finding 5. The
intake hashes a PDF's bytes (`FileHash`) and looks for that among the candidates' `content_hash`, where
the pipeline has put the hash of the extracted text (`TextHash`): the two are different values, so a CV
whose candidate exists is accepted and sent again, and the worker rejects it by its text. `Index` is
what stores a candidate's hash: one step here for the worker of `IngestionJobs`, with a message of the
poll or of an administrator's retry. `spoilt` counts the takings of a mail that came to nothing:
rehearsals, failures and deaths.

### Management and CandidateSearch

`TakeName`, `CheckName`, `InsertName`, `EndMaking` are a creation under the advisory lock. `LoseName`
closes the lock's session under a request that goes on: another one may then take the name, and the
first gives nothing back (`Holds`). `CandidateSearch` adds what searches meet: a text that is in Qdrant
before its row exists, or without one for good; the keyword snapshot; administrators who move
candidates. A request reads its scope from SQL, Qdrant with that scope as filter, the snapshot, and for
a ranking the profiles once more. A request only reads, so one at a time is enough. Scores are a choice
of any `Best` subset; a candidate is one chunk.

### KeyFailover

`ChooseKey`, `QuotaError`, `MarkExhausted`, `WriteIndex`: the index is read to use it, read again to move
it, and written. Redis may fail at each. `replays` distinguishes call_with_key_failover from the
agent's router, which moves the index and raises.

### BulkMail

A tab sends the row it shows, a task the rows of its message: `Post` is Gmail, `RecordRow` the SentEmail
row afterwards and the next row. The page ticks rows of its grid (`Selections`), so one candidate may
stand in a batch twice. `WorkerDies` redelivers the message from its first row, or loses it.
A tab that is used while it works is run anew and keeps drafts it has sent.

### MCServices

The services share no variable that their properties depend on, so the instance gives every behaviour
one of them (`lane`): the state space is the sum of theirs. Where they do interact the module of one
contains the other's part: `Index` in the intake, `UpsertText` and `StoreCandidate` in the search.

## 3. Runs

All with CHECK_DEADLOCK FALSE: API callers may stop calling and all bounds may be used up.

| run | instance | shows |
| --- | --- | --- |
| `outbox_safety` | 2 batches with one delivery each to one candidate, 2 workers, 1 call under way, 1 upset | the type invariant, three safety properties, and that the outbox implements `MailPromise` |
| `outbox_liveness` | 2 batches to 2 candidates with an address each, 1 worker, drains of one batch, 1 upset | what is queued is served once retries end, also behind another batch; what is "sending" is settled |
| `outbox_late_drain` | as outbox_safety | *violated*: a late drain or reconciliation makes a failed or queued delivery unknown |
| `drafts_safety` | 2 drafts, 2 tabs, 2 texts, 2 fingerprints, 3 revisions, 1 restart | no lost update, approval of what was reviewed, exact `_generating`, no error on a newer text, convergent create |
| `drafts_frozen` | same | *violated*: a save with an old snapshot changes a draft of an approved batch |
| `ingestion_safety` | 3 jobs with one text, 2 workers, 2 attempts, 1 retry, 1 upset, 1 lost pipeline lock | one candidate per text and one more for the lost lock, chunks = points, exact attempts, a job that stopped can be run again, and ingestion implements `CVPromise` |
| `ingestion_liveness` | 2 jobs, 2 workers, 1 retry, 1 lost job lock, no upset | every pending job ends |
| `ingestion_orphans` | 2 jobs, 1 upset | *violated*: a rejected retry leaves the points of the attempt before |
| `ops_safety` | 3 proposals (1 touches retrieval), 2 jobs, 2 administrators, 1 worker, 1 shell, 5 calls, 1 upset (a crash, a lost message or a lost lock) | of proposals whose lock never broke: one experiment at a time, approvals rest on the latest one and on the active configuration; retrieval is never changed |
| `ops_recover` | 1 proposal, 1 job, no upset | *violated*: a recovered job's message is dropped because recover still holds the lock |
| `services_safety` | eight lanes, below | the services of `MCServices`: twelve invariants, that the locks implement `TryLock`, and that question sets are saved as asked |
| `intake_reread` | the intake lane | *violated*: a mail that was marked is still unread |

Why the bounds are enough. Every hazard of the outbox involves two deliveries at most (the two that
conflict, or one and its own past) and two agents that disagree about a row (two workers, a worker and a
drain, a drain and a call). `MaxUpsets` bounds the crashes, broker failures and changes of people *of a
whole behaviour*; one is what a crash hazard needs, and the theorems cover every number. Two tabs and a
third revision suffice for a stale writer that meets a newer text, and a text that was written twice.
Three jobs with one text and two workers give what one lost pipeline lock can cost, two candidates, and
a third that must be refused all the same; a file with another text meets them only at the locks, and is
in the other two runs; two attempts give a retry and an exhausted job. Two administrators' calls overlap
between enqueue's check and its insert. Five calls let a proposal be enqueued or run, approved, another
one take its place, and one be rolled back to. Two batches that are queued at once and drains of one
batch give `QueuedIsServed` the case that one of them has to wait for the other. Workers, tabs, texts,
jobs with one text and proposals with one multiplier are interchangeable, hence the symmetry sets; the
two batches of the outbox are exchanged together with their deliveries. Runs with temporal properties
under fairness use no symmetry.

What a lost lock costs. Duplicate detection rests on the pipeline's advisory lock alone: if its session
closes under a running worker, two files with one text can both become candidates, which
`DuplicatesBounded` counts: one duplicate more per lost session and no other, and `CVPromise` has a
`Lapse` for each. What the session of a *job's* lock costs is progress and exactness of one job: two
workers may run it, so `ChunksSearchable`, `AttemptsCountRuns`, `StoppedJobCanRun` and `KeepsCVPromise`
speak of behaviours up to there (`JobLocksKept`), and `ingestion_liveness` checks that jobs end even so.
For an experiment it costs the order of reports (section 4), for a name its uniqueness, once per lost
session. These are listed as hazards, not as findings: nothing in the repository claims otherwise.

The lanes of `services_safety`:

| lane | instance |
| --- | --- |
| conversations | 2 tabs, 1 conversation, 2 lock objects, 2 confirmations, 4 requests, 1 restart |
| accounts | an administrator and a user, 2 tokens, 2 clerks, 2 guesses, 1 reset |
| questions | 2 requesters, the API and the page, 3 sets |
| intake | 2 pollers, 2 mails with 2 PDFs between them, lists of one mail, 1 key that lapses |
| management | 2 departments with 1 opening each, 2 makers, 1 lock lost |
| search | the same openings, 3 people, answers of 1 out of 2 asked for |
| keys | 2 calls, 2 keys |
| bulk | 1 tab, 1 task, 2 candidates, batches of 2, 3 rows sent, 1 death |

Two of each kind are what these hazards need: two tabs with an old and a new confirmation, and as many
confirmations as one turn raises; a login and the change that overlaps it, and a second clerk to open
the account again; a tab whose set another one replaced twice; two polls of one mail, and a second
mail that pushes it off the list; two who insert one name. A search needs a third person, so that
others can fill its places. Two lock objects are enough for a new one to appear while the old one is
still referred to. Lanes share their model values, so that exchanging two callers is also exchanging
two clerks, polls or confirmations: one symmetry set serves all lanes. The `CHOOSE` of a new lock
object is over objects nothing refers to.

### Fairness

* *Outbox*: a running worker goes on (weak fairness of its steps). A drain is started again and again
  (strong fairness): beat publishes one every 30 s and the broker is first-in first-out, so it comes up
  whenever workers become free, but a worker may be busy whenever one looks. A drain takes any of the
  queued batches, so `QueuedIsServed` has a premise, `RetriesEnd`: administrators stop putting failed
  deliveries back into the queue. Without it TLC finds a batch that is retried for ever and takes the
  drain's place each time. Ten minutes pass (weak fairness of `Age`). Nothing is assumed about API
  calls, nor about a batch's own message, which may be lost.
* *Ingestion*: the call that accepted a file goes on to publish it; workers go on; a waiting message is
  delivered if workers become idle again and again (strong fairness).
* *Experiments* (`ops_recover`): calls, publishing, runners and receiving go on; even so the property
  fails.
* The services of `MCServices` have no fairness: their promises are about what must not happen, and
  nothing in the code retries a turn, a failed mail or a refused request.

## 4. Findings

1. **A late "unknown"** (`outbox_late_drain`). `drain_outbox` reads the stale deliveries in one
   transaction and calls `finish(id, "unknown")` for each in others; `finish` protects only
   "success". A worker that was slow, not dead, may meanwhile have recorded a clear refusal, and an
   administrator may have retried: the delivery becomes unknown, which
   `docs/api/emails.md:128-129` reserves for sends whose result is not known.
   `reconcile_delivery` has the same gap. Safety is not affected (the theorems include
   these steps): an unknown delivery is never sent again.
2. **A draft that changes after approval** (`drafts_frozen`). `save_draft` opens its snapshot before
   it locks the batch and then decides by the snapshot (`docs/api/emails.md:100`). What was
   approved is copied to the delivery, so nothing else is sent (`ApprovedAsReviewed` holds); the
   batch's page shows another text than the one that went out.
3. **Orphan points** (`ingestion_orphans`). A failed commit leaves points that only a later
   *write* replaces; a retry that is rejected leaves them, against the comment at
   `src/ingestion/pipeline.py:141`.
4. **A recovered job that does not run** (`ops_recover`). `recover` dispatches inside its lock
   (`src/ops/workflow.py:102`); a quick worker drops the message. The job stays queued until
   somebody recovers it again (`docs/api/ops-optimization.md:40`).

5. **Marked mails stay unread** (`intake_reread`). `mark_as_processed` sends `removedLabelIds`
   (`src/ingestion/email_intake/gmail_client.py:145`); Gmail's field is `removeLabelIds`. The mail
   stays unread, against the docstring (:140) and `intake_pipeline.py:45`. Only the Redis key keeps it
   from being processed again; after a week, when the key lapses, it is. Until then processed mails
   fill the 20 places of a poll's list and push new ones off it. `OncePerKey` and `NothingDropped`
   hold all the same.

Smaller observations, which no run is about:

* `key_manager.py:77-80` says that every key is tried before a call fails. Two callers that meet an
  exhausted key both move the index and may jump over a key; `GivesUpInformed` therefore speaks of a
  call that was alone.
* A CV whose candidate exists is accepted from the mailbox again. `intake_pipeline.py:85,141-144` looks
  for the hash of the file's bytes in `Candidate.content_hash`, where `pipeline.py:125,171` has put the
  hash of the text, so the comparison that `validators.py:75` announces ("check trùng file": a check for
  a duplicate file) never matches; `interfaces/ingestion_interface.py:25-40` does the same. The worker
  rejects the job by its text, after it has extracted and classified the file once more
  (`docs/api/administration-ingestion.md:107-108`).
* `drain_outbox` takes 20 of the queued batches without an order (`delivery_worker.py:99`). A batch can
  wait as long as others are put back into the queue; it needs retries without end.
* Advisory locks may be lost while their holder works (`ingestion/locking.py:20-27`). An experiment's
  worker whose lock is gone can be overtaken: recover marks its job failed (`ops/workflow.py:96-99`), a
  new one is enqueued, and the old worker's report lands on the proposal as if it were the new job's
  (`ops/experiments.py:221-226`). Two requests can create one name; two files with one text can become
  candidates.
* `--dry-run` sets the production key of a mail (`intake_pipeline.py:53`), which the next real poll then
  skips. A mail whose processing failed is skipped in the same way until its key lapses.
* The Streamlit page sends a draft to the candidate whose id is in the form when the button is pressed
  (`app.py:424`), who need not be the one it was drafted for.
* The repository's README (:255) says that every outcome is recorded in `sent_emails`; a candidate
  without address leaves no row there, nor does a mail whose insert fails, which `MailsExplained` counts
  as doubtful.
* `rank_candidates_for_jd` searches among everybody whom its scope permits and only then keeps the
  eligible, so a ranking may evaluate fewer than `TopK` although there are more.

## 5. Proofs

Every modelled component has theorems, in the modules named `...Proofs`. What is proved is the type
invariant, every safety and action property the passing runs check, that `InvitationOutbox` implements
`MailPromise`, that `IngestionJobs` implements `CVPromise` until a job's lock is lost, that
`KeyedLocks`, alone and inside `Conversations`, implements `TryLock`, and that the services keep all of
this when they are composed; for any sets of batches, people, tabs, jobs, proposals, workers, callers,
users, departments, mails and any bounds. Six safety properties are theorems only, as they follow
closely from what the runs check: `OneInside`, `SuccessWasMailed`, `SuccessIsFinal`,
`IndexedMeansCandidate`, `FinishedIsFinal` and `CompletedIsReported`. The assumptions are those the
modules state about their constants (constants are of their types, special values are none of the
others, callers, makers of names, people and Celery's workers are finitely many) and
`OneDraftPerCandidate` (a batch has one draft per candidate, which create_batch enforces). Each action
has a lemma or a step of its own; the parts of each inductive invariant were checked with TLC on the
small instances first.

### InvitationOutbox

None of the safety properties is inductive: from a state where a delivery says "failed" and a worker
nevertheless still holds its claim, one step sends it again. The inductive invariant `OutboxInv` says
what a claim is worth. A worker has a claim exactly while it is inside deliver() (`ClaimsInUse`), no two
workers have the same one (`ClaimsUnique`), what a worker inside deliver() knows of Gmail is true
(`ClaimsHonest`), and a delivery that can be claimed now or after a retry has neither claim nor mail
(`IdleUnclaimed`). So a mail is sent under a claim that nobody else has, for a delivery that was not
mailed. `RowsApproved` ties rows, lists a drain has read, and probes to approved batches: `dispatch`
creates rows only once per batch, so it never meets an old claim. `ProbesHonest` says a search of Gmail
found what is there. `SecondMailAgreed` is about the order: it is the *later* of two mails that must
have been agreed to, whatever was said of the earlier one. `RivalsAgreed` carries that from the approval
to the mail: of two rivals in play (`InPlay`) a live one, which is queued or held and not mailed yet
(`Live`), was approved or retried with allow_previous if the other is mailed, and two are never both
live. `MayQueue` preserves it because whatever is in play is queued, sending, unknown or success, and
the check sees all four.

The refinement maps live to the queued and the held deliveries, sent to those Gmail took, again to
the recorded agreement, and confirmed to "success".

### InvitationDrafts

`DraftsInv` is about copies. Between its transactions a request works with what it has read: the
revision it expects, the text its tab shows, the revisions an approver reviewed. Revisions only grow,
and a text changes only together with its revision, so a copy is true of the *latest* text or it is
of an older revision (`CopiesHonest`, `ViewsHonest`). The update and the approval compare
revisions and therefore texts; that is `NoLostUpdate` and `ApprovedAsReviewed`. Neither needs
`sawApproved`: the check that finding 2 defeats is not what they rest on. `RepeatsCurrent` is what
makes `ErrorIsCurrent` inductive when a failed generation is repeated.

### IngestionJobs

The theorems have no premise about locks; the invariant `JobsInv` counts. Types, `WorkersBusy` and
`OverlapInv` hold however many sessions break. No more workers are inside the pipeline than its lock was
lost, and one (`FewOverlap`). A snapshot may age but shows nothing that is not there (`SnapshotsTrue`).
The candidates with a text *and the workers that may still commit one* (`Hopeful`) are together no more
than one and the lost locks (`TextsBounded`): each of them entered when there was no candidate with the
text, so they were all inside at once. That is `DuplicatesBounded`.

The rest holds until a session of a *job's* lock breaks (`JobLocksKept => LockedInv`); afterwards two
workers may be at one row. Until then a worker holds exactly the lock of its job (`JobLocks`); its row
says "processing", or "indexed" if the worker has just done that itself (`RowsFit`). So nobody deletes
points of a job that has a candidate (`PointsWritten`), and a claim is one attempt that becomes a run,
is lost at the pipeline's lock, or is given back (`AttemptsFit`). None of it needs the pipeline's lock.

The refinement (`ImplementsCVPromise`) maps a row in pending, processing, failed or dlq to a file that
waits, however often it was claimed, requeued or retried, a candidate whose listed chunks are all in
Qdrant to one that can be searched, and each lost session of the pipeline's lock to a lapse of the
promise. Four actions are steps of the promise (`Accept`, `HandleReject`, `Commit`, `LosePipelineLock`),
all others are stutters. That a commit is `TakeIn`, which allows as many candidates with one text as
there were lapses, and one, is where `TextsBounded` is needed once more; that the three stores change as
one, where `ChunksSearchable` and `IndexedMeansCandidate` are.

### OpsExperiments

`OpsInv` says of every proposal that was never exposed that whoever acts on it, in a call or with an
experiment, has its lock (`AdminLocks`, `RunnerLocks`), that a job under way is the latest (`JobsFit`),
that what enqueue checked still stands when it inserts (`ChecksStand`), and that a worker's job is
running for the proposal it evaluates (`RunnersFit`). Of all proposals it says that recover deals with a
job of the proposal it was called for (`CallsFit`), and that only proposals which keep the retrieval
setting are measured (`ReportsMeasured`). `approve` and the report are then never about two different
experiments, although approving directly does not ask for jobs under way. The parts about single
proposals do not spread: a lock that breaks exposes its own proposal and no other.

### KeyedLocks and Conversations

That there is one lock per key although lock objects come and go is not a fact about the objects: it
is one about the counter. `LocksInv` says that `users` counts exactly the callers that refer to an
entry (`Counted`), that an entry has an object exactly while it has users, and its own (`EntriesFit`),
that every caller between `Register` and `Unregister` has the object its entry has (`CallersFit`), and
who owns what (`OwnersFit`). So whoever is inside holds the one object everybody else would try. The
refinement maps the holder of a key to the caller inside.

`ChatInv` adds that whoever changes a conversation is inside (`StepsInside`), that what it checked on
entering is still so (`OpenWhileServed`), that the confirmation a ranking runs for still waits and
was heard (`RankingWaits`), and that ids are new when raised, so what waits was never ranked
(`WaitingUnranked`). The last is what makes an answer from an old tab harmless: its id waits no more.

### Accounts

`NoStaleSession` alone does not survive a login: a new session needs its user to be active still.
`LoginsActive` says so, because a change that writes the row waits for the login, and one that does
not wait has nothing to write. `GuessesBounded` rests on `GuessesCounted` and on `ResetsTogether`: a
stale change may clear the failures, but only one that sets a new password does, which starts the
count anew.

### InterviewSets

`SetsInv` follows what a request has checked. It is true of the *tab's* set throughout
(`ReplacementAsked`), of the session because one that is valid after the model was valid before
(`VouchedFor`), and of the stored set only while the row is locked (`RowsLocked`), where the page can
still empty it. The locks (`TasksHold`) do not matter to `SavedAsAsked`: it holds across processes.

### Management and CandidateSearch

A name's copies *and the requests that are about to insert one* (`Inserting`) are no more than one and
the locks it lost (`InsertsCounted`). For that a request that checks a name while another is about to
insert it must be counted: those that work without their lock (`Bereft`) are no more than the locks lost
(`LosersCounted`), and of the others there is one at most. `SearchInv` says that what a request has kept
so far was permitted at some moment of it (`KeptPermitted`) and that Qdrant gave it as many as there
were, up to its limit (`PoolFull`); the union with the keyword hits is no smaller.

### EmailIntake and KeyFailover

`IntakeInv` counts. A mail was taken once for its present key, and once more for each that lapsed
(`KeysCounted`); the key stands while a poll works on the mail, so no other does (`PollsFit`,
`OnePollPerMail`). A PDF that its poll has not reached has fewer jobs than its mail has takes
(`JobsCounted`), so there is room for one more; that is `OncePerKey`. `PartsSettled` is about each
taking of a mail and each of its PDFs: the taking has left a rejected or a sent job, is spoilt, or is
the one a poll works on that has not come past this PDF (`Owes`). `FewStuck` says that committed jobs
without a message that is coming (`Stuck`) are no more than the takings that were spoilt, as a poll has
one in hand at a time. Together they are `NothingDropped`.

A call that is alone meets the keys in a row: there is a first key such that those it has tried are
the next ones after it, wrapping round at the last, and the index is where that stretch ends
(`TriedInARow`). After as many attempts as there are keys the stretch is all of them (lemma
`AllTheWayRound`), whatever their number.

### BulkMail

`MailsExplained` counts: mails against confirmations and redeliveries, success rows against mails. It is
not inductive, because a task that has rows left will send mails that its state must already have paid
for. `MailsCovered` adds them: mails and the *rows still to be mailed* together are no more than what
was confirmed or offered again. It is counted as the cardinality of a set of pairs (`Awaiting`: sender
and position), not as a sum over senders, which would need induction over finite sets: each action adds
pairs to this set, or removes the one pair its sender stands at, and the lemmas say by how many the
cardinality changes. A confirmation adds no more pairs for a candidate than rows were ticked for them; a
redelivery puts back the rows before the one reached, which is what `repeated` is raised by. `RowsFit`
says that a sender stands at one of its rows, and at the first while its message waits. `MailsRecorded`
does the same for the success rows with the set of senders between Gmail and the record (`Recording`).

### The composition

`ServicesAreThemselves`: a step of `MCServices` is one of each service or leaves it alone, so each
behaviour of the composition satisfies the specification of each service that has a lane to itself, and
with it that service's theorems. Management and search share the candidates' rows and are two lanes over
the same variables; `RecordsInv` is kept by both (`SearchManages`: a search step is a step of management
or leaves it alone; and no query runs in the management lane). `ServicesTypeCorrect` and
`ServicesAreSafe` collect the invariants and action properties `services_safety` checks.

### What is only model-checked

Liveness (`QueuedIsServed`, `SendingIsSettled`, `JobSettles`): fairness and ENABLED are out of the
prover's reach. The violated properties of section 4 are, of course, not theorems.

## 6. Not modelled

* Telemetry, monitoring and the dashboard append rows and sum them up; nothing decides by them.
* The HTTP layer parses, authorizes by what `Accounts` models and maps errors; `api/schemas` are
  types.
* Candidates and photos, `department_store.py`: queries and formatting. Its `create_*` functions, and
  `submit_cv_ingestion`, have no caller.
* Parsing, extraction, chunking, embedding, prompts: pure, or calls whose outcomes are choices in
  `IngestionJobs`.
* Storage clients: I/O; the stores they reach are variables of the components.
* Evaluation tools and MCP servers: offline, or read-only.
* Front ends: what they show is a variable of the component where a decision rests on it (`shown`,
  `shownSet`, `grid`); otherwise display.
* Migrations, scripts, deployment: no run-time behaviour of their own, but for `manage_users.py` and
  `poll_gmail_intake.py`, which are in `Accounts` and `EmailIntake`.
* Of modelled components: renaming conversations, proposing an experiment, the extraction cache, the
  file lock of an upload, the texts of mails, questions and answers.

## 7. Plan

Done: all components of section 2 with runs and theorems, the abstract specifications of the outbox,
ingestion and the locks with their refinements, and the composition of the services. What is left, in
this order:

1. Theorems about the abstract specifications themselves, so that what a reader concludes from
   `MailPromise` and `CVPromise` is stated once, there.
2. Compositions: intake with `IngestionJobs` in place of `Index`; the bulk sender with the outbox's
   check of earlier successes, whose gap section 2 names.
3. The upload's file lock, and the extraction cache of experiments.
