--------------------------- MODULE OpsExperiments ---------------------------
(***************************************************************************)
(* Optimization proposals: an administrator proposes an extraction         *)
(* configuration, an experiment compares it with the active one, and only  *)
(* a proposal whose report passed may become active (src/ops/workflow.py,  *)
(* optimization.py, experiments.py, locking.py).                           *)
(*                                                                         *)
(* Every operation on a proposal runs under that proposal's advisory lock, *)
(* taken without waiting; who does not get it gives up.  Experiments run   *)
(* in Celery workers (for a job) or straight from the Streamlit page and   *)
(* the command line (without a job, but under the same lock).              *)
(*                                                                         *)
(* The lock lives in a MySQL session that idles for as long as its holder  *)
(* works.  It may close under a holder that goes on unawares: the proposal *)
(* is then exposed, and what is promised of proposals is promised of those *)
(* that never were.                                                        *)
(***************************************************************************)
EXTENDS Naturals, FiniteSets

CONSTANTS
    Proposals,      \* rows of ops_optimization_configs
    Multipliers,
    MultiplierOf,   \* [Proposals -> Multipliers], settings.retrieval_multiplier
    Default,        \* the DEFAULTS configuration (a pointer that is null)
    DefaultMultiplier,
    Jobs,           \* rows of ops_experiment_jobs
    Admins,         \* calls of the API or of the Streamlit page
    Workers,        \* Celery workers
    Shells,         \* processes that run an experiment without a job
    NoProposal, NoJob, NoOne, NoReport,
    MaxCalls,       \* bound: administrators' calls
    MaxUpsets       \* bound: crashes, failures of the broker, closed sessions

ASSUME OpsAssumption ==
    /\ MultiplierOf \in [Proposals -> Multipliers]
    /\ DefaultMultiplier \in Multipliers
    /\ Default \notin Proposals /\ NoProposal \notin Proposals
    /\ NoJob \notin Jobs
    /\ Admins \cap (Workers \cup Shells) = {} /\ Workers \cap Shells = {}
    /\ NoOne \notin Admins \cup Workers \cup Shells
    /\ MaxCalls \in Nat /\ MaxUpsets \in Nat

Runners == Workers \cup Shells
Reports == [by : Jobs \cup {NoJob}, baseline : Proposals \cup {Default}, passed : BOOLEAN]

ASSUME NoReportIsNone == NoReport \notin Reports

VARIABLES
    approved,       \* proposals whose status is "approved"
    report,         \* report_json of each proposal; .by is history
    pointer,        \* the active configuration
    proposalOf,     \* the proposal of each job, NoProposal before it exists
    status,         \* ExperimentJob.status, "none" before the job exists
    latest,         \* the last job enqueued for each proposal (history)
    publishing,     \* jobs whose dispatch call is still to come
    messages,       \* messages in the broker, per job
    lock,           \* who holds ops:<proposal>
    exposed,        \* proposals that lost a lock under its holder (history)
    call,           \* the call each administrator has under way
    running,        \* the proposal each runner evaluates, NoProposal if idle
    job,            \* the job it does so for, NoJob outside of Celery
    pc,             \* where it is in run_experiment
    base,           \* the active configuration it compares with
    calls, upsets   \* counted against their bounds

configs == <<approved, report, pointer>>
jobs == <<proposalOf, status, latest>>
broker == <<publishing, messages>>
runner == <<running, job, pc, base>>
locks == <<lock, exposed>>
vars == <<configs, jobs, broker, locks, call, runner, calls, upsets>>

Begun == {"enqueue", "approve", "approveDirectly", "rollback", "recover"}
Operations == Begun \cup {"insert", "leave"}
NoCall == [op |-> "none", proposal |-> NoProposal, job |-> NoJob]
Calls == [op : Operations, proposal : Proposals, job : Jobs \cup {NoJob}] \cup {NoCall}
Active == {"queued", "running"}

TypeOK ==
    /\ approved \subseteq Proposals
    /\ report \in [Proposals -> Reports \cup {NoReport}]
    /\ pointer \in Proposals \cup {Default}
    /\ proposalOf \in [Jobs -> Proposals \cup {NoProposal}]
    /\ status \in [Jobs -> {"none", "queued", "running", "completed", "failed"}]
    /\ latest \in [Proposals -> Jobs \cup {NoJob}]
    /\ publishing \subseteq Jobs
    /\ messages \in [Jobs -> Nat]
    /\ lock \in [Proposals -> Admins \cup Runners \cup {NoOne}]
    /\ exposed \subseteq Proposals
    /\ call \in [Admins -> Calls]
    /\ running \in [Runners -> Proposals \cup {NoProposal}]
    /\ job \in [Runners -> Jobs \cup {NoJob}]
    /\ pc \in [Runners -> {"idle", "started", "evaluating", "reported", "failing"}]
    /\ base \in [Runners -> Proposals \cup {Default}]
    /\ calls \in Nat /\ upsets \in Nat

Init ==
    /\ approved = {}
    /\ report = [p \in Proposals |-> NoReport]
    /\ pointer = Default
    /\ proposalOf = [j \in Jobs |-> NoProposal]
    /\ status = [j \in Jobs |-> "none"]
    /\ latest = [p \in Proposals |-> NoJob]
    /\ publishing = {}
    /\ messages = [j \in Jobs |-> 0]
    /\ lock = [p \in Proposals |-> NoOne]
    /\ exposed = {}
    /\ call = [a \in Admins |-> NoCall]
    /\ running = [r \in Runners |-> NoProposal]
    /\ job = [r \in Runners |-> NoJob]
    /\ pc = [r \in Runners |-> "idle"]
    /\ base = [r \in Runners |-> Default]
    /\ calls = 0
    /\ upsets = 0

Upset == upsets < MaxUpsets /\ upsets' = upsets + 1

ActiveMultiplier ==
    IF pointer = Default THEN DefaultMultiplier ELSE MultiplierOf[pointer]
JobsOf(p) == {j \in Jobs : proposalOf[j] = p /\ status[j] \in Active}

-----------------------------------------------------------------------------
(* Administrators' calls: take the lock, one transaction, free the lock.    *)

CountCall == calls < MaxCalls /\ calls' = calls + 1

\* Wrong variant: the call goes on without the lock.
BeginAnyway(a, op, p, j) ==
    /\ call[a] = NoCall
    /\ CountCall
    /\ (op = "recover") <=> (j # NoJob)
    /\ j # NoJob => proposalOf[j] = p
    /\ call' = [call EXCEPT ![a] = [op |-> op, proposal |-> p, job |-> j]]
    /\ UNCHANGED <<configs, jobs, broker, locks, runner, upsets>>

\* Only recover is about a job; it looks the job's proposal up first.
Begin(a, op, p, j) ==
    /\ call[a] = NoCall
    /\ CountCall
    /\ (op = "recover") <=> (j # NoJob)
    /\ j # NoJob => proposalOf[j] = p
    /\ lock[p] = NoOne
    /\ lock' = [lock EXCEPT ![p] = a]
    /\ call' = [call EXCEPT ![a] = [op |-> op, proposal |-> p, job |-> j]]
    /\ UNCHANGED <<configs, jobs, broker, exposed, runner, upsets>>

Target(a) == call[a].proposal

End(a) ==
    /\ lock' = [p \in Proposals |-> IF lock[p] = a THEN NoOne ELSE lock[p]]
    /\ call' = [call EXCEPT ![a] = NoCall]
    /\ UNCHANGED exposed

\* Wrong variant: an approved proposal may be evaluated anew.
MayEnqueueApproved(p) == JobsOf(p) = {} /\ MultiplierOf[p] = ActiveMultiplier

MayEnqueue(p) ==
    /\ p \notin approved
    /\ JobsOf(p) = {}
    /\ MultiplierOf[p] = ActiveMultiplier

\* The checks of enqueue, in sessions of their own.
CheckEnqueue(a) ==
    /\ call[a].op = "enqueue"
    /\ MayEnqueue(Target(a))
    /\ call' = [call EXCEPT ![a].op = "insert"]
    /\ UNCHANGED <<configs, jobs, broker, locks, runner, calls, upsets>>

\* The new job; releasing a lock that is lost raises, so nobody dispatches the job.
Insert(a, j) ==
    /\ call[a].op = "insert"
    /\ status[j] = "none"
    /\ status' = [status EXCEPT ![j] = "queued"]
    /\ proposalOf' = [proposalOf EXCEPT ![j] = Target(a)]
    /\ latest' = [latest EXCEPT ![Target(a)] = j]
    /\ publishing' = IF lock[Target(a)] = a THEN publishing \cup {j} ELSE publishing
    /\ End(a)

\* Wrong variant: the report of the experiment before stays.
EnqueueKeepingReport(a, j) ==
    /\ Insert(a, j)
    /\ UNCHANGED <<configs, messages, runner, calls, upsets>>

Enqueue(a, j) ==
    /\ Insert(a, j)
    /\ report' = [report EXCEPT ![Target(a)] = NoReport]
    /\ UNCHANGED <<approved, pointer, messages, runner, calls, upsets>>

\* activate asks for no job under way; the Streamlit page does not.
MayActivate(a, op) ==
    \/ call[a].op = op /\ JobsOf(Target(a)) = {}
    \/ call[a].op = "approveDirectly" /\ op = "approve"

Convincing(p) ==
    /\ report[p] # NoReport
    /\ report[p].passed /\ report[p].baseline = pointer

Approve(a) ==
    /\ MayActivate(a, "approve")
    /\ Convincing(Target(a))
    /\ approved' = approved \cup {Target(a)}
    /\ pointer' = Target(a)
    /\ End(a)
    /\ UNCHANGED <<report, jobs, broker, runner, calls, upsets>>

Rollback(a) ==
    /\ MayActivate(a, "rollback")
    /\ Target(a) \in approved
    /\ pointer' = Target(a)
    /\ End(a)
    /\ UNCHANGED <<approved, report, jobs, broker, runner, calls, upsets>>

\* Rollback to the defaults holds a lock nobody else takes.
RollbackToDefault ==
    /\ pointer # Default
    /\ CountCall
    /\ pointer' = Default
    /\ UNCHANGED <<approved, report, jobs, broker, locks, call, runner, upsets>>

\* Wrong variant: the error code is written where the status belongs.
RecoverWithCode(a) ==
    /\ call[a].op = "recover"
    /\ status[call[a].job] = "running"
    /\ status' = [status EXCEPT ![call[a].job] = "WORKER_INTERRUPTED"]
    /\ End(a)
    /\ UNCHANGED <<configs, proposalOf, latest, broker, runner, calls, upsets>>

\* The lock was free although the job runs: its worker is gone, or lost the lock.
RecoverInterrupted(a) ==
    /\ call[a].op = "recover"
    /\ status[call[a].job] = "running"
    /\ status' = [status EXCEPT ![call[a].job] = "failed"]
    /\ End(a)
    /\ UNCHANGED <<configs, proposalOf, latest, broker, runner, calls, upsets>>

\* A message goes to the broker, or is lost with the call that sends it.
Send(j) ==
    \/ messages' = [messages EXCEPT ![j] = @ + 1] /\ UNCHANGED upsets
    \/ UNCHANGED messages /\ Upset

\* recover dispatches while it still holds the lock.
RecoverDispatch(a) ==
    /\ call[a].op = "recover"
    /\ status[call[a].job] = "queued"
    /\ Send(call[a].job)
    /\ call' = [call EXCEPT ![a].op = "leave"]
    /\ UNCHANGED <<configs, jobs, publishing, locks, runner, calls>>

\* The call is done, or refused.
Leave(a) ==
    /\ \/ call[a].op = "leave"
       \/ call[a].op = "enqueue" /\ ~MayEnqueue(Target(a))
       \/ /\ call[a].op \in {"approve", "approveDirectly"}
          /\ ~(MayActivate(a, "approve") /\ Convincing(Target(a)))
       \/ /\ call[a].op = "rollback"
          /\ ~(MayActivate(a, "rollback") /\ Target(a) \in approved)
       \/ call[a].op = "recover" /\ status[call[a].job] \notin Active
    /\ End(a)
    /\ UNCHANGED <<configs, jobs, broker, runner, calls, upsets>>

\* enqueue dispatches its job after it freed the lock.
Publish(j) ==
    /\ j \in publishing
    /\ publishing' = publishing \ {j}
    /\ Send(j)
    /\ UNCHANGED <<configs, jobs, locks, call, runner, calls>>

-----------------------------------------------------------------------------
(* execute_job and run_experiment.                                          *)

Start(r, p, j) ==
    /\ lock' = [lock EXCEPT ![p] = r]
    /\ running' = [running EXCEPT ![r] = p]
    /\ job' = [job EXCEPT ![r] = j]
    /\ pc' = [pc EXCEPT ![r] = "started"]
    /\ UNCHANGED <<exposed, base>>

Take(j) == messages[j] > 0 /\ messages' = [messages EXCEPT ![j] = @ - 1]

\* The message is dropped when the job is not queued, when its proposal is locked,
\* or when the database fails before the claim.
Drop(w, j) ==
    /\ pc[w] = "idle"
    /\ Take(j)
    /\ \/ (status[j] # "queued" \/ lock[proposalOf[j]] # NoOne) /\ UNCHANGED upsets
       \/ Upset
    /\ UNCHANGED <<configs, jobs, publishing, locks, call, runner, calls>>

\* The requester may not be an active administrator any more.
Claim(w, j) ==
    /\ pc[w] = "idle"
    /\ Take(j)
    /\ status[j] = "queued" /\ lock[proposalOf[j]] = NoOne
    /\ \/ /\ status' = [status EXCEPT ![j] = "running"]
          /\ Start(w, proposalOf[j], j)
       \/ /\ status' = [status EXCEPT ![j] = "failed"]
          /\ UNCHANGED <<locks, runner>>
    /\ UNCHANGED <<configs, proposalOf, latest, publishing, call, calls, upsets>>

\* run_experiment from the Streamlit page or the command line.
StartDirectly(s, p) ==
    /\ pc[s] = "idle"
    /\ CountCall
    /\ lock[p] = NoOne
    /\ Start(s, p, NoJob)
    /\ UNCHANGED <<configs, jobs, broker, call, upsets>>

\* Wrong variant: retrieval settings are not compared.
MayEvaluateAny(p) == p \notin approved

MayEvaluate(p) == p \notin approved /\ MultiplierOf[p] = ActiveMultiplier

\* One session reads the proposal, the pointer and the baseline.
ReadBaseline(r) ==
    /\ pc[r] = "started"
    /\ IF MayEvaluate(running[r])
       THEN /\ pc' = [pc EXCEPT ![r] = "evaluating"]
            /\ base' = [base EXCEPT ![r] = pointer]
       ELSE /\ pc' = [pc EXCEPT ![r] = "failing"]
            /\ UNCHANGED base
    /\ UNCHANGED <<configs, jobs, broker, locks, call, running, job, calls, upsets>>

WriteReport(r) ==
    /\ pc[r] = "evaluating"
    /\ running[r] \notin approved
    /\ \E passed \in BOOLEAN : report' = [report EXCEPT ![running[r]] =
            [by |-> job[r], baseline |-> base[r], passed |-> passed]]
    /\ pc' = [pc EXCEPT ![r] = "reported"]
    /\ UNCHANGED <<approved, pointer, jobs, broker, locks, call, running, job, base,
                   calls, upsets>>

\* The dataset, a model or the database fails.
FailExperiment(r) ==
    /\ pc[r] \in {"started", "evaluating"}
    /\ pc' = [pc EXCEPT ![r] = "failing"]
    /\ UNCHANGED <<configs, jobs, broker, locks, call, running, job, base, calls, upsets>>

StopRunner(r) ==
    /\ lock' = [p \in Proposals |-> IF lock[p] = r THEN NoOne ELSE lock[p]]
    /\ running' = [running EXCEPT ![r] = NoProposal]
    /\ job' = [job EXCEPT ![r] = NoJob]
    /\ pc' = [pc EXCEPT ![r] = "idle"]
    /\ base' = [base EXCEPT ![r] = Default]
    /\ UNCHANGED exposed

\* Nothing is compared: also a job that recover has failed meanwhile says completed.
Complete(r) ==
    /\ pc[r] \in {"reported", "failing"}
    /\ status' = IF job[r] = NoJob THEN status ELSE
            [status EXCEPT ![job[r]] = IF pc[r] = "reported" THEN "completed" ELSE "failed"]
    /\ StopRunner(r)
    /\ UNCHANGED <<configs, proposalOf, latest, broker, call, calls, upsets>>

\* A runner dies or the database fails its last transaction: its lock goes with
\* its session, the job stays running, its message comes back or does not.
Crash(r) ==
    /\ pc[r] # "idle"
    /\ Upset
    /\ \/ UNCHANGED messages
       \/ job[r] # NoJob /\ messages' = [messages EXCEPT ![job[r]] = @ + 1]
    /\ StopRunner(r)
    /\ UNCHANGED <<configs, jobs, publishing, call, calls>>

\* The session that holds a lock closes; the call or the experiment goes on.
LoseLock(p) ==
    /\ lock[p] # NoOne
    /\ Upset
    /\ lock' = [lock EXCEPT ![p] = NoOne]
    /\ exposed' = exposed \cup {p}
    /\ UNCHANGED <<configs, jobs, broker, call, runner, calls>>

-----------------------------------------------------------------------------

AdminStep(a) ==
    \/ CheckEnqueue(a) \/ \E j \in Jobs : Enqueue(a, j)
    \/ Approve(a) \/ Rollback(a)
    \/ RecoverInterrupted(a) \/ RecoverDispatch(a)
    \/ Leave(a)

RunnerStep(r) == ReadBaseline(r) \/ WriteReport(r) \/ FailExperiment(r) \/ Complete(r)

Receive(w) == \E j \in Jobs : Drop(w, j) \/ Claim(w, j)

Next ==
    \/ \E a \in Admins, op \in Begun, p \in Proposals,
          j \in Jobs \cup {NoJob} : Begin(a, op, p, j)
    \/ \E a \in Admins : AdminStep(a)
    \/ RollbackToDefault
    \/ \E j \in Jobs : Publish(j)
    \/ \E w \in Workers : Receive(w)
    \/ \E s \in Shells, p \in Proposals : StartDirectly(s, p)
    \/ \E r \in Runners : RunnerStep(r) \/ Crash(r)
    \/ \E p \in Proposals : LoseLock(p)

Spec == Init /\ [][Next]_vars

\* Calls and experiments go on, and workers take the messages that wait.
Fairness ==
    /\ \A a \in Admins : WF_vars(AdminStep(a))
    /\ \A j \in Jobs : WF_vars(Publish(j))
    /\ \A w \in Workers : WF_vars(Receive(w))
    /\ \A r \in Runners : WF_vars(RunnerStep(r))

FairSpec == Spec /\ Fairness

-----------------------------------------------------------------------------
(* Properties.                                                             *)

Sheltered == Proposals \ exposed

\* A proposal has at most one experiment waiting or running, however the check and
\* the insert of two enqueue calls, recover, redelivery and crashes interleave.
OneExperiment == \A p \in Sheltered : Cardinality(JobsOf(p)) <= 1

\* Approval never rests on an experiment older than the last one requested: a
\* job's report that is on a proposal is that of the last job.
ReportIsLatest ==
    \A p \in Sheltered : report[p] # NoReport =>
        report[p].by \in {NoJob, latest[p]}

\* A job that says completed left a report to decide on.
CompletedIsReported ==
    \A p \in Sheltered : latest[p] # NoJob =>
        (status[latest[p]] = "completed" => report[p] # NoReport)

\* Nothing changes retrieval, exposed or not: no approval chain leads to another
\* multiplier, as no experiment here measures retrieval.
RetrievalUnchanged ==
    /\ \A p \in approved : MultiplierOf[p] = DefaultMultiplier
    /\ pointer # Default => pointer \in approved

\* The report an approval rested on is never replaced.
ApprovedReportStays ==
    [][\A p \in approved \ exposed : report'[p] = report[p]]_vars

\* A proposal is activated only while nobody evaluates it, and a first approval
\* rests on a comparison with the configuration it replaces.
ActivatedAfterEvaluation ==
    [][pointer' # pointer /\ pointer' \in Sheltered =>
        /\ \A r \in Runners : running[r] # pointer'
        /\ pointer' \notin approved => report[pointer'].baseline = pointer]_vars

\* docs/api/ops-optimization.md: recovering a queued job (that Redis had lost)
\* gets it going.
RecoveredJobRuns ==
    \A j \in Jobs :
        (\E a \in Admins : call[a].op = "leave" /\ call[a].job = j /\ status[j] = "queued")
            ~> status[j] # "queued"

-----------------------------------------------------------------------------
(* Why the properties hold: whoever acts on a sheltered proposal has its   *)
(* lock, so the job under way for it is the last one that was enqueued.    *)

AdminLocks ==
    \A a \in Admins, p \in Sheltered : lock[p] = a <=> call[a].proposal = p

RunnerLocks ==
    \A r \in Runners, p \in Sheltered : lock[p] = r <=> running[r] = p

\* A job has a proposal once it exists; one that is under way is the latest.
JobsFit ==
    /\ \A j \in Jobs : status[j] = "none" <=> proposalOf[j] = NoProposal
    /\ \A j \in Jobs :
        status[j] \in Active /\ proposalOf[j] \notin exposed => latest[proposalOf[j]] = j
    /\ \A p \in Proposals : latest[p] # NoJob => proposalOf[latest[p]] = p

\* recover is about a job of the proposal it has locked.
CallsFit ==
    \A a \in Admins :
        /\ call[a].op = "recover" => call[a].job # NoJob
        /\ call[a].job # NoJob => proposalOf[call[a].job] = call[a].proposal

\* What enqueue checked still holds when it inserts.
ChecksStand ==
    \A a \in Admins : call[a].op = "insert" /\ Target(a) \in Sheltered =>
        JobsOf(Target(a)) = {} /\ Target(a) \notin approved

\* A worker's job is running, for the proposal the worker evaluates.
RunnersFit ==
    \A r \in Runners :
        /\ running[r] = NoProposal <=> pc[r] = "idle"
        /\ job[r] # NoJob => pc[r] # "idle" /\ proposalOf[job[r]] = running[r]
        /\ job[r] # NoJob /\ running[r] \in Sheltered => status[job[r]] = "running"

\* Only proposals that keep the retrieval setting are evaluated.
ReportsMeasured ==
    /\ \A p \in Proposals : report[p] # NoReport => MultiplierOf[p] = DefaultMultiplier
    /\ \A r \in Runners :
        /\ pc[r] \in {"evaluating", "reported"} =>
                MultiplierOf[running[r]] = DefaultMultiplier
        /\ pc[r] = "reported" /\ running[r] \in Sheltered => report[running[r]] # NoReport

OpsInv ==
    /\ TypeOK
    /\ AdminLocks /\ RunnerLocks
    /\ JobsFit /\ CallsFit /\ ChecksStand /\ RunnersFit
    /\ ReportIsLatest /\ CompletedIsReported
    /\ ReportsMeasured /\ RetrievalUnchanged

=============================================================================
