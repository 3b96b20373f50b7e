-------------------------- MODULE InvitationOutbox --------------------------
(***************************************************************************)
(* The invitation outbox: administrators approve drafts (dispatch), retry  *)
(* failed deliveries and reconcile doubtful ones from the API; Celery      *)
(* workers claim queued deliveries and call Gmail; a beat task drains the  *)
(* outbox.  One action is one database transaction, one Gmail call or one  *)
(* broker call of src/notification/invitations.py and delivery_worker.py.  *)
(*                                                                         *)
(* A draft has at most one delivery (unique constraint), so a delivery is  *)
(* named by its draft, and "none" is the status of a draft that has no     *)
(* delivery row.  The SentEmail row of a delivery changes in the same      *)
(* transactions and to the same status, so it is not kept apart.  Attempt  *)
(* counters, error codes and dispatch_error are written for display and    *)
(* read by no guard; they are left out.                                    *)
(***************************************************************************)
EXTENDS Naturals, FiniteSets

CONSTANTS
    Deliveries,     \* drafts, and the delivery row each may get
    Batches,        \* invitation batches
    Candidates,
    Recipients,     \* casefolded addresses
    Workers,        \* Celery worker processes
    BatchOf,        \* [Deliveries -> Batches]
    CandidateOf,    \* [Deliveries -> Candidates]
    RecipientOf,    \* [Deliveries -> Recipients], frozen when the draft is made
    MaxUpsets,      \* bound: crashes, database or broker failures, changes of
                    \* an approver's account or a candidate's address in a run
    MaxCalls,       \* bound: API calls past their first transaction at a time
    DrainLimit,     \* batches one drain takes, 20 in the code
    NoDelivery,     \* a worker that handles no delivery
    NoTask,         \* an idle worker
    DrainTask       \* a worker running drain_outbox

ASSUME OutboxAssumption ==
    /\ BatchOf \in [Deliveries -> Batches]
    /\ CandidateOf \in [Deliveries -> Candidates]
    /\ RecipientOf \in [Deliveries -> Recipients]
    /\ NoDelivery \notin Deliveries
    /\ NoTask \notin Batches /\ DrainTask \notin Batches /\ NoTask # DrainTask
    /\ MaxUpsets \in Nat /\ MaxCalls \in Nat
    /\ DrainLimit \in Nat \ {0}

\* create_batch refuses a repeated candidate: one draft per candidate and batch.
ASSUME OneDraftPerCandidate ==
    \A d, e \in Deliveries :
        BatchOf[d] = BatchOf[e] /\ CandidateOf[d] = CandidateOf[e] => d = e

VARIABLES
    approved,       \* batches with an approval_hash
    revoked,        \* approved batches whose approver is no active admin now
    email,          \* the current address of each candidate
    status,         \* InvitationDelivery.status
    aged,           \* sending, and started_at lies more than ten minutes back
    again,          \* allow_previous at the last approval or retry (history)
    mailed,         \* how many times Gmail took the delivery (history)
    publishing,     \* batches whose publish_batch call is still to come
    queue,          \* batches with a process_invitation_batch message waiting
    task,           \* what each worker runs
    stale,          \* per worker: deliveries drain read as stale
    batches,        \* per worker: batches still to list
    todo,           \* per worker: queued deliveries it listed
    current,        \* per worker: the delivery whose claim it committed
    pc,             \* per worker: where it is in deliver()
    probes,         \* reconcile_delivery calls under way: <<delivery, stage>>
    upsets          \* upsets so far

people == <<approved, revoked, email>>
deliveryRows == <<status, aged, again, mailed>>
rows == <<people, deliveryRows>>
api == <<publishing, probes>>
job == <<task, stale, batches>>
attempt == <<todo, current, pc>>
workerVars == <<job, attempt>>
vars == <<rows, api, queue, workerVars, upsets>>

Statuses == {"none", "queued", "sending", "success", "failed", "unknown"}
Unresolved == {"queued", "sending", "unknown"}
Outcomes == {"success", "failed", "unknown"}

TypeOK ==
    /\ approved \subseteq Batches
    /\ revoked \subseteq Batches
    /\ email \in [Candidates -> Recipients]
    /\ status \in [Deliveries -> Statuses]
    /\ aged \in [Deliveries -> BOOLEAN]
    /\ again \in [Deliveries -> BOOLEAN]
    /\ mailed \in [Deliveries -> Nat]
    /\ publishing \subseteq Batches
    /\ queue \subseteq Batches
    /\ task \in [Workers -> Batches \cup {NoTask, DrainTask}]
    /\ stale \in [Workers -> SUBSET Deliveries]
    /\ batches \in [Workers -> SUBSET Batches]
    /\ todo \in [Workers -> SUBSET Deliveries]
    /\ current \in [Workers -> Deliveries \cup {NoDelivery}]
    /\ pc \in [Workers -> {"ready", "calling"} \cup Outcomes]
    /\ probes \subseteq Deliveries \X {"search", "success", "unknown"}
    /\ upsets \in Nat

Init ==
    /\ approved = {}
    /\ revoked = {}
    /\ email \in [Candidates -> Recipients]
    /\ status = [d \in Deliveries |-> "none"]
    /\ aged = [d \in Deliveries |-> FALSE]
    /\ again = [d \in Deliveries |-> FALSE]
    /\ mailed = [d \in Deliveries |-> 0]
    /\ publishing = {}
    /\ queue = {}
    /\ task = [w \in Workers |-> NoTask]
    /\ stale = [w \in Workers |-> {}]
    /\ batches = [w \in Workers |-> {}]
    /\ todo = [w \in Workers |-> {}]
    /\ current = [w \in Workers |-> NoDelivery]
    /\ pc = [w \in Workers |-> "ready"]
    /\ probes = {}
    /\ upsets = 0

-----------------------------------------------------------------------------
(* The API: one transaction under the batch, guard and candidate row locks. *)

Upset == upsets < MaxUpsets /\ upsets' = upsets + 1

CallsLeft == Cardinality(publishing) + Cardinality(probes) < MaxCalls

SameTarget(d, e) ==
    CandidateOf[d] = CandidateOf[e] \/ RecipientOf[d] = RecipientOf[e]

RivalsOf(d) == {e \in Deliveries : e # d /\ SameTarget(d, e)}

\* Wrong variant: earlier successes are not looked up.
MayQueueForgetful(d, allow) ==
    /\ email[CandidateOf[d]] = RecipientOf[d]
    /\ \A e \in RivalsOf(d) : status[e] \notin Unresolved

\* The checks dispatch and retry_delivery share.
MayQueue(d, allow) ==
    /\ email[CandidateOf[d]] = RecipientOf[d]
    /\ \A e \in RivalsOf(d) : status[e] \notin Unresolved
    /\ (\E e \in Deliveries : SameTarget(d, e) /\ status[e] = "success") => allow

Dispatch(b, S, allow) ==
    /\ CallsLeft
    /\ b \notin approved
    /\ S # {}
    /\ \A d \in S : BatchOf[d] = b /\ MayQueue(d, allow)
    /\ \A d, e \in S : RecipientOf[d] = RecipientOf[e] => d = e
    /\ approved' = approved \cup {b}
    /\ status' = [d \in Deliveries |-> IF d \in S THEN "queued" ELSE status[d]]
    /\ again' = [d \in Deliveries |-> IF d \in S THEN allow ELSE again[d]]
    /\ publishing' = publishing \cup {b}
    /\ UNCHANGED <<revoked, email, aged, mailed, probes, queue, workerVars, upsets>>

\* Wrong variant: a doubtful delivery can be retried like a failed one.
RetryUnresolved(d, allow) ==
    /\ CallsLeft
    /\ status[d] \in {"failed", "unknown"}
    /\ MayQueue(d, allow)
    /\ BatchOf[d] \notin revoked
    /\ status' = [status EXCEPT ![d] = "queued"]
    /\ again' = [again EXCEPT ![d] = allow]
    /\ publishing' = publishing \cup {BatchOf[d]}
    /\ UNCHANGED <<people, aged, mailed, probes, queue, workerVars, upsets>>

RetryDelivery(d, allow) ==
    /\ CallsLeft
    /\ status[d] = "failed"
    /\ MayQueue(d, allow)
    /\ BatchOf[d] \notin revoked
    /\ status' = [status EXCEPT ![d] = "queued"]
    /\ again' = [again EXCEPT ![d] = allow]
    /\ publishing' = publishing \cup {BatchOf[d]}
    /\ UNCHANGED <<people, aged, mailed, probes, queue, workerVars, upsets>>

Requeue(b) ==
    /\ CallsLeft
    /\ b \in approved
    /\ publishing' = publishing \cup {b}
    /\ UNCHANGED <<rows, probes, queue, workerVars, upsets>>

\* send_task: the broker takes the message, or the call fails; a failed call
\* may still have left its message in the broker.
PublishBatch(b) ==
    /\ b \in publishing
    /\ publishing' = publishing \ {b}
    /\ \/ queue' = queue \cup {b} /\ UNCHANGED upsets
       \/ queue' \in {queue, queue \cup {b}} /\ Upset
    /\ UNCHANGED <<rows, probes, workerVars>>

-----------------------------------------------------------------------------
(* finish(): the row is locked and overwritten unless that would undo a     *)
(* recorded success.                                                        *)

Finish(d, outcome) ==
    /\ status' = [status EXCEPT ![d] = IF @ = "success" THEN @ ELSE outcome]
    /\ aged' = [aged EXCEPT ![d] = FALSE]
    /\ UNCHANGED <<again, mailed>>

(* reconcile_delivery: read the row, search Gmail, write what was found.    *)

ReconcileRead(d) ==
    /\ CallsLeft
    /\ status[d] = "unknown" \/ (status[d] = "sending" /\ aged[d])
    /\ probes' = probes \cup {<<d, "search">>}
    /\ UNCHANGED <<rows, publishing, queue, workerVars, upsets>>

\* Wrong variant: the search is by person, not by the delivery's reference.
ReconcileSearchByPerson(d) ==
    /\ <<d, "search">> \in probes
    /\ \E found \in BOOLEAN :
        /\ found => \E e \in Deliveries : SameTarget(d, e) /\ mailed[e] > 0
        /\ probes' = (probes \ {<<d, "search">>})
                        \cup {<<d, IF found THEN "success" ELSE "unknown">>}
    /\ UNCHANGED <<rows, publishing, queue, workerVars, upsets>>

\* Gmail finds the message only if it took it; its index may lag behind.
ReconcileSearch(d) ==
    /\ <<d, "search">> \in probes
    /\ \E found \in BOOLEAN :
        /\ found => mailed[d] > 0
        /\ probes' = (probes \ {<<d, "search">>})
                        \cup {<<d, IF found THEN "success" ELSE "unknown">>}
    /\ UNCHANGED <<rows, publishing, queue, workerVars, upsets>>

ReconcileWrite(d, outcome) ==
    /\ outcome \in {"success", "unknown"}
    /\ <<d, outcome>> \in probes
    /\ probes' = probes \ {<<d, outcome>>}
    /\ Finish(d, outcome)
    /\ UNCHANGED <<people, publishing, queue, workerVars, upsets>>

-----------------------------------------------------------------------------
(* Celery workers.                                                          *)

Idle(w) == task[w] = NoTask

\* What process_batch lists before it delivers one row after the other.
QueuedOf(b) == {d \in Deliveries : BatchOf[d] = b /\ status[d] = "queued"}

StartBatch(w, b) ==
    /\ Idle(w)
    /\ b \in queue
    /\ queue' = queue \ {b}
    /\ task' = [task EXCEPT ![w] = b]
    /\ todo' = [todo EXCEPT ![w] = QueuedOf(b)]
    /\ UNCHANGED <<rows, api, stale, batches, current, pc, upsets>>

\* Wrong variant: rows that are doubtful already, not the ones left "sending".
StaleUnknown == {d \in Deliveries : status[d] = "unknown" /\ aged[d]}

Stale == {d \in Deliveries : status[d] = "sending" /\ aged[d]}

\* Wrong variant: the drain takes only batches whose message still waits.
UnqueuedBatches ==
    {BatchOf[d] : d \in {e \in Deliveries : status[e] = "queued"}} \cap queue

QueuedBatches == {BatchOf[d] : d \in {e \in Deliveries : status[e] = "queued"}}

\* drain_outbox reads the stale deliveries and some batches with queued ones,
\* and acts on both lists in later transactions.
StartDrain(w) ==
    /\ Idle(w)
    /\ Stale \cup QueuedBatches # {}
    /\ \E B \in SUBSET QueuedBatches :
        /\ Cardinality(B) <= DrainLimit
        /\ B # QueuedBatches => Cardinality(B) = DrainLimit
        /\ batches' = [batches EXCEPT ![w] = B]
    /\ task' = [task EXCEPT ![w] = DrainTask]
    /\ stale' = [stale EXCEPT ![w] = Stale]
    /\ UNCHANGED <<rows, api, queue, todo, current, pc, upsets>>

FlagStale(w, d) ==
    /\ d \in stale[w]
    /\ stale' = [stale EXCEPT ![w] = @ \ {d}]
    /\ Finish(d, "unknown")
    /\ UNCHANGED <<people, api, queue, task, batches, attempt, upsets>>

\* drain_outbox goes on with process_batch for its next batch.
ListBatch(w, b) ==
    /\ stale[w] = {} /\ todo[w] = {} /\ pc[w] = "ready"
    /\ b \in batches[w]
    /\ batches' = [batches EXCEPT ![w] = @ \ {b}]
    /\ todo' = [todo EXCEPT ![w] = QueuedOf(b)]
    /\ UNCHANGED <<rows, api, queue, task, stale, current, pc, upsets>>

\* Wrong variant: the update does not ask for the status "queued".
ClaimAnyStatus(w, d) ==
    /\ pc[w] = "ready"
    /\ d \in todo[w]
    /\ status' = [status EXCEPT ![d] = "sending"]
    /\ aged' = [aged EXCEPT ![d] = FALSE]
    /\ todo' = [todo EXCEPT ![w] = @ \ {d}]
    /\ current' = [current EXCEPT ![w] = d]
    /\ pc' = [pc EXCEPT ![w] = "calling"]
    /\ UNCHANGED <<people, again, mailed, api, queue, job, upsets>>

\* The conditional update of deliver(), with what the same transaction reads.
Claim(w, d) ==
    /\ pc[w] = "ready"
    /\ d \in todo[w]
    /\ status[d] = "queued"
    /\ status' = [status EXCEPT ![d] = "sending"]
    /\ aged' = [aged EXCEPT ![d] = FALSE]
    /\ todo' = [todo EXCEPT ![w] = @ \ {d}]
    /\ current' = [current EXCEPT ![w] = d]
    /\ pc' = [pc EXCEPT ![w] =
                IF BatchOf[d] \notin revoked /\ email[CandidateOf[d]] = RecipientOf[d]
                THEN "calling" ELSE "failed"]
    /\ UNCHANGED <<people, again, mailed, api, queue, job, upsets>>

\* Somebody else claimed it, or the claim's transaction failed.
SkipDelivery(w, d) ==
    /\ pc[w] = "ready"
    /\ d \in todo[w]
    /\ \/ status[d] # "queued" /\ UNCHANGED upsets
       \/ Upset
    /\ todo' = [todo EXCEPT ![w] = @ \ {d}]
    /\ UNCHANGED <<rows, api, queue, job, current, pc>>

\* The Gmail client cannot be built, or Gmail answers with a clear refusal.
Refused(w) ==
    /\ pc[w] = "calling"
    /\ pc' = [pc EXCEPT ![w] = "failed"]
    /\ UNCHANGED <<rows, api, queue, job, todo, current, upsets>>

\* Gmail takes the message; its answer may be lost on the way back.
Taken(w) ==
    /\ pc[w] = "calling"
    /\ mailed' = [mailed EXCEPT ![current[w]] = @ + 1]
    /\ \E outcome \in {"success", "unknown"} : pc' = [pc EXCEPT ![w] = outcome]
    /\ UNCHANGED <<people, status, aged, again, api, queue, job, todo, current, upsets>>

\* Gmail does not take it, and the worker cannot tell.
Unclear(w) ==
    /\ pc[w] = "calling"
    /\ pc' = [pc EXCEPT ![w] = "unknown"]
    /\ UNCHANGED <<rows, api, queue, job, todo, current, upsets>>

\* Wrong variant: the outcome is recorded while Gmail is still being called.
RecordEarly(w) ==
    /\ pc[w] # "ready"
    /\ Finish(current[w], pc[w])
    /\ pc' = [pc EXCEPT ![w] = "ready"]
    /\ current' = [current EXCEPT ![w] = NoDelivery]
    /\ UNCHANGED <<people, api, queue, job, todo, upsets>>

\* The worker's own finish(); process_batch swallows its database errors.
RecordOutcome(w) ==
    /\ pc[w] \in Outcomes
    /\ \/ Finish(current[w], pc[w]) /\ UNCHANGED upsets
       \/ Upset /\ UNCHANGED deliveryRows
    /\ pc' = [pc EXCEPT ![w] = "ready"]
    /\ current' = [current EXCEPT ![w] = NoDelivery]
    /\ UNCHANGED <<people, api, queue, job, todo>>

EndTask(w) ==
    /\ ~Idle(w)
    /\ stale[w] = {} /\ batches[w] = {} /\ todo[w] = {} /\ pc[w] = "ready"
    /\ task' = [task EXCEPT ![w] = NoTask]
    /\ UNCHANGED <<rows, api, queue, stale, batches, attempt, upsets>>

\* A worker dies.  acks_late: the broker redelivers its batch message, unless
\* the parent process sees its child die and acknowledges it all the same.
Crash(w) ==
    /\ ~Idle(w)
    /\ Upset
    /\ queue' \in {queue, queue \cup ({task[w]} \cap Batches)}
    /\ task' = [task EXCEPT ![w] = NoTask]
    /\ stale' = [stale EXCEPT ![w] = {}]
    /\ batches' = [batches EXCEPT ![w] = {}]
    /\ todo' = [todo EXCEPT ![w] = {}]
    /\ current' = [current EXCEPT ![w] = NoDelivery]
    /\ pc' = [pc EXCEPT ![w] = "ready"]
    /\ UNCHANGED <<rows, api>>

-----------------------------------------------------------------------------
(* The environment: time, account administration, candidate data.          *)

Age(d) ==
    /\ status[d] = "sending" /\ ~aged[d]
    /\ aged' = [aged EXCEPT ![d] = TRUE]
    /\ UNCHANGED <<people, status, again, mailed, api, queue, workerVars, upsets>>

ToggleApprover(b) ==
    /\ b \in approved
    /\ Upset
    /\ revoked' = IF b \in revoked THEN revoked \ {b} ELSE revoked \cup {b}
    /\ UNCHANGED <<approved, email, deliveryRows, api, queue, workerVars>>

ChangeEmail(c, r) ==
    /\ email[c] # r
    /\ Upset
    /\ email' = [email EXCEPT ![c] = r]
    /\ UNCHANGED <<approved, revoked, deliveryRows, api, queue, workerVars>>

-----------------------------------------------------------------------------

ApiStep ==
    \/ \E b \in Batches, S \in SUBSET Deliveries, allow \in BOOLEAN :
            Dispatch(b, S, allow)
    \/ \E d \in Deliveries, allow \in BOOLEAN : RetryDelivery(d, allow)
    \/ \E b \in Batches : Requeue(b)
    \/ \E b \in Batches : PublishBatch(b)
    \/ \E d \in Deliveries : ReconcileRead(d) \/ ReconcileSearch(d)
    \/ \E d \in Deliveries, outcome \in {"success", "unknown"} :
            ReconcileWrite(d, outcome)

\* What a running worker does next.
WorkerStep(w) ==
    \/ \E d \in Deliveries : FlagStale(w, d) \/ Claim(w, d) \/ SkipDelivery(w, d)
    \/ \E b \in Batches : ListBatch(w, b)
    \/ Refused(w) \/ Taken(w) \/ Unclear(w)
    \/ RecordOutcome(w)
    \/ EndTask(w)

Environment ==
    \/ \E d \in Deliveries : Age(d)
    \/ \E b \in Batches : ToggleApprover(b)
    \/ \E c \in Candidates, r \in Recipients : ChangeEmail(c, r)

Next ==
    \/ ApiStep
    \/ \E w \in Workers, b \in Batches : StartBatch(w, b)
    \/ \E w \in Workers : StartDrain(w)
    \/ \E w \in Workers : WorkerStep(w)
    \/ \E w \in Workers : Crash(w)
    \/ Environment

Spec == Init /\ [][Next]_vars

(* A running worker goes on; the broker is first-in first-out, so the drain *)
(* that beat publishes every 30 seconds is eventually run while workers get *)
(* free again and again; ten minutes eventually pass.                       *)
Fairness ==
    /\ \A w \in Workers : WF_vars(WorkerStep(w))
    /\ \A w \in Workers : SF_vars(StartDrain(w))
    /\ \A d \in Deliveries : WF_vars(Age(d))

FairSpec == Spec /\ Fairness

-----------------------------------------------------------------------------
(* Properties.                                                             *)

\* Gmail never takes the same delivery twice, whatever is redelivered, drained,
\* retried or reconciled (the claim of deliver() is committed before the call).
NoDuplicateMail == \A d \in Deliveries : mailed[d] <= 1

\* A delivery an administrator may retry, or that waits for a worker, was never
\* taken by Gmail: no retry can repeat a mail (retry_delivery asks for "failed").
RetryableNeverMailed ==
    \A d \in Deliveries : status[d] \in {"none", "queued", "failed"} => mailed[d] = 0

\* A recorded success is a mail Gmail really took (finish, reconcile_delivery).
SuccessWasMailed ==
    \A d \in Deliveries : status[d] = "success" => mailed[d] > 0

\* When Gmail takes a mail to a candidate or an address it took another mail to
\* before, it is the later mail that was approved or retried with allow_previous;
\* agreement to the earlier one is not enough (the guards of dispatch and
\* retry_delivery, across batches, workers and crashes).
SecondMailAgreed ==
    [][\A d \in Deliveries : \A e \in RivalsOf(d) :
        mailed'[d] > mailed[d] /\ mailed[e] > 0 => again[d]]_vars

\* Once success is recorded no late finish() takes it back.
SuccessIsFinal ==
    [][\A d \in Deliveries : status[d] = "success" => status'[d] = "success"]_vars

\* docs/api/emails.md: "unknown" is for time-outs, interrupted workers and lost
\* results after a send.  A delivery that waits, or whose send Gmail clearly
\* refused, does not become unknown (drain_outbox and reconcile_delivery).
UnknownOnlyAfterClaim ==
    [][\A d \in Deliveries :
        status[d] \in {"queued", "failed"} => status'[d] # "unknown"]_vars

\* Administrators do not retry failed deliveries for ever.
RetriesEnd ==
    <>[][\A d \in Deliveries : status[d] = "failed" => status'[d] # "queued"]_vars

\* Every approved delivery is eventually claimed, also when its message was lost
\* and more batches are queued than one drain takes (the drain of beat).  A drain
\* takes any of them, in no order, so a batch that is retried for ever could keep
\* another one waiting for ever.
QueuedIsServed ==
    RetriesEnd => \A d \in Deliveries : status[d] = "queued" ~> status[d] # "queued"

\* No delivery stays "sending" for ever after its worker died.
SendingIsSettled ==
    \A d \in Deliveries : status[d] = "sending" ~> status[d] # "sending"

-----------------------------------------------------------------------------
(* Why the properties hold: the claim of a worker, committed before Gmail   *)
(* is called, is the only licence to send, and nothing gives it out twice.  *)

Handled(d) == \E w \in Workers : current[w] = d
Held(d) == \E w \in Workers : current[w] = d /\ pc[w] = "calling"

\* A worker has a claim exactly while it is inside deliver().
ClaimsInUse == \A w \in Workers : current[w] = NoDelivery <=> pc[w] = "ready"

\* One worker at most handles a delivery.
ClaimsUnique ==
    \A w, v \in Workers : current[w] = current[v] /\ current[w] # NoDelivery => w = v

\* What a worker inside deliver() knows about Gmail is true.
ClaimsHonest ==
    \A w \in Workers : \A d \in Deliveries : current[w] = d =>
        /\ pc[w] \in {"calling", "failed"} => mailed[d] = 0
        /\ pc[w] = "success" => mailed[d] > 0

\* A delivery that could be claimed now or after a retry has no claim and no mail.
IdleUnclaimed ==
    \A d \in Deliveries :
        status[d] \in {"none", "queued", "failed"} => mailed[d] = 0 /\ ~Handled(d)

\* Only approved batches have delivery rows, or rows somebody has read.
RowsApproved ==
    \A d \in Deliveries :
        \/ status[d] # "none"
        \/ \E w \in Workers : d \in stale[w]
        \/ \E stage \in {"search", "success", "unknown"} : <<d, stage>> \in probes
        => BatchOf[d] \in approved

\* What a search of Gmail found is there.
ProbesHonest == \A d \in Deliveries : <<d, "success">> \in probes => mailed[d] > 0

\* A delivery that Gmail may still take, and one it took or may still take.
Live(d) == status[d] = "queued" \/ Held(d)
InPlay(d) == Live(d) \/ mailed[d] > 0

\* A live delivery has no live rival, and one that was mailed only by agreement
\* to the live one.
RivalsAgreed ==
    \A d \in Deliveries : \A e \in RivalsOf(d) :
        Live(d) => ~Live(e) /\ (mailed[e] > 0 => again[d])

OutboxInv ==
    /\ TypeOK
    /\ ClaimsInUse /\ ClaimsUnique /\ ClaimsHonest
    /\ IdleUnclaimed /\ RowsApproved /\ ProbesHonest
    /\ NoDuplicateMail /\ SuccessWasMailed
    /\ RivalsAgreed

-----------------------------------------------------------------------------
(* The outbox implements MailPromise.                                       *)

RivalPairs == {pair \in Deliveries \X Deliveries : pair[2] \in RivalsOf(pair[1])}

Promise == INSTANCE MailPromise WITH
    Conflicts <- RivalPairs,
    live <- {d \in Deliveries : Live(d)},
    sent <- {d \in Deliveries : mailed[d] > 0},
    again <- {d \in Deliveries : again[d]},
    confirmed <- {d \in Deliveries : status[d] = "success"}

KeepsPromise == Promise!PromiseSpec

=============================================================================
