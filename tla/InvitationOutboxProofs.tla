----------------------- MODULE InvitationOutboxProofs -----------------------
(***************************************************************************)
(* Theorems about the invitation outbox, for every set of deliveries,      *)
(* batches, candidates, addresses and workers and for every bound.         *)
(***************************************************************************)
EXTENDS InvitationOutbox, TLAPS

USE DEF people, deliveryRows, rows, api, job, attempt, workerVars, vars

-----------------------------------------------------------------------------
(* Types.                                                                  *)

\* Initially every variable has its type.
LEMMA TypeInit == ASSUME Init PROVE TypeOK
  BY OutboxAssumption DEF Init, TypeOK, Statuses, Outcomes

\* A transaction of the API keeps the types.
LEMMA TypeApi == ASSUME TypeOK, ApiStep PROVE TypeOK'
<1> USE OutboxAssumption DEF TypeOK, Statuses, Outcomes
<1>1. ASSUME NEW b \in Batches, NEW S \in SUBSET Deliveries, NEW allow \in BOOLEAN,
             Dispatch(b, S, allow)
      PROVE  TypeOK'
  BY <1>1 DEF Dispatch
<1>2. ASSUME NEW d \in Deliveries, NEW allow \in BOOLEAN, RetryDelivery(d, allow)
      PROVE  TypeOK'
  BY <1>2 DEF RetryDelivery
<1>3. ASSUME NEW b \in Batches, Requeue(b)
      PROVE  TypeOK'
  BY <1>3 DEF Requeue
<1>4. ASSUME NEW b \in Batches, PublishBatch(b)
      PROVE  TypeOK'
  BY <1>4 DEF PublishBatch, Upset
<1>5. ASSUME NEW d \in Deliveries, ReconcileRead(d)
      PROVE  TypeOK'
  BY <1>5 DEF ReconcileRead
<1>6. ASSUME NEW d \in Deliveries, ReconcileSearch(d)
      PROVE  TypeOK'
  BY <1>6 DEF ReconcileSearch
<1>7. ASSUME NEW d \in Deliveries, NEW outcome \in {"success", "unknown"},
             ReconcileWrite(d, outcome)
      PROVE  TypeOK'
  BY <1>7 DEF ReconcileWrite, Finish
<1> HIDE DEF TypeOK, Statuses, Outcomes
<1> QED
  BY <1>1, <1>2, <1>3, <1>4, <1>5, <1>6, <1>7 DEF ApiStep

\* A step of a worker keeps the types.
LEMMA TypeWorker ==
  ASSUME TypeOK, NEW w \in Workers, WorkerStep(w) PROVE TypeOK'
<1> USE OutboxAssumption DEF TypeOK, Statuses, Outcomes
<1>1. ASSUME NEW d \in Deliveries, FlagStale(w, d)
      PROVE  TypeOK'
  BY <1>1 DEF FlagStale, Finish
<1>2. ASSUME NEW d \in Deliveries, Claim(w, d)
      PROVE  TypeOK'
  BY <1>2 DEF Claim
<1>3. ASSUME NEW d \in Deliveries, SkipDelivery(w, d)
      PROVE  TypeOK'
  BY <1>3 DEF SkipDelivery, Upset
<1>4. ASSUME NEW b \in Batches, ListBatch(w, b)
      PROVE  TypeOK'
  BY <1>4 DEF ListBatch, QueuedOf
<1>5. CASE Refused(w)
  BY <1>5 DEF Refused
<1>6. CASE Taken(w)
  <2>1. mailed' \in [Deliveries -> Nat]
    <3>1. CASE current[w] \in Deliveries
      BY <1>6, <3>1 DEF Taken
    <3>2. CASE current[w] \notin Deliveries
      <4>1. mailed' = [d \in Deliveries |-> mailed[d]]
        BY <1>6, <3>2, Zenon DEF Taken
      <4> QED
        BY <4>1
    <3> QED
      BY <3>1, <3>2
  <2>2. pc' \in [Workers -> {"ready", "calling"} \cup Outcomes]
    BY <1>6 DEF Taken
  <2> QED
    BY <1>6, <2>1, <2>2 DEF Taken
<1>7. CASE Unclear(w)
  BY <1>7 DEF Unclear
<1>8. CASE RecordOutcome(w)
  <2>1. status' \in [Deliveries -> Statuses] /\ aged' \in [Deliveries -> BOOLEAN]
    <3>1. pc[w] \in Statuses
      BY <1>8 DEF RecordOutcome
    <3>2. ASSUME NEW x, NEW y \in Statuses
          PROVE  [status EXCEPT ![x] = IF @ = "success" THEN @ ELSE y]
                    \in [Deliveries -> Statuses]
      OBVIOUS
    <3>3. ASSUME NEW x PROVE [aged EXCEPT ![x] = FALSE] \in [Deliveries -> BOOLEAN]
      OBVIOUS
    <3> QED
      BY <1>8, <3>1, <3>2, <3>3 DEF RecordOutcome, Finish
  <2> QED
    BY <1>8, <2>1 DEF RecordOutcome, Finish, Upset
<1>9. CASE EndTask(w)
  BY <1>9 DEF EndTask, Idle
<1> QED
  BY <1>1, <1>2, <1>3, <1>4, <1>5, <1>6, <1>7, <1>8, <1>9 DEF WorkerStep

\* Every step keeps the types.
LEMMA TypeStep == ASSUME TypeOK, [Next]_vars PROVE TypeOK'
<1> USE OutboxAssumption DEF TypeOK, Statuses, Outcomes
<1>1. ASSUME NEW w \in Workers, NEW b \in Batches, StartBatch(w, b)
      PROVE  TypeOK'
  BY <1>1 DEF StartBatch, QueuedOf
<1>2. ASSUME NEW w \in Workers, StartDrain(w)
      PROVE  TypeOK'
  <2>1. QueuedBatches \subseteq Batches /\ Stale \subseteq Deliveries
    BY DEF QueuedBatches, Stale
  <2> QED
    BY <1>2, <2>1 DEF StartDrain
<1>3. ASSUME NEW w \in Workers, Crash(w)
      PROVE  TypeOK'
  BY <1>3 DEF Crash, Upset
<1>4. ASSUME Environment
      PROVE  TypeOK'
  <2>1. ASSUME NEW d \in Deliveries, Age(d)
        PROVE  TypeOK'
    BY <2>1 DEF Age
  <2>2. ASSUME NEW b \in Batches, ToggleApprover(b)
        PROVE  TypeOK'
    BY <2>2 DEF ToggleApprover, Upset
  <2>3. ASSUME NEW c \in Candidates, NEW r \in Recipients, ChangeEmail(c, r)
        PROVE  TypeOK'
    BY <2>3 DEF ChangeEmail, Upset
  <2> QED
    BY <1>4, <2>1, <2>2, <2>3 DEF Environment
<1>5. CASE UNCHANGED vars
  BY <1>5
<1> QED
  BY <1>1, <1>2, <1>3, <1>4, <1>5, TypeApi, TypeWorker DEF Next

\* Type correctness: whatever the API, the workers and the environment do.
THEOREM TypeCorrect == Spec => []TypeOK
  BY TypeInit, TypeStep, PTL DEF Spec

-----------------------------------------------------------------------------
(* The inductive invariant.                                                *)

\* An administrator's approval meets no delivery in play but recorded successes.
LEMMA Blocked ==
  ASSUME OutboxInv, NEW d \in Deliveries, NEW allow \in BOOLEAN, MayQueue(d, allow),
         NEW e \in RivalsOf(d), InPlay(e)
  PROVE  allow /\ mailed[e] > 0 /\ ~Live(e)
<1>1. e \in Deliveries /\ SameTarget(d, e) /\ status[e] \notin Unresolved
  BY DEF MayQueue, RivalsOf
<1>2. status[e] = "success"
  <2>1. status[e] \in Statuses
    BY <1>1 DEF OutboxInv, TypeOK
  <2>2. status[e] \notin {"none", "queued", "failed"}
    <3> SUFFICES ASSUME status[e] \in {"none", "queued", "failed"} PROVE FALSE
      OBVIOUS
    <3>1. mailed[e] = 0 /\ ~Handled(e)
      BY <1>1 DEF OutboxInv, IdleUnclaimed
    <3>2. ~Held(e)
      BY <3>1 DEF Held, Handled
    <3> QED
      BY <1>1, <3>1, <3>2 DEF InPlay, Live, Unresolved
  <2> QED
    BY <1>1, <2>1, <2>2 DEF Statuses, Unresolved
<1>3. mailed[e] > 0 /\ mailed[e] \in Nat
  BY <1>1, <1>2 DEF OutboxInv, SuccessWasMailed, TypeOK
<1>4. ~Live(e)
  BY <1>1, <1>2, <1>3 DEF OutboxInv, ClaimsHonest, Live, Held
<1> QED
  BY <1>1, <1>2, <1>3, <1>4 DEF MayQueue

\* What the invariant is about stays the same.
LEMMA InvFrame ==
  ASSUME OutboxInv, TypeOK',
         UNCHANGED <<approved, status, again, mailed, probes, current, pc, stale>>
  PROVE  OutboxInv'
BY DEF OutboxInv, ClaimsInUse, ClaimsUnique, ClaimsHonest, IdleUnclaimed, RowsApproved,
       ProbesHonest, NoDuplicateMail, SuccessWasMailed, RivalsAgreed, Live, Held, Handled

\* Approving a batch: nothing in it was ever delivered, and its rivals agree.
LEMMA InvDispatch ==
  ASSUME OutboxInv, TypeOK', NEW b \in Batches, NEW S \in SUBSET Deliveries,
         NEW allow \in BOOLEAN, Dispatch(b, S, allow)
  PROVE  OutboxInv'
<1>1. \A d \in S : d \in Deliveries /\ BatchOf[d] = b /\ MayQueue(d, allow)
  BY DEF Dispatch
<1>2. \A d \in S : status[d] = "none" /\ mailed[d] = 0 /\ ~Handled(d)
  BY <1>1, Zenon DEF Dispatch, OutboxInv, RowsApproved, IdleUnclaimed
<1>3. UNCHANGED <<mailed, probes, current, pc, stale>>
  BY DEF Dispatch
<1>4. \A d \in Deliveries :
        /\ status'[d] = IF d \in S THEN "queued" ELSE status[d]
        /\ again'[d] = IF d \in S THEN allow ELSE again[d]
  BY DEF Dispatch
<1>5. ClaimsInUse' /\ ClaimsUnique' /\ ClaimsHonest' /\ ProbesHonest' /\ NoDuplicateMail'
  BY <1>3 DEF OutboxInv, ClaimsInUse, ClaimsUnique, ClaimsHonest, ProbesHonest,
              NoDuplicateMail
<1>6. IdleUnclaimed'
  BY <1>2, <1>3, <1>4 DEF OutboxInv, IdleUnclaimed, Handled
<1>7. RowsApproved'
  <2>1. approved' = approved \cup {b}
    BY DEF Dispatch
  <2> QED
    BY <1>1, <1>3, <1>4, <2>1 DEF OutboxInv, RowsApproved
<1>8. SuccessWasMailed'
  BY <1>3, <1>4 DEF OutboxInv, SuccessWasMailed
<1>9. RivalsAgreed'
  <2> SUFFICES ASSUME NEW d \in Deliveries, NEW e \in RivalsOf(d), Live(d)'
               PROVE  ~Live(e)' /\ (mailed'[e] > 0 => again'[d])
    BY DEF RivalsAgreed, RivalsOf, SameTarget
  <2>1. e \in Deliveries /\ d \in RivalsOf(e) /\ SameTarget(d, e) /\ d # e
    BY DEF RivalsOf, SameTarget
  <2>2. ~(d \in S /\ e \in S)
    BY <1>1, <2>1, OneDraftPerCandidate DEF Dispatch, SameTarget
  <2>3. \A x \in Deliveries \ S : Live(x)' => Live(x)
    BY <1>3, <1>4 DEF Live, Held
  <2>4. CASE d \in S
    <3>1. ~Live(e) /\ (mailed[e] > 0 => allow)
      BY <1>1, <2>1, <2>4, Blocked DEF InPlay
    <3> QED
      BY <1>3, <1>4, <2>1, <2>2, <2>3, <2>4, <3>1
  <2>5. CASE e \in S
    <3>1. Live(d)
      BY <2>2, <2>3, <2>5
    <3> QED
      BY <1>1, <2>1, <2>5, <3>1, Blocked DEF InPlay
  <2>6. CASE d \notin S /\ e \notin S
    BY <1>3, <1>4, <2>1, <2>3, <2>6 DEF OutboxInv, RivalsAgreed
  <2> QED
    BY <2>4, <2>5, <2>6
<1> QED
  BY <1>5, <1>6, <1>7, <1>8, <1>9 DEF OutboxInv

\* Retrying a failed delivery.
LEMMA InvRetry ==
  ASSUME OutboxInv, TypeOK', NEW d \in Deliveries, NEW allow \in BOOLEAN,
         RetryDelivery(d, allow)
  PROVE  OutboxInv'
<1>1. status[d] = "failed" /\ mailed[d] = 0 /\ ~Handled(d) /\ MayQueue(d, allow)
  BY DEF RetryDelivery, OutboxInv, IdleUnclaimed
<1>2. UNCHANGED <<approved, mailed, probes, current, pc, stale>>
  BY DEF RetryDelivery
<1>3. \A x \in Deliveries :
        /\ status'[x] = IF x = d THEN "queued" ELSE status[x]
        /\ again'[x] = IF x = d THEN allow ELSE again[x]
  BY DEF RetryDelivery, OutboxInv, TypeOK
<1>4. ClaimsInUse' /\ ClaimsUnique' /\ ClaimsHonest' /\ ProbesHonest' /\ NoDuplicateMail'
  BY <1>2 DEF OutboxInv, ClaimsInUse, ClaimsUnique, ClaimsHonest, ProbesHonest,
              NoDuplicateMail
<1>5. IdleUnclaimed' /\ SuccessWasMailed'
  BY <1>1, <1>2, <1>3 DEF OutboxInv, IdleUnclaimed, SuccessWasMailed, Handled
<1>6. RowsApproved'
  BY <1>1, <1>2, <1>3 DEF OutboxInv, RowsApproved
<1>7. RivalsAgreed'
  <2> SUFFICES ASSUME NEW x \in Deliveries, NEW y \in RivalsOf(x), Live(x)'
               PROVE  ~Live(y)' /\ (mailed'[y] > 0 => again'[x])
    BY DEF RivalsAgreed, RivalsOf, SameTarget
  <2>1. y \in Deliveries /\ x \in RivalsOf(y) /\ x # y
    BY DEF RivalsOf, SameTarget
  <2>2. \A z \in Deliveries \ {d} : Live(z)' => Live(z)
    BY <1>2, <1>3 DEF Live, Held
  <2>3. CASE x = d
    <3>1. ~Live(y) /\ (mailed[y] > 0 => allow)
      BY <1>1, <2>1, <2>3, Blocked DEF InPlay
    <3> QED
      BY <1>2, <1>3, <2>1, <2>2, <2>3, <3>1
  <2>4. CASE y = d
    <3>1. Live(x)
      BY <2>1, <2>2, <2>4
    <3> QED
      BY <1>1, <2>1, <2>4, <3>1, Blocked DEF InPlay
  <2>5. CASE x # d /\ y # d
    BY <1>2, <1>3, <2>1, <2>2, <2>5 DEF OutboxInv, RivalsAgreed
  <2> QED
    BY <2>3, <2>4, <2>5
<1> QED
  BY <1>4, <1>5, <1>6, <1>7 DEF OutboxInv

\* finish() with an outcome that is true, for a delivery somebody has read.
\* The claims it is based on are given up (workers) or were none (API, drain).
LEMMA InvFinish ==
  ASSUME OutboxInv, TypeOK', NEW d \in Deliveries, NEW outcome \in Outcomes,
         Finish(d, outcome),
         status[d] # "none" \/ BatchOf[d] \in approved,
         outcome = "success" => mailed[d] > 0,
         outcome = "failed" => mailed[d] = 0 /\ ~Handled(d)',
         probes' \subseteq probes,
         \A w \in Workers : stale'[w] \subseteq stale[w],
         \A w \in Workers :
            \/ current'[w] = current[w] /\ pc'[w] = pc[w]
            \/ current'[w] = NoDelivery /\ pc'[w] = "ready",
         UNCHANGED approved
  PROVE  OutboxInv'
<1>1. UNCHANGED <<mailed, again>>
  BY DEF Finish
<1>2. \A x \in Deliveries :
        status'[x] = IF x = d /\ status[x] # "success" THEN outcome ELSE status[x]
  BY DEF Finish, OutboxInv, TypeOK
<1>3. ClaimsInUse' /\ ClaimsUnique' /\ ClaimsHonest' /\ ProbesHonest' /\ NoDuplicateMail'
  <2>1. NoDelivery \notin Deliveries
    BY OutboxAssumption
  <2>2. ClaimsInUse' /\ ClaimsUnique'
    BY <2>1 DEF OutboxInv, ClaimsInUse, ClaimsUnique
  <2>3. ClaimsHonest'
    BY <1>1, <2>1 DEF OutboxInv, ClaimsHonest
  <2> QED
    BY <1>1, <2>2, <2>3 DEF OutboxInv, ProbesHonest, NoDuplicateMail
<1>4. \A x \in Deliveries : Handled(x)' => Handled(x)
  BY OutboxAssumption DEF Handled
<1>5. IdleUnclaimed'
  BY <1>1, <1>2, <1>4 DEF OutboxInv, IdleUnclaimed, Outcomes
<1>6. RowsApproved'
  BY <1>2 DEF OutboxInv, RowsApproved
<1>7. SuccessWasMailed'
  BY <1>1, <1>2 DEF OutboxInv, SuccessWasMailed
<1>8. RivalsAgreed'
  <2>1. \A x \in Deliveries : Held(x)' => Held(x)
    BY OutboxAssumption DEF Held
  <2>2. \A x \in Deliveries : Live(x)' => Live(x)
    BY <1>1, <1>2, <2>1 DEF Live, Outcomes
  <2> QED
    BY <1>1, <2>2 DEF OutboxInv, RivalsAgreed, RivalsOf, SameTarget
<1> QED
  BY <1>3, <1>5, <1>6, <1>7, <1>8 DEF OutboxInv

\* reconcile_delivery: reading, searching, writing.
LEMMA InvReconcile ==
  ASSUME OutboxInv, TypeOK', NEW d \in Deliveries,
         \/ ReconcileRead(d)
         \/ ReconcileSearch(d)
         \/ \E outcome \in {"success", "unknown"} : ReconcileWrite(d, outcome)
  PROVE  OutboxInv'
<1>1. CASE ReconcileRead(d) \/ ReconcileSearch(d)
  <2>1. UNCHANGED <<approved, status, again, mailed, current, pc, stale>>
    BY <1>1 DEF ReconcileRead, ReconcileSearch
  <2>2. \A x \in Deliveries : <<x, "success">> \in probes' => mailed[x] > 0
    BY <1>1 DEF ReconcileRead, ReconcileSearch, OutboxInv, ProbesHonest
  <2>3. \A x \in Deliveries, stage \in {"search", "success", "unknown"} :
            <<x, stage>> \in probes' => BatchOf[x] \in approved
    <3>1. BatchOf[d] \in approved
      BY <1>1 DEF ReconcileRead, ReconcileSearch, OutboxInv, RowsApproved
    <3>2. \A x \in Deliveries, stage \in {"search", "success", "unknown"} :
            <<x, stage>> \in probes' => x = d \/ <<x, stage>> \in probes
      BY <1>1 DEF ReconcileRead, ReconcileSearch
    <3> QED
      BY <3>1, <3>2 DEF OutboxInv, RowsApproved
  <2> QED
    BY <2>1, <2>2, <2>3
    DEF OutboxInv, ClaimsInUse, ClaimsUnique, ClaimsHonest, IdleUnclaimed, RowsApproved,
        ProbesHonest, NoDuplicateMail, SuccessWasMailed, RivalsAgreed, Live, Held, Handled
<1>2. ASSUME NEW outcome \in {"success", "unknown"}, ReconcileWrite(d, outcome)
      PROVE  OutboxInv'
  <2>1. <<d, outcome>> \in probes /\ Finish(d, outcome) /\ probes' \subseteq probes
    BY <1>2 DEF ReconcileWrite
  <2>2. BatchOf[d] \in approved /\ (outcome = "success" => mailed[d] > 0)
    BY <2>1 DEF OutboxInv, RowsApproved, ProbesHonest
  <2>3. UNCHANGED <<approved, current, pc, stale>>
    BY <1>2 DEF ReconcileWrite
  <2>4. outcome \in Outcomes /\ outcome # "failed"
    BY DEF Outcomes
  <2> QED
    BY <2>1, <2>2, <2>3, <2>4, InvFinish
<1> QED
  BY <1>1, <1>2

\* The conditional update of deliver().
LEMMA InvClaim ==
  ASSUME OutboxInv, TypeOK', NEW w \in Workers, NEW d \in Deliveries, Claim(w, d)
  PROVE  OutboxInv'
<1>1. status[d] = "queued" /\ mailed[d] = 0 /\ ~Handled(d) /\ BatchOf[d] \in approved
  BY DEF Claim, OutboxInv, IdleUnclaimed, RowsApproved
<1>2. UNCHANGED <<approved, again, mailed, probes, stale>>
  BY DEF Claim
<1>3. \A x \in Deliveries : status'[x] = IF x = d THEN "sending" ELSE status[x]
  BY DEF Claim, OutboxInv, TypeOK
<1>4. \A v \in Workers :
        /\ current'[v] = IF v = w THEN d ELSE current[v]
        /\ v # w => pc'[v] = pc[v]
  BY DEF Claim, OutboxInv, TypeOK
<1>5. pc'[w] \in {"calling", "failed"}
  BY DEF Claim, OutboxInv, TypeOK
<1>6. ClaimsInUse'
  BY <1>4, <1>5, OutboxAssumption DEF OutboxInv, ClaimsInUse
<1>7. ClaimsUnique'
  BY <1>1, <1>4 DEF OutboxInv, ClaimsUnique, Handled
<1>8. ClaimsHonest'
  BY <1>1, <1>2, <1>4, <1>5 DEF OutboxInv, ClaimsHonest
<1>9. IdleUnclaimed' /\ SuccessWasMailed'
  BY <1>2, <1>3, <1>4 DEF OutboxInv, IdleUnclaimed, SuccessWasMailed, Handled
<1>10. RowsApproved' /\ ProbesHonest' /\ NoDuplicateMail'
  BY <1>1, <1>2, <1>3 DEF OutboxInv, RowsApproved, ProbesHonest, NoDuplicateMail
<1>11. RivalsAgreed'
  <2>1. \A x \in Deliveries : Live(x)' => Live(x)
    BY <1>1, <1>2, <1>3, <1>4 DEF Live, Held
  <2> QED
    BY <1>2, <2>1 DEF OutboxInv, RivalsAgreed, RivalsOf, SameTarget
<1> QED
  BY <1>6, <1>7, <1>8, <1>9, <1>10, <1>11 DEF OutboxInv

\* Gmail takes the message of a worker's claim.
LEMMA InvTaken ==
  ASSUME OutboxInv, TypeOK', NEW w \in Workers, Taken(w)
  PROVE  OutboxInv'
<1> DEFINE d == current[w]
<1>1. d \in Deliveries /\ Held(d) /\ Handled(d) /\ mailed[d] = 0
  BY DEF Taken, OutboxInv, TypeOK, ClaimsInUse, ClaimsHonest, Held, Handled
<1>2. UNCHANGED <<approved, status, again, probes, current, stale>>
  BY DEF Taken
<1>3. \A x \in Deliveries : mailed'[x] = IF x = d THEN 1 ELSE mailed[x]
  BY <1>1 DEF Taken, OutboxInv, TypeOK
<1>4. pc'[w] \in {"success", "unknown"} /\ \A v \in Workers \ {w} : pc'[v] = pc[v]
  BY DEF Taken, OutboxInv, TypeOK
<1>5. ClaimsInUse' /\ ClaimsUnique'
  BY <1>1, <1>2, <1>4, OutboxAssumption DEF OutboxInv, ClaimsInUse, ClaimsUnique
<1>6. ClaimsHonest'
  BY <1>1, <1>2, <1>3, <1>4, OutboxAssumption DEF OutboxInv, ClaimsHonest, ClaimsUnique
<1>7. IdleUnclaimed' /\ RowsApproved'
  BY <1>1, <1>2, <1>3 DEF OutboxInv, IdleUnclaimed, RowsApproved, Handled
<1>8. ProbesHonest' /\ NoDuplicateMail' /\ SuccessWasMailed'
  BY <1>2, <1>3 DEF OutboxInv, ProbesHonest, NoDuplicateMail, SuccessWasMailed
<1>9. RivalsAgreed'
  <2> SUFFICES ASSUME NEW x \in Deliveries, NEW y \in RivalsOf(x), Live(x)'
               PROVE  ~Live(y)' /\ (mailed'[y] > 0 => again'[x])
    BY DEF RivalsAgreed, RivalsOf, SameTarget
  <2>1. y \in Deliveries /\ x \in RivalsOf(y)
    BY DEF RivalsOf, SameTarget
  <2>2. \A z \in Deliveries : Live(z)' => Live(z)
    BY <1>1, <1>2, <1>4 DEF Live, Held
  <2>3. Live(d)
    BY <1>1 DEF Live
  <2>4. y # d
    BY <1>1, <2>1, <2>2, <2>3 DEF OutboxInv, RivalsAgreed
  <2> QED
    BY <1>2, <1>3, <2>1, <2>2, <2>4 DEF OutboxInv, RivalsAgreed
<1> QED
  BY <1>5, <1>6, <1>7, <1>8, <1>9 DEF OutboxInv

\* Workers that give up a claim, or learn that Gmail was not reached, and drains
\* that note delivery rows.
LEMMA InvRelease ==
  ASSUME OutboxInv, TypeOK',
         UNCHANGED <<approved, status, again, mailed, probes>>,
         \A v \in Workers : \A d \in stale'[v] : d \in stale[v] \/ status[d] # "none",
         \A v \in Workers :
            \/ current'[v] = current[v] /\ pc'[v] = pc[v]
            \/ current'[v] = NoDelivery /\ pc'[v] = "ready"
            \/ /\ current'[v] = current[v] /\ pc[v] = "calling"
               /\ pc'[v] \in {"failed", "unknown"}
  PROVE  OutboxInv'
<1>1. ClaimsInUse' /\ ClaimsUnique'
  BY OutboxAssumption DEF OutboxInv, ClaimsInUse, ClaimsUnique
<1>2. ClaimsHonest'
  BY OutboxAssumption DEF OutboxInv, ClaimsHonest
<1>3. \A d \in Deliveries : (Handled(d)' => Handled(d)) /\ (Held(d)' => Held(d))
  BY OutboxAssumption DEF Handled, Held
<1>4. IdleUnclaimed' /\ RowsApproved'
  BY <1>3 DEF OutboxInv, IdleUnclaimed, RowsApproved
<1>5. ProbesHonest' /\ NoDuplicateMail' /\ SuccessWasMailed'
  BY DEF OutboxInv, ProbesHonest, NoDuplicateMail, SuccessWasMailed
<1>6. RivalsAgreed'
  BY <1>3 DEF OutboxInv, RivalsAgreed, RivalsOf, SameTarget, Live
<1> QED
  BY <1>1, <1>2, <1>4, <1>5, <1>6 DEF OutboxInv

\* Whatever a running worker does.
LEMMA InvWorker ==
  ASSUME OutboxInv, TypeOK', NEW w \in Workers, WorkerStep(w)
  PROVE  OutboxInv'
<1>1. ASSUME NEW d \in Deliveries, FlagStale(w, d)
      PROVE  OutboxInv'
  <2>1. d \in stale[w] /\ BatchOf[d] \in approved /\ Finish(d, "unknown")
    BY <1>1 DEF FlagStale, OutboxInv, RowsApproved
  <2>2. UNCHANGED <<approved, current, pc, probes>>
    BY <1>1 DEF FlagStale
  <2>3. \A v \in Workers : stale'[v] \subseteq stale[v]
    BY <1>1 DEF FlagStale, OutboxInv, TypeOK
  <2> QED
    BY <2>1, <2>2, <2>3, InvFinish DEF Outcomes
<1>2. ASSUME NEW d \in Deliveries, Claim(w, d)
      PROVE  OutboxInv'
  BY <1>2, InvClaim
<1>3. ASSUME NEW d \in Deliveries, SkipDelivery(w, d)
      PROVE  OutboxInv'
  BY <1>3, InvFrame DEF SkipDelivery
<1>4. ASSUME NEW b \in Batches, ListBatch(w, b)
      PROVE  OutboxInv'
  BY <1>4, InvFrame DEF ListBatch
<1>5. CASE Refused(w) \/ Unclear(w)
  <2>1. UNCHANGED <<approved, status, again, mailed, probes, stale, current>>
    BY <1>5 DEF Refused, Unclear
  <2>2. \A v \in Workers : pc'[v] = pc[v] \/ (pc[v] = "calling" /\ pc'[v] \in {"failed", "unknown"})
    BY <1>5 DEF Refused, Unclear, OutboxInv, TypeOK
  <2> QED
    BY <2>1, <2>2, InvRelease
<1>6. CASE Taken(w)
  BY <1>6, InvTaken
<1>7. CASE RecordOutcome(w)
  <2>1. UNCHANGED <<approved, probes, stale>>
    BY <1>7 DEF RecordOutcome
  <2>2. \A v \in Workers :
            \/ v # w /\ current'[v] = current[v] /\ pc'[v] = pc[v]
            \/ v = w /\ current'[v] = NoDelivery /\ pc'[v] = "ready"
    BY <1>7 DEF RecordOutcome, OutboxInv, TypeOK
  <2>3. CASE UNCHANGED deliveryRows
    BY <2>1, <2>2, <2>3, InvRelease
  <2>4. CASE Finish(current[w], pc[w])
    <3>1. current[w] \in Deliveries /\ pc[w] \in Outcomes
      BY <1>7 DEF RecordOutcome, OutboxInv, TypeOK, ClaimsInUse, Outcomes
    <3>2. PICK d \in Deliveries : d = current[w]
      BY <3>1
    <3>3. status[d] # "none"
      BY <3>2 DEF OutboxInv, IdleUnclaimed, Handled
    <3>4. /\ pc[w] = "success" => mailed[d] > 0
          /\ pc[w] = "failed" => mailed[d] = 0
      BY <3>2 DEF OutboxInv, ClaimsHonest
    <3>5. ~Handled(d)'
      BY <2>2, <3>2, OutboxAssumption DEF Handled, OutboxInv, ClaimsUnique
    <3>6. Finish(d, pc[w])
      BY <2>4, <3>2
    <3>7. probes' \subseteq probes /\ \A v \in Workers : stale'[v] \subseteq stale[v]
      BY <2>1
    <3> QED
      BY <2>1, <2>2, <3>1, <3>3, <3>4, <3>5, <3>6, <3>7, InvFinish
  <2> QED
    BY <1>7, <2>3, <2>4 DEF RecordOutcome
<1>8. CASE EndTask(w)
  BY <1>8, InvFrame DEF EndTask
<1> QED
  BY <1>1, <1>2, <1>3, <1>4, <1>5, <1>6, <1>7, <1>8 DEF WorkerStep

\* Every step keeps the inductive invariant.
LEMMA InvStep == ASSUME OutboxInv, [Next]_vars PROVE OutboxInv'
<1>1. TypeOK'
  BY TypeStep DEF OutboxInv
<1>2. CASE ApiStep
  <2>1. ASSUME NEW b \in Batches, Requeue(b) \/ PublishBatch(b)
        PROVE  OutboxInv'
    BY <1>1, <2>1, InvFrame DEF Requeue, PublishBatch
  <2> QED
    BY <1>1, <1>2, <2>1, InvDispatch, InvRetry, InvReconcile DEF ApiStep
<1>3. ASSUME NEW w \in Workers, NEW b \in Batches, StartBatch(w, b)
      PROVE  OutboxInv'
  BY <1>1, <1>3, InvFrame DEF StartBatch
<1>4. ASSUME NEW w \in Workers, StartDrain(w)
      PROVE  OutboxInv'
  <2>1. UNCHANGED <<approved, status, again, mailed, probes, current, pc>>
    BY <1>4 DEF StartDrain
  <2>2. \A v \in Workers : \A d \in stale'[v] : d \in stale[v] \/ status[d] # "none"
    BY <1>4 DEF StartDrain, Stale, OutboxInv, TypeOK
  <2> QED
    BY <1>1, <2>1, <2>2, InvRelease
<1>5. ASSUME NEW w \in Workers, WorkerStep(w)
      PROVE  OutboxInv'
  BY <1>1, <1>5, InvWorker
<1>6. ASSUME NEW w \in Workers, Crash(w)
      PROVE  OutboxInv'
  <2>1. UNCHANGED <<approved, status, again, mailed, probes>>
    BY <1>6 DEF Crash
  <2>2. \A v \in Workers : stale'[v] \subseteq stale[v]
    BY <1>6 DEF Crash, OutboxInv, TypeOK
  <2>3. \A v \in Workers :
            \/ current'[v] = current[v] /\ pc'[v] = pc[v]
            \/ current'[v] = NoDelivery /\ pc'[v] = "ready"
    BY <1>6 DEF Crash, OutboxInv, TypeOK
  <2> QED
    BY <1>1, <2>1, <2>2, <2>3, InvRelease
<1>7. CASE Environment
  <2>1. UNCHANGED <<approved, status, again, mailed, probes, current, pc, stale>>
    BY <1>7 DEF Environment, Age, ToggleApprover, ChangeEmail
  <2> QED
    BY <1>1, <2>1, InvFrame
<1>8. CASE UNCHANGED vars
  BY <1>1, <1>8, InvFrame
<1> QED
  BY <1>2, <1>3, <1>4, <1>5, <1>6, <1>7, <1>8 DEF Next

\* The inductive invariant holds in every reachable state.
THEOREM Inductive == Spec => []OutboxInv
<1>1. ASSUME Init PROVE OutboxInv
  <2>1. TypeOK
    BY <1>1, TypeInit
  <2>2. \A d \in Deliveries : mailed[d] = 0 /\ ~Handled(d) /\ ~Held(d) /\ status[d] = "none"
    BY <1>1, OutboxAssumption DEF Init, Handled, Held
  <2>3. ClaimsInUse /\ ClaimsUnique /\ ClaimsHonest
    BY <1>1, OutboxAssumption DEF Init, ClaimsInUse, ClaimsUnique, ClaimsHonest
  <2>4. IdleUnclaimed /\ RowsApproved /\ ProbesHonest /\ NoDuplicateMail /\ SuccessWasMailed
    BY <1>1, <2>2 DEF Init, IdleUnclaimed, RowsApproved, ProbesHonest, NoDuplicateMail,
                      SuccessWasMailed
  <2>5. RivalsAgreed
    BY <2>2 DEF RivalsAgreed, Live, RivalsOf
  <2> QED
    BY <2>1, <2>3, <2>4, <2>5 DEF OutboxInv
<1> QED
  BY <1>1, InvStep, PTL DEF Spec

-----------------------------------------------------------------------------
(* What follows.                                                           *)

\* No delivery is taken by Gmail twice.
THEOREM NeverMailedTwice == Spec => []NoDuplicateMail
<1>1. OutboxInv => NoDuplicateMail
  BY DEF OutboxInv
<1> QED
  BY <1>1, Inductive, PTL

\* What may be sent (again) was never sent.
THEOREM RetryIsSafe == Spec => []RetryableNeverMailed
<1>1. OutboxInv => RetryableNeverMailed
  BY DEF OutboxInv, IdleUnclaimed, RetryableNeverMailed
<1> QED
  BY <1>1, Inductive, PTL

\* Success is recorded only for mail that Gmail took.
THEOREM SuccessIsTrue == Spec => []SuccessWasMailed
<1>1. OutboxInv => SuccessWasMailed
  BY DEF OutboxInv
<1> QED
  BY <1>1, Inductive, PTL

\* Only Gmail's taking a message changes what was mailed, and it is the message of
\* a live delivery: RivalsAgreed speaks of it and of every rival mailed before.
THEOREM NoUnagreedSecondMail == Spec => SecondMailAgreed
<1>1. ASSUME OutboxInv, [Next]_vars, NEW d \in Deliveries, NEW e \in RivalsOf(d),
             mailed'[d] > mailed[d], mailed[e] > 0
      PROVE  again[d]
  <2>1. mailed[d] \in Nat
    BY <1>1 DEF OutboxInv, TypeOK
  <2>2. ASSUME UNCHANGED mailed
        PROVE  FALSE
    BY <1>1, <2>1, <2>2
  <2>3. ASSUME NEW w \in Workers, Taken(w)
        PROVE  again[d]
    <3>1. current[w] = d
      BY <1>1, <2>1, <2>3 DEF Taken, OutboxInv, TypeOK
    <3>2. Live(d)
      BY <2>3, <3>1 DEF Taken, Live, Held
    <3> QED
      BY <1>1, <3>2 DEF OutboxInv, RivalsAgreed
  <2>4. ApiStep => UNCHANGED mailed
    BY DEF ApiStep, Dispatch, RetryDelivery, Requeue, PublishBatch, ReconcileRead,
           ReconcileSearch, ReconcileWrite, Finish
  <2>5. ASSUME NEW w \in Workers, WorkerStep(w)
        PROVE  UNCHANGED mailed \/ Taken(w)
    BY <2>5 DEF WorkerStep, FlagStale, Claim, SkipDelivery, ListBatch, Refused, Unclear,
                RecordOutcome, EndTask, Finish
  <2> QED
    BY <1>1, <2>2, <2>3, <2>4, <2>5
    DEF Next, StartBatch, StartDrain, Crash, Environment, Age, ToggleApprover, ChangeEmail
<1>2. OutboxInv /\ [Next]_vars
        => [\A d \in Deliveries : \A e \in RivalsOf(d) :
              mailed'[d] > mailed[d] /\ mailed[e] > 0 => again[d]]_vars
  BY <1>1
<1> QED
  BY <1>2, Inductive, PTL DEF Spec, SecondMailAgreed

\* finish() never overwrites a success, and nothing else may touch one.
THEOREM SuccessStays == Spec => SuccessIsFinal
<1>1. ASSUME OutboxInv, [Next]_vars, NEW d \in Deliveries, status[d] = "success"
      PROVE  status'[d] = "success"
  <2>1. mailed[d] > 0 /\ d \in Deliveries
    BY <1>1 DEF OutboxInv, SuccessWasMailed
  <2>2. CASE ApiStep
    <3>1. ASSUME NEW b \in Batches, NEW S \in SUBSET Deliveries, NEW allow \in BOOLEAN,
                 Dispatch(b, S, allow)
          PROVE  status'[d] = "success"
      <4>1. d \notin S
        BY <1>1, <3>1 DEF Dispatch, OutboxInv, RowsApproved
      <4> QED
        BY <1>1, <3>1, <4>1 DEF Dispatch
    <3>2. ASSUME NEW e \in Deliveries, NEW outcome \in {"success", "unknown"},
                 ReconcileWrite(e, outcome)
          PROVE  status'[d] = "success"
      BY <1>1, <3>2 DEF ReconcileWrite, Finish, OutboxInv, TypeOK
    <3>3. ASSUME NEW e \in Deliveries, NEW allow \in BOOLEAN, RetryDelivery(e, allow)
          PROVE  status'[d] = "success"
      BY <1>1, <3>3 DEF RetryDelivery, OutboxInv, TypeOK
    <3> QED
      BY <1>1, <2>2, <3>1, <3>2, <3>3
      DEF ApiStep, Requeue, PublishBatch, ReconcileRead, ReconcileSearch
  <2>3. ASSUME NEW w \in Workers, WorkerStep(w)
        PROVE  status'[d] = "success"
    <3>1. ASSUME NEW e \in Deliveries, FlagStale(w, e)
          PROVE  status'[d] = "success"
      BY <1>1, <3>1 DEF FlagStale, Finish, OutboxInv, TypeOK
    <3>2. ASSUME NEW e \in Deliveries, Claim(w, e)
          PROVE  status'[d] = "success"
      BY <1>1, <3>2 DEF Claim, OutboxInv, TypeOK
    <3>3. ASSUME RecordOutcome(w)
          PROVE  status'[d] = "success"
      BY <1>1, <3>3 DEF RecordOutcome, Finish, OutboxInv, TypeOK
    <3> QED
      BY <1>1, <2>3, <3>1, <3>2, <3>3
      DEF WorkerStep, SkipDelivery, ListBatch, Refused, Taken, Unclear, EndTask
  <2> QED
    BY <1>1, <2>2, <2>3
    DEF Next, StartBatch, StartDrain, Crash, Environment, Age, ToggleApprover, ChangeEmail
<1>2. OutboxInv /\ [Next]_vars
        => [\A d \in Deliveries : status[d] = "success" => status'[d] = "success"]_vars
  BY <1>1
<1> QED
  BY <1>2, Inductive, PTL DEF Spec, SuccessIsFinal

-----------------------------------------------------------------------------
(* The outbox implements MailPromise.                                      *)

USE DEF Promise!promiseVars, Live

\* Steps that neither give mail out nor take it back do not show.
LEMMA PromiseStutter ==
  ASSUME UNCHANGED <<status, mailed, again, current, pc>>
  PROVE  UNCHANGED Promise!promiseVars
BY DEF Held

\* Approving deliveries that were idle approves them in MailPromise.
LEMMA PromiseApprove ==
  ASSUME OutboxInv, NEW S \in SUBSET Deliveries, NEW allow \in BOOLEAN, S # {},
         \A d \in S : status[d] \in {"none", "failed"} /\ MayQueue(d, allow),
         \A d \in S : RivalsOf(d) \cap S = {},
         \A x \in Deliveries :
            /\ status'[x] = IF x \in S THEN "queued" ELSE status[x]
            /\ again'[x] = IF x \in S THEN allow ELSE again[x],
         UNCHANGED <<mailed, current, pc>>
  PROVE  Promise!Approve(S, allow)
<1>1. \A d \in S : mailed[d] = 0 /\ ~Held(d) /\ status[d] # "queued"
  BY DEF OutboxInv, IdleUnclaimed, Held, Handled
<1>2. \A d \in S : \A e \in RivalsOf(d) : ~Live(e) /\ (mailed[e] > 0 => allow)
  BY Blocked DEF InPlay
<1>3. Promise!Rivals(S) = {e \in Deliveries : \E d \in S : e \in RivalsOf(d)}
  BY DEF Promise!Rivals, RivalPairs
<1>4. \A x \in Deliveries : Held(x)' <=> Held(x)
  BY DEF Held
<1>5. S \cap ({d \in Deliveries : status[d] = "queued" \/ Held(d)}
                \cup {d \in Deliveries : mailed[d] > 0}) = {}
  BY <1>1
<1>6. Promise!Rivals(S)
        \cap (S \cup {d \in Deliveries : status[d] = "queued" \/ Held(d)}) = {}
  BY <1>2, <1>3
<1>7. Promise!Rivals(S) \cap {d \in Deliveries : mailed[d] > 0} # {} => allow
  BY <1>2, <1>3
<1>8. {d \in Deliveries : status[d] = "queued" \/ Held(d)}'
        = {d \in Deliveries : status[d] = "queued" \/ Held(d)} \cup S
  BY <1>4
<1>9. {d \in Deliveries : again[d]}'
         = IF allow THEN {d \in Deliveries : again[d]} \cup S
                    ELSE {d \in Deliveries : again[d]} \ S
  OBVIOUS
<1>10. {d \in Deliveries : status[d] = "success"}' = {d \in Deliveries : status[d] = "success"}
  <2>1. \A d \in S : status[d] # "success"
    OBVIOUS
  <2> QED
    BY <2>1
<1> QED
  BY <1>5, <1>6, <1>7, <1>8, <1>9, <1>10 DEF Promise!Approve

\* Recording an outcome confirms, gives up, or does not show.
LEMMA PromiseFinish ==
  ASSUME OutboxInv, NEW d \in Deliveries, NEW outcome \in Outcomes,
         Finish(d, outcome), outcome = "success" => mailed[d] > 0,
         \A x \in Deliveries : Held(x)' <=> Held(x)
  PROVE  [Promise!PromiseNext]_(Promise!promiseVars)
<1>1. UNCHANGED <<mailed, again>>
  BY DEF Finish
<1>2. \A x \in Deliveries :
        status'[x] = IF x = d /\ status[x] # "success" THEN outcome ELSE status[x]
  BY DEF Finish, OutboxInv, TypeOK
<1>3. CASE outcome = "success"
  <2>1. status[d] # "queued"
    BY <1>3 DEF OutboxInv, IdleUnclaimed
  <2>2. Promise!Confirm(d)
    BY <1>1, <1>2, <1>3, <2>1 DEF Promise!Confirm
  <2> QED
    BY <2>2 DEF Promise!PromiseNext
<1>4. CASE outcome # "success" /\ status[d] = "queued"
  <2>1. ~Held(d)
    BY <1>4 DEF OutboxInv, IdleUnclaimed, Held, Handled
  <2>2. outcome # "queued"
    BY DEF Outcomes
  <2>3. Promise!GiveUp(d)
    BY <1>1, <1>2, <1>4, <2>1, <2>2 DEF Promise!GiveUp
  <2> QED
    BY <2>3 DEF Promise!PromiseNext
<1>5. CASE outcome # "success" /\ status[d] # "queued"
  <2>1. outcome # "queued"
    BY DEF Outcomes
  <2>2. \A x \in Deliveries : /\ status'[x] = "queued" <=> status[x] = "queued"
                              /\ status'[x] = "success" <=> status[x] = "success"
    BY <1>2, <1>5, <2>1
  <2> QED
    BY <1>1, <2>2
<1> QED
  BY <1>3, <1>4, <1>5

\* A worker that stops calling Gmail without mail gives its delivery up.
LEMMA PromiseRelease ==
  ASSUME OutboxInv, NEW w \in Workers, UNCHANGED <<status, mailed, again>>,
         ~(pc'[w] = "calling"),
         \A v \in Workers \ {w} : pc'[v] = pc[v] /\ current'[v] = current[v]
  PROVE  [Promise!PromiseNext]_(Promise!promiseVars)
<1>1. CASE pc[w] = "calling"
  <2>1. PICK d \in Deliveries : d = current[w]
    BY <1>1 DEF OutboxInv, ClaimsInUse, TypeOK
  <2>2. Held(d) /\ status[d] # "queued"
    BY <1>1, <2>1 DEF OutboxInv, IdleUnclaimed, Held, Handled
  <2>3. \A x \in Deliveries : Held(x)' <=> Held(x) /\ x # d
    BY <1>1, <2>1, OutboxAssumption DEF Held, OutboxInv, ClaimsUnique
  <2>4. Promise!GiveUp(d)
    BY <2>2, <2>3 DEF Promise!GiveUp
  <2> QED
    BY <2>4 DEF Promise!PromiseNext
<1>2. CASE pc[w] # "calling"
  <2>1. \A x \in Deliveries : Held(x)' <=> Held(x)
    BY <1>2 DEF Held
  <2> QED
    BY <2>1
<1> QED
  BY <1>1, <1>2

\* A running worker's step is a step of MailPromise or does not show.
LEMMA PromiseWorker ==
  ASSUME OutboxInv, NEW w \in Workers, WorkerStep(w)
  PROVE  [Promise!PromiseNext]_(Promise!promiseVars)
<1>1. ASSUME NEW d \in Deliveries, FlagStale(w, d)
      PROVE  [Promise!PromiseNext]_(Promise!promiseVars)
  <2>1. Finish(d, "unknown") /\ UNCHANGED <<current, pc>>
    BY <1>1 DEF FlagStale
  <2> QED
    BY <2>1, PromiseFinish DEF Outcomes, Held
<1>2. ASSUME NEW d \in Deliveries, Claim(w, d)
      PROVE  [Promise!PromiseNext]_(Promise!promiseVars)
  <2>1. status[d] = "queued" /\ ~Held(d) /\ pc[w] = "ready"
    BY <1>2 DEF Claim, OutboxInv, IdleUnclaimed, Held, Handled
  <2>2. UNCHANGED <<again, mailed>>
    BY <1>2 DEF Claim
  <2>3. \A x \in Deliveries : status'[x] = IF x = d THEN "sending" ELSE status[x]
    BY <1>2 DEF Claim, OutboxInv, TypeOK
  <2>4. current'[w] = d /\ pc'[w] \in {"calling", "failed"}
        /\ \A v \in Workers \ {w} : pc'[v] = pc[v] /\ current'[v] = current[v]
    BY <1>2 DEF Claim, OutboxInv, TypeOK
  <2>5. CASE pc'[w] = "calling"
    <3>1. \A x \in Deliveries : Held(x)' <=> Held(x) \/ x = d
      BY <2>1, <2>4, <2>5 DEF Held
    <3> QED
      BY <2>1, <2>2, <2>3, <3>1
  <2>6. CASE pc'[w] = "failed"
    <3>1. \A x \in Deliveries : Held(x)' <=> Held(x)
      BY <2>1, <2>4, <2>6 DEF Held
    <3>2. Promise!GiveUp(d)
      BY <2>1, <2>2, <2>3, <3>1 DEF Promise!GiveUp
    <3> QED
      BY <3>2 DEF Promise!PromiseNext
  <2> QED
    BY <2>4, <2>5, <2>6
<1>3. CASE Refused(w) \/ Unclear(w)
  <2>1. UNCHANGED <<status, mailed, again, current>>
    BY <1>3 DEF Refused, Unclear
  <2>2. pc'[w] # "calling" /\ \A v \in Workers \ {w} : pc'[v] = pc[v]
    BY <1>3 DEF Refused, Unclear, OutboxInv, TypeOK
  <2> QED
    BY <2>1, <2>2, PromiseRelease
<1>4. CASE Taken(w)
  <2>1. PICK d \in Deliveries : d = current[w]
    BY <1>4 DEF Taken, OutboxInv, ClaimsInUse, TypeOK
  <2>2. Held(d) /\ status[d] # "queued" /\ mailed[d] = 0
    BY <1>4, <2>1 DEF Taken, OutboxInv, IdleUnclaimed, ClaimsHonest, Held, Handled
  <2>3. UNCHANGED <<status, again, current>>
    BY <1>4 DEF Taken
  <2>4. \A x \in Deliveries : mailed'[x] = IF x = d THEN 1 ELSE mailed[x]
    BY <1>4, <2>1, <2>2 DEF Taken, OutboxInv, TypeOK
  <2>5. pc'[w] # "calling" /\ \A v \in Workers \ {w} : pc'[v] = pc[v]
    BY <1>4 DEF Taken, OutboxInv, TypeOK
  <2>6. \A x \in Deliveries : Held(x)' <=> Held(x) /\ x # d
    BY <1>4, <2>1, <2>3, <2>5, OutboxAssumption DEF Taken, Held, OutboxInv, ClaimsUnique
  <2>7. Promise!Mail(d)
    BY <2>2, <2>3, <2>4, <2>6 DEF Promise!Mail
  <2> QED
    BY <2>7 DEF Promise!PromiseNext
<1>5. CASE RecordOutcome(w)
  <2>1. pc[w] \in Outcomes /\ pc'[w] = "ready"
        /\ \A v \in Workers \ {w} : pc'[v] = pc[v] /\ current'[v] = current[v]
    BY <1>5 DEF RecordOutcome, OutboxInv, TypeOK
  <2>2. CASE UNCHANGED deliveryRows
    BY <2>1, <2>2, PromiseRelease
  <2>3. CASE Finish(current[w], pc[w])
    <3>1. PICK d \in Deliveries : d = current[w]
      BY <2>1 DEF OutboxInv, ClaimsInUse, TypeOK, Outcomes
    <3>2. pc[w] = "success" => mailed[d] > 0
      BY <3>1 DEF OutboxInv, ClaimsHonest
    <3>3. \A x \in Deliveries : Held(x)' <=> Held(x)
      BY <2>1 DEF Held, Outcomes
    <3> QED
      BY <2>1, <2>3, <3>1, <3>2, <3>3, PromiseFinish
  <2> QED
    BY <1>5, <2>2, <2>3 DEF RecordOutcome
<1>6. ASSUME UNCHANGED <<rows, current, pc>>
      PROVE  [Promise!PromiseNext]_(Promise!promiseVars)
  BY <1>6, PromiseStutter
<1> QED
  BY <1>1, <1>2, <1>3, <1>4, <1>5, <1>6
  DEF WorkerStep, SkipDelivery, ListBatch, EndTask

\* An API transaction is a step of MailPromise or does not show.
LEMMA PromiseApi ==
  ASSUME OutboxInv, ApiStep
  PROVE  [Promise!PromiseNext]_(Promise!promiseVars)
<1>1. ASSUME NEW b \in Batches, NEW S \in SUBSET Deliveries, NEW allow \in BOOLEAN,
             Dispatch(b, S, allow)
      PROVE  [Promise!PromiseNext]_(Promise!promiseVars)
  <2>1. \A d \in S : status[d] = "none" /\ MayQueue(d, allow)
    BY <1>1 DEF Dispatch, OutboxInv, RowsApproved
  <2>2. \A d \in S : RivalsOf(d) \cap S = {}
    BY <1>1, OneDraftPerCandidate DEF Dispatch, RivalsOf, SameTarget
  <2>3. \A x \in Deliveries :
            /\ status'[x] = IF x \in S THEN "queued" ELSE status[x]
            /\ again'[x] = IF x \in S THEN allow ELSE again[x]
    BY <1>1 DEF Dispatch
  <2>4. S # {} /\ UNCHANGED <<mailed, current, pc>>
    BY <1>1 DEF Dispatch
  <2>5. Promise!Approve(S, allow)
    BY <2>1, <2>2, <2>3, <2>4, PromiseApprove
  <2> QED
    BY <2>5 DEF Promise!PromiseNext
<1>2. ASSUME NEW d \in Deliveries, NEW allow \in BOOLEAN, RetryDelivery(d, allow)
      PROVE  [Promise!PromiseNext]_(Promise!promiseVars)
  <2>1. status[d] = "failed" /\ MayQueue(d, allow)
    BY <1>2 DEF RetryDelivery
  <2>2. RivalsOf(d) \cap {d} = {}
    BY DEF RivalsOf
  <2>3. \A x \in Deliveries :
            /\ status'[x] = IF x \in {d} THEN "queued" ELSE status[x]
            /\ again'[x] = IF x \in {d} THEN allow ELSE again[x]
    BY <1>2 DEF RetryDelivery, OutboxInv, TypeOK
  <2>4. UNCHANGED <<mailed, current, pc>>
    BY <1>2 DEF RetryDelivery
  <2>5. Promise!Approve({d}, allow)
    BY <2>1, <2>2, <2>3, <2>4, PromiseApprove
  <2> QED
    BY <2>5 DEF Promise!PromiseNext
<1>3. ASSUME NEW d \in Deliveries, NEW outcome \in {"success", "unknown"},
             ReconcileWrite(d, outcome)
      PROVE  [Promise!PromiseNext]_(Promise!promiseVars)
  <2>1. <<d, outcome>> \in probes /\ Finish(d, outcome) /\ UNCHANGED <<current, pc>>
    BY <1>3 DEF ReconcileWrite
  <2>2. outcome = "success" => mailed[d] > 0
    BY <2>1 DEF OutboxInv, ProbesHonest
  <2> QED
    BY <2>1, <2>2, PromiseFinish DEF Outcomes, Held
<1>4. ASSUME UNCHANGED <<rows, current, pc>>
      PROVE  [Promise!PromiseNext]_(Promise!promiseVars)
  BY <1>4, PromiseStutter
<1> QED
  BY <1>1, <1>2, <1>3, <1>4
  DEF ApiStep, Requeue, PublishBatch, ReconcileRead, ReconcileSearch

\* Rows, workers, queues and crashes implement the promise.
THEOREM ImplementsPromise == Spec => KeepsPromise
<1>1. Init => Promise!PromiseInit
  BY OutboxAssumption DEF Init, Promise!PromiseInit, Held
<1>2. ASSUME OutboxInv, [Next]_vars
      PROVE  [Promise!PromiseNext]_(Promise!promiseVars)
  <2>1. ASSUME NEW w \in Workers, Crash(w)
        PROVE  [Promise!PromiseNext]_(Promise!promiseVars)
    <3>1. UNCHANGED <<status, mailed, again>>
      BY <2>1 DEF Crash
    <3>2. pc'[w] = "ready"
      BY <1>2, <2>1 DEF Crash, OutboxInv, TypeOK
    <3>3. \A v \in Workers \ {w} : pc'[v] = pc[v] /\ current'[v] = current[v]
      BY <1>2, <2>1 DEF Crash, OutboxInv, TypeOK
    <3> QED
      BY <1>2, <2>1, <3>1, <3>2, <3>3, PromiseRelease
  <2>2. ASSUME UNCHANGED <<status, mailed, again, current, pc>>
        PROVE  [Promise!PromiseNext]_(Promise!promiseVars)
    BY <2>2, PromiseStutter
  <2> QED
    BY <1>2, <2>1, <2>2, PromiseApi, PromiseWorker
    DEF Next, StartBatch, StartDrain, Environment, Age, ToggleApprover, ChangeEmail
<1> QED
  BY <1>1, <1>2, Inductive, PTL DEF Spec, KeepsPromise, Promise!PromiseSpec

=============================================================================
