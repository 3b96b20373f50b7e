------------------------ MODULE OpsExperimentsProofs ------------------------
(***************************************************************************)
(* Theorems about optimization experiments, for every set of proposals,    *)
(* jobs, administrators, workers and shells and for every bound.           *)
(***************************************************************************)
EXTENDS OpsExperiments, FiniteSetTheorems, TLAPS

USE DEF configs, jobs, broker, locks, runner, vars, Runners, Sheltered

-----------------------------------------------------------------------------
(* Types.                                                                  *)

JobStates == {"none", "queued", "running", "completed", "failed"}

\* Initially every variable has its type.
LEMMA TypeInit == ASSUME Init PROVE TypeOK
  BY OpsAssumption DEF Init, TypeOK, Calls

\* A call under way is about a proposal; one that does not say "none" is under way.
LEMMA CallTypes ==
  ASSUME TypeOK, NEW a \in Admins
  PROVE  /\ call[a].op \in Operations => Target(a) \in Proposals /\ call[a] # NoCall
         /\ call[a].job \in Jobs \cup {NoJob}
         /\ call[a] = NoCall => call[a].op = "none" /\ call[a].job = NoJob
                                    /\ call[a].proposal = NoProposal
  BY OpsAssumption DEF TypeOK, Calls, NoCall, Operations, Begun, Target

\* The end of a call keeps the types of what it touches.
LEMMA EndTypes ==
  ASSUME TypeOK, NEW a \in Admins, End(a)
  PROVE  /\ lock' \in [Proposals -> Admins \cup Runners \cup {NoOne}]
         /\ call' \in [Admins -> Calls]
         /\ UNCHANGED exposed
  BY DEF TypeOK, End, Calls

\* So does the end of an experiment.
LEMMA StopTypes ==
  ASSUME TypeOK, NEW r \in Runners, StopRunner(r)
  PROVE  /\ lock' \in [Proposals -> Admins \cup Runners \cup {NoOne}]
         /\ running' \in [Runners -> Proposals \cup {NoProposal}]
         /\ job' \in [Runners -> Jobs \cup {NoJob}]
         /\ pc' \in [Runners -> {"idle", "started", "evaluating", "reported", "failing"}]
         /\ base' \in [Runners -> Proposals \cup {Default}]
         /\ UNCHANGED exposed
  BY DEF TypeOK, StopRunner

\* And its start.
LEMMA StartTypes ==
  ASSUME TypeOK, NEW r \in Runners, NEW p \in Proposals, NEW j \in Jobs \cup {NoJob},
         Start(r, p, j)
  PROVE  /\ lock' \in [Proposals -> Admins \cup Runners \cup {NoOne}]
         /\ running' \in [Runners -> Proposals \cup {NoProposal}]
         /\ job' \in [Runners -> Jobs \cup {NoJob}]
         /\ pc' \in [Runners -> {"idle", "started", "evaluating", "reported", "failing"}]
         /\ base' \in [Runners -> Proposals \cup {Default}]
         /\ UNCHANGED exposed
  BY DEF TypeOK, Start

\* A call of an administrator keeps the types.
LEMMA TypeAdmin ==
  ASSUME TypeOK, CallsFit, NEW a \in Admins, AdminStep(a) PROVE TypeOK'
<1>1. ASSUME NEW j \in Jobs, Enqueue(a, j) PROVE TypeOK'
  <2>1. Target(a) \in Proposals
    BY <1>1, CallTypes DEF Enqueue, Insert, Operations, Begun
  <2>2. publishing' \in SUBSET Jobs /\ status' \in [Jobs -> JobStates]
    BY <1>1 DEF Enqueue, Insert, TypeOK, JobStates
  <2> QED
    BY <1>1, <2>1, <2>2, EndTypes DEF Enqueue, Insert, TypeOK, JobStates
<1>2. CASE Approve(a)
  <2>1. Target(a) \in Proposals
    BY <1>2, CallTypes DEF Approve, MayActivate, Operations, Begun
  <2> QED
    BY <1>2, <2>1, EndTypes DEF Approve, TypeOK
<1>3. CASE Rollback(a)
  <2>1. Target(a) \in Proposals
    BY <1>3, CallTypes DEF Rollback, MayActivate, Operations, Begun
  <2> QED
    BY <1>3, <2>1, EndTypes DEF Rollback, TypeOK
<1>4. CASE RecoverInterrupted(a)
  BY <1>4, EndTypes DEF RecoverInterrupted, TypeOK
<1>5. CASE RecoverDispatch(a)
  <2>1. call' \in [Admins -> Calls]
    BY <1>5, CallTypes DEF RecoverDispatch, TypeOK, Calls, Operations, Begun, NoCall
  <2>2. messages' \in [Jobs -> Nat] /\ upsets' \in Nat
    BY <1>5 DEF RecoverDispatch, Send, Upset, TypeOK
  <2> QED
    BY <1>5, <2>1, <2>2 DEF RecoverDispatch, TypeOK
<1>6. CASE Leave(a)
  BY <1>6, EndTypes DEF Leave, TypeOK
<1>7. CASE CheckEnqueue(a)
  <2>1. call' \in [Admins -> Calls]
    BY <1>7, CallTypes DEF CheckEnqueue, TypeOK, Calls, Operations, Begun, NoCall
  <2> QED
    BY <1>7, <2>1 DEF CheckEnqueue, TypeOK
<1> QED
  BY <1>1, <1>2, <1>3, <1>4, <1>5, <1>6, <1>7 DEF AdminStep

\* A step of an experiment keeps the types.
LEMMA TypeRunner ==
  ASSUME TypeOK, NEW r \in Runners, RunnerStep(r) PROVE TypeOK'
<1>1. CASE ReadBaseline(r)
  BY <1>1 DEF ReadBaseline, TypeOK
<1>2. CASE WriteReport(r)
  <2>1. PICK passed \in BOOLEAN : report' = [report EXCEPT ![running[r]] =
            [by |-> job[r], baseline |-> base[r], passed |-> passed]]
    BY <1>2 DEF WriteReport
  <2>2. [by |-> job[r], baseline |-> base[r], passed |-> passed] \in Reports
    BY DEF TypeOK, Reports
  <2>3. report' \in [Proposals -> Reports \cup {NoReport}]
    BY <2>1, <2>2 DEF TypeOK
  <2> QED
    BY <1>2, <2>3 DEF WriteReport, TypeOK
<1>3. CASE FailExperiment(r)
  BY <1>3 DEF FailExperiment, TypeOK
<1>4. CASE Complete(r)
  <2>1. status' \in [Jobs -> JobStates]
    BY <1>4 DEF Complete, TypeOK, JobStates
  <2> QED
    BY <1>4, <2>1, StopTypes DEF Complete, TypeOK, JobStates
<1> QED
  BY <1>1, <1>2, <1>3, <1>4 DEF RunnerStep

\* Every step keeps the types.
LEMMA TypeStep ==
  ASSUME TypeOK, JobsFit, CallsFit, [Next]_vars PROVE TypeOK'
<1>1. ASSUME NEW a \in Admins, NEW op \in Begun, NEW p \in Proposals,
             NEW j \in Jobs \cup {NoJob}, Begin(a, op, p, j)
      PROVE  TypeOK'
  <2>1. [op |-> op, proposal |-> p, job |-> j] \in Calls
    BY DEF Calls, Operations
  <2> QED
    BY <1>1, <2>1 DEF Begin, CountCall, TypeOK
<1>2. CASE RollbackToDefault
  BY <1>2 DEF RollbackToDefault, CountCall, TypeOK
<1>3. ASSUME NEW j \in Jobs, Publish(j) PROVE TypeOK'
  BY <1>3 DEF Publish, Send, Upset, TypeOK
<1>4. ASSUME NEW w \in Workers, NEW j \in Jobs, Drop(w, j) PROVE TypeOK'
  BY <1>4 DEF Drop, Take, Upset, TypeOK
<1>5. ASSUME NEW w \in Workers, NEW j \in Jobs, Claim(w, j) PROVE TypeOK'
  <2>1. proposalOf[j] \in Proposals
    BY <1>5 DEF Claim, TypeOK, JobsFit
  <2>2. messages' \in [Jobs -> Nat] /\ status' \in [Jobs -> JobStates]
    BY <1>5 DEF Claim, Take, TypeOK, JobStates
  <2>3. CASE Start(w, proposalOf[j], j)
    BY <1>5, <2>1, <2>2, <2>3, StartTypes DEF Claim, TypeOK, JobStates
  <2>4. CASE UNCHANGED <<locks, runner>>
    BY <1>5, <2>2, <2>4 DEF Claim, TypeOK, JobStates
  <2> QED
    BY <1>5, <2>3, <2>4 DEF Claim
<1>6. ASSUME NEW s \in Shells, NEW p \in Proposals, StartDirectly(s, p) PROVE TypeOK'
  BY <1>6, StartTypes DEF StartDirectly, CountCall, TypeOK
<1>7. ASSUME NEW r \in Runners, Crash(r) PROVE TypeOK'
  <2>1. messages' \in [Jobs -> Nat]
    BY <1>7 DEF Crash, TypeOK
  <2> QED
    BY <1>7, <2>1, StopTypes DEF Crash, Upset, TypeOK
<1>8. ASSUME NEW p \in Proposals, LoseLock(p) PROVE TypeOK'
  BY <1>8 DEF LoseLock, Upset, TypeOK
<1>9. CASE UNCHANGED vars
  BY <1>9 DEF TypeOK
<1> QED
  BY <1>1, <1>2, <1>3, <1>4, <1>5, <1>6, <1>7, <1>8, <1>9, TypeAdmin, TypeRunner
     DEF Next, Receive

-----------------------------------------------------------------------------
(* Locks.                                                                  *)

\* The end of a call frees the administrator's lock and nobody else's.
LEMMA EndLocks ==
  ASSUME TypeOK, AdminLocks, RunnerLocks, NEW a \in Admins, End(a), UNCHANGED running
  PROVE  AdminLocks' /\ RunnerLocks'
<1>1. /\ UNCHANGED exposed
      /\ \A p \in Proposals, x \in Admins \cup Runners :
            lock'[p] = x <=> lock[p] = x /\ x # a
  BY OpsAssumption DEF TypeOK, End
<1>2. \A b \in Admins : call'[b] = IF b = a THEN NoCall ELSE call[b]
  BY DEF TypeOK, End
<1>3. AdminLocks'
  BY <1>1, <1>2, OpsAssumption DEF AdminLocks, NoCall
<1>4. RunnerLocks'
  BY <1>1, OpsAssumption DEF RunnerLocks
<1> QED
  BY <1>3, <1>4

\* The end of a call leaves every other call as it was.
LEMMA EndCalls ==
  ASSUME TypeOK, CallsFit, NEW a \in Admins, End(a), UNCHANGED proposalOf
  PROVE  CallsFit'
<1>1. \A b \in Admins : call'[b] = IF b = a THEN NoCall ELSE call[b]
  BY DEF TypeOK, End
<1> QED
  BY <1>1 DEF CallsFit, NoCall

\* The start of an experiment takes a free lock.
LEMMA StartLocks ==
  ASSUME TypeOK, AdminLocks, RunnerLocks, RunnersFit, UNCHANGED call,
         NEW r \in Runners, NEW p \in Proposals, NEW j \in Jobs \cup {NoJob},
         pc[r] = "idle", lock[p] = NoOne, Start(r, p, j)
  PROVE  AdminLocks' /\ RunnerLocks'
<1>1. UNCHANGED exposed /\ \A q \in Proposals : lock'[q] = IF q = p THEN r ELSE lock[q]
  BY DEF TypeOK, Start
<1>2. \A s \in Runners : running'[s] = IF s = r THEN p ELSE running[s]
  BY DEF TypeOK, Start
<1>3. running[r] = NoProposal
  BY DEF RunnersFit
<1>4. AdminLocks'
  BY <1>1, OpsAssumption DEF AdminLocks
<1>5. RunnerLocks'
  BY <1>1, <1>2, <1>3, OpsAssumption DEF RunnerLocks
<1> QED
  BY <1>4, <1>5

\* Its end frees its lock and nobody else's.
LEMMA StopLocks ==
  ASSUME TypeOK, AdminLocks, RunnerLocks, UNCHANGED call,
         NEW r \in Runners, StopRunner(r)
  PROVE  AdminLocks' /\ RunnerLocks'
<1>1. /\ UNCHANGED exposed
      /\ \A p \in Proposals, x \in Admins \cup Runners :
            lock'[p] = x <=> lock[p] = x /\ x # r
  BY OpsAssumption DEF TypeOK, StopRunner
<1>2. \A s \in Runners : running'[s] = IF s = r THEN NoProposal ELSE running[s]
  BY DEF TypeOK, StopRunner
<1>3. AdminLocks'
  BY <1>1, OpsAssumption DEF AdminLocks
<1>4. RunnerLocks'
  BY <1>1, <1>2, OpsAssumption DEF RunnerLocks
<1> QED
  BY <1>3, <1>4

\* What the end of an experiment does to the runners.
LEMMA StopFacts ==
  ASSUME TypeOK, NEW r \in Runners, StopRunner(r)
  PROVE  /\ running'[r] = NoProposal /\ pc'[r] = "idle" /\ job'[r] = NoJob
         /\ \A s \in Runners \ {r} :
                running'[s] = running[s] /\ pc'[s] = pc[s] /\ job'[s] = job[s]
  BY DEF TypeOK, StopRunner

\* Nobody else acts on a sheltered proposal that an administrator's call is about.
LEMMA LockExcludes ==
  ASSUME TypeOK, AdminLocks, RunnerLocks, NEW a \in Admins, Target(a) \in Sheltered
  PROVE  /\ \A r \in Runners : running[r] # Target(a)
         /\ \A b \in Admins \ {a} : Target(b) # Target(a)
  BY OpsAssumption DEF AdminLocks, RunnerLocks, Target

\* One runner at most evaluates a sheltered proposal, or works for a job of it.
LEMMA OneRunner ==
  ASSUME OpsInv, NEW r \in Runners, NEW s \in Runners, r # s, running[r] \in Sheltered
  PROVE  running[r] # running[s] /\ (job[r] # NoJob => job[r] # job[s])
<1>2. running[r] # running[s]
  BY DEF OpsInv, RunnerLocks
<1> QED
  BY <1>2 DEF OpsInv, RunnersFit

\* What enqueue checked stands as long as no job starts and nothing is approved.
LEMMA ChecksStay ==
  ASSUME OpsInv, exposed \subseteq exposed', UNCHANGED <<approved, proposalOf>>,
         \A a \in Admins : call'[a].op = "insert" => call'[a] = call[a],
         \A j \in Jobs : status'[j] \in Active => status[j] \in Active
  PROVE  ChecksStand'
  BY DEF OpsInv, ChecksStand, JobsOf, Target

\* The end of a call leaves no check behind.
LEMMA EndChecks ==
  ASSUME TypeOK, NEW a \in Admins, End(a)
  PROVE  \A b \in Admins : call'[b].op = "insert" => call'[b] = call[b]
  BY DEF TypeOK, End, NoCall

\* The retrieval setting in force is the default one.
LEMMA SameMultiplier ==
  ASSUME OpsInv PROVE ActiveMultiplier = DefaultMultiplier
  BY DEF OpsInv, TypeOK, RetrievalUnchanged, ActiveMultiplier

-----------------------------------------------------------------------------
(* The inductive invariant.                                                *)

LEMMA InvInit == ASSUME Init PROVE OpsInv
<1>1. TypeOK
  BY TypeInit
<1>2. AdminLocks /\ RunnerLocks
  BY OpsAssumption DEF Init, AdminLocks, RunnerLocks, NoCall
<1>3. JobsFit /\ CallsFit /\ ChecksStand /\ RunnersFit
  BY OpsAssumption DEF Init, JobsFit, CallsFit, ChecksStand, RunnersFit, NoCall, Active
<1>4. ReportIsLatest /\ CompletedIsReported /\ ReportsMeasured /\ RetrievalUnchanged
  BY DEF Init, ReportIsLatest, CompletedIsReported, ReportsMeasured, RetrievalUnchanged
<1> QED
  BY <1>1, <1>2, <1>3, <1>4 DEF OpsInv

\* A call of an administrator keeps the invariant.
LEMMA InvAdmin ==
  ASSUME OpsInv, NEW a \in Admins, AdminStep(a) PROVE OpsInv'
<1>0. TypeOK /\ TypeOK' /\ AdminLocks /\ RunnerLocks /\ CallsFit
  BY TypeAdmin DEF OpsInv
<1>1. ASSUME NEW j \in Jobs, Enqueue(a, j) PROVE OpsInv'
  <2> DEFINE p == Target(a)
  <2>1. p \in Proposals /\ call[a].op = "insert" /\ status[j] = "none"
    BY <1>0, <1>1, CallTypes DEF Enqueue, Insert, Operations, Begun
  <2>2. p \in Sheltered => JobsOf(p) = {}
    BY <2>1 DEF OpsInv, ChecksStand
  <2>3. p \in Sheltered => \A r \in Runners : running[r] # p
    BY <1>0, LockExcludes
  <2>4. End(a) /\ UNCHANGED <<approved, pointer, runner, exposed>>
    BY <1>1 DEF Enqueue, Insert, End
  <2>5. \A q \in Proposals : report'[q] = IF q = p THEN NoReport ELSE report[q]
    BY <1>0, <1>1 DEF Enqueue, TypeOK
  <2>6. \A q \in Proposals : latest'[q] = IF q = p THEN j ELSE latest[q]
    BY <1>0, <1>1 DEF Enqueue, Insert, TypeOK
  <2>7. \A k \in Jobs : status'[k] = IF k = j THEN "queued" ELSE status[k]
    BY <1>0, <1>1 DEF Enqueue, Insert, TypeOK
  <2>8. \A k \in Jobs : proposalOf'[k] = IF k = j THEN p ELSE proposalOf[k]
    BY <1>0, <1>1 DEF Enqueue, Insert, TypeOK
  <2>18. p \in Sheltered => \A b \in Admins \ {a} : Target(b) # p
    BY <1>0, LockExcludes
  <2> HIDE DEF p
  <2>9. proposalOf[j] = NoProposal
    BY <2>1 DEF OpsInv, JobsFit
  <2>10. AdminLocks' /\ RunnerLocks'
    BY <1>0, <2>4, EndLocks
  <2>11. JobsFit'
    <3>1. \A k \in Jobs : status'[k] = "none" <=> proposalOf'[k] = NoProposal
      BY <2>1, <2>7, <2>8, OpsAssumption DEF OpsInv, JobsFit
    <3>2. \A k \in Jobs : status'[k] \in Active /\ proposalOf'[k] \notin exposed =>
            latest'[proposalOf'[k]] = k
      <4> SUFFICES ASSUME NEW k \in Jobs, status'[k] \in Active, proposalOf'[k] \notin exposed
                   PROVE  latest'[proposalOf'[k]] = k
        OBVIOUS
      <4>1. CASE k = j
        BY <2>1, <2>6, <2>8, <4>1
      <4>2. CASE k # j
        <5>1. status[k] \in Active /\ proposalOf'[k] = proposalOf[k]
          BY <2>7, <2>8, <4>2
        <5>2. proposalOf[k] \in Proposals /\ latest[proposalOf[k]] = k
          BY <1>0, <5>1 DEF OpsInv, TypeOK, JobsFit, Active
        <5>3. proposalOf[k] # p
          BY <2>2, <5>1, <5>2 DEF JobsOf
        <5> QED
          BY <2>6, <5>1, <5>2, <5>3
      <4> QED
        BY <4>1, <4>2
    <3>3. \A q \in Proposals : latest'[q] # NoJob => proposalOf'[latest'[q]] = q
      BY <1>0, <2>1, <2>6, <2>8, <2>9, OpsAssumption DEF OpsInv, TypeOK, JobsFit
    <3> QED
      BY <2>4, <3>1, <3>2, <3>3 DEF JobsFit
  <2>12. CallsFit'
    <3>1. \A b \in Admins : call'[b] = IF b = a THEN NoCall ELSE call[b]
      BY <1>0, <2>4 DEF TypeOK, End
    <3>2. \A b \in Admins : call[b].job # NoJob =>
            call[b].job \in Jobs /\ call[b].proposal \in Proposals
      BY <1>0, OpsAssumption DEF TypeOK, Calls, NoCall
    <3>3. \A b \in Admins : call[b].job # NoJob => call[b].job # j
      BY <1>0, <2>9, <3>2, OpsAssumption DEF CallsFit
    <3> QED
      BY <1>0, <2>8, <3>1, <3>2, <3>3 DEF CallsFit, NoCall
  <2>13. RunnersFit'
    BY <1>0, <2>1, <2>4, <2>7, <2>8, <2>9 DEF OpsInv, TypeOK, RunnersFit
  <2>14. ReportIsLatest'
    BY <2>4, <2>5, <2>6 DEF OpsInv, ReportIsLatest
  <2>15. CompletedIsReported'
    <3> SUFFICES ASSUME NEW q \in Sheltered, latest'[q] # NoJob,
                        status'[latest'[q]] = "completed"
                 PROVE  report'[q] # NoReport
      BY <2>4 DEF CompletedIsReported
    <3>1. q # p
      BY <2>1, <2>6, <2>7
    <3>2. latest[q] \in Jobs /\ latest[q] # NoJob /\ latest'[q] = latest[q]
      BY <1>0, <2>6, <3>1 DEF TypeOK
    <3>3. status[latest[q]] = "completed"
      BY <2>7, <3>2
    <3> QED
      BY <2>5, <3>1, <3>2, <3>3 DEF OpsInv, CompletedIsReported
  <2>16. ReportsMeasured'
    <3>1. \A r \in Runners : pc[r] = "reported" => running[r] \in Proposals
      BY <1>0 DEF OpsInv, TypeOK, RunnersFit
    <3> QED
      BY <2>3, <2>4, <2>5, <3>1 DEF OpsInv, ReportsMeasured
  <2>17. RetrievalUnchanged'
    BY <2>4 DEF OpsInv, RetrievalUnchanged
  <2>19. ChecksStand'
    <3> SUFFICES ASSUME NEW b \in Admins, call'[b].op = "insert", Target(b)' \in Sheltered
                 PROVE  JobsOf(Target(b))' = {} /\ Target(b)' \notin approved
      BY <2>4 DEF ChecksStand
    <3>1. b # a /\ call'[b] = call[b]
      BY <1>0, <2>4 DEF TypeOK, End, NoCall
    <3>2. Target(b)' = Target(b) /\ Target(b) # p
      BY <2>18, <3>1 DEF Target
    <3>3. JobsOf(Target(b)) = {} /\ Target(b) \notin approved
      BY <3>1, <3>2 DEF OpsInv, ChecksStand
    <3> QED
      BY <2>7, <2>8, <3>2, <3>3 DEF JobsOf
  <2> QED
    BY <1>0, <2>10, <2>11, <2>12, <2>13, <2>14, <2>15, <2>16, <2>17, <2>19 DEF OpsInv
<1>2. ASSUME End(a), UNCHANGED <<report, jobs, runner>>, RetrievalUnchanged', ChecksStand'
      PROVE  OpsInv'
  <2>0. UNCHANGED exposed
    BY <1>2 DEF End
  <2>1. AdminLocks' /\ RunnerLocks' /\ CallsFit'
    BY <1>0, <1>2, EndLocks, EndCalls
  <2>2. JobsFit' /\ RunnersFit' /\ ReportIsLatest'
    BY <1>2, <2>0 DEF OpsInv, JobsFit, RunnersFit, ReportIsLatest
  <2>3. CompletedIsReported' /\ ReportsMeasured'
    BY <1>2, <2>0 DEF OpsInv, CompletedIsReported, ReportsMeasured
  <2> QED
    BY <1>0, <1>2, <2>1, <2>2, <2>3 DEF OpsInv
<1>3. CASE Approve(a)
  <2>1. Target(a) \in Proposals /\ report[Target(a)] # NoReport
    BY <1>0, <1>3, CallTypes DEF Approve, MayActivate, Convincing, Operations, Begun
  <2>2. RetrievalUnchanged'
    BY <1>3, <2>1 DEF Approve, OpsInv, ReportsMeasured, RetrievalUnchanged
  <2>3. ChecksStand'
    <3> SUFFICES ASSUME NEW b \in Admins, call'[b].op = "insert", Target(b)' \in Sheltered'
                 PROVE  JobsOf(Target(b))' = {} /\ Target(b)' \notin approved'
      BY DEF ChecksStand
    <3>1. b # a /\ call'[b] = call[b] /\ UNCHANGED exposed
      BY <1>0, <1>3 DEF Approve, TypeOK, End, NoCall
    <3>2. Target(b)' = Target(b) /\ Target(b) # Target(a)
      BY <1>0, <3>1, LockExcludes DEF Target
    <3>3. JobsOf(Target(b)) = {} /\ Target(b) \notin approved
      BY <3>1, <3>2 DEF OpsInv, ChecksStand
    <3> QED
      BY <1>3, <3>2, <3>3 DEF Approve, JobsOf
  <2> QED
    BY <1>2, <1>3, <2>2, <2>3 DEF Approve
<1>4. CASE Rollback(a)
  <2>1. RetrievalUnchanged'
    BY <1>4 DEF Rollback, OpsInv, RetrievalUnchanged
  <2>2. ChecksStand'
    BY <1>0, <1>4, EndChecks, ChecksStay DEF Rollback, End
  <2> QED
    BY <1>2, <1>4, <2>1, <2>2 DEF Rollback
<1>5. CASE Leave(a)
  <2>1. RetrievalUnchanged'
    BY <1>5 DEF Leave, OpsInv, RetrievalUnchanged
  <2>2. ChecksStand'
    BY <1>0, <1>5, EndChecks, ChecksStay DEF Leave, End
  <2> QED
    BY <1>2, <1>5, <2>1, <2>2 DEF Leave
<1>6. CASE RecoverInterrupted(a)
  <2> DEFINE j == call[a].job
  <2>1. j \in Jobs /\ j # NoJob /\ proposalOf[j] = Target(a) /\ Target(a) \in Proposals
    BY <1>0, <1>6, CallTypes DEF RecoverInterrupted, CallsFit, Operations, Begun, Target
  <2>2. End(a) /\ UNCHANGED <<configs, proposalOf, latest, runner, exposed>>
    BY <1>6 DEF RecoverInterrupted, End
  <2>3. status[j] = "running" /\ \A k \in Jobs : status'[k] = IF k = j THEN "failed" ELSE status[k]
    BY <1>0, <1>6 DEF RecoverInterrupted, TypeOK
  <2> HIDE DEF j
  <2>4. \A r \in Runners : running[r] \in Sheltered => job[r] # j
    BY <1>0, <2>1, LockExcludes DEF OpsInv, RunnersFit
  <2>5. AdminLocks' /\ RunnerLocks' /\ CallsFit'
    BY <1>0, <2>2, EndLocks, EndCalls
  <2>6. JobsFit'
    BY <2>1, <2>2, <2>3 DEF OpsInv, JobsFit, Active
  <2>7. RunnersFit'
    BY <1>0, <2>2, <2>3, <2>4 DEF OpsInv, TypeOK, RunnersFit
  <2>8. CompletedIsReported'
    BY <1>0, <2>2, <2>3 DEF OpsInv, TypeOK, CompletedIsReported
  <2>9. ReportIsLatest' /\ ReportsMeasured' /\ RetrievalUnchanged'
    BY <2>2 DEF OpsInv, ReportIsLatest, ReportsMeasured, RetrievalUnchanged
  <2>10. ChecksStand'
    BY <1>0, <2>2, <2>3, EndChecks, ChecksStay DEF Active
  <2> QED
    BY <1>0, <2>5, <2>6, <2>7, <2>8, <2>9, <2>10 DEF OpsInv
<1>7. ASSUME NEW op \in {"insert", "leave"}, call[a].op \in Operations, op # "recover",
             call' = [call EXCEPT ![a].op = op], UNCHANGED <<configs, jobs, locks, runner>>,
             ChecksStand'
      PROVE  OpsInv'
  <2>1. \A b \in Admins : /\ call'[b].proposal = call[b].proposal
                          /\ call'[b].job = call[b].job
                          /\ call'[b].op = "recover" => call[b].op = "recover"
    BY <1>0, <1>7, CallTypes DEF TypeOK, Calls, NoCall
  <2>2. AdminLocks' /\ RunnerLocks' /\ CallsFit'
    BY <1>0, <1>7, <2>1 DEF AdminLocks, RunnerLocks, CallsFit
  <2>3. JobsFit' /\ RunnersFit' /\ ReportIsLatest'
    BY <1>7 DEF OpsInv, JobsFit, RunnersFit, ReportIsLatest
  <2>4. CompletedIsReported' /\ ReportsMeasured' /\ RetrievalUnchanged'
    BY <1>7 DEF OpsInv, CompletedIsReported, ReportsMeasured, RetrievalUnchanged
  <2> QED
    BY <1>0, <1>7, <2>2, <2>3, <2>4 DEF OpsInv
<1>8. CASE RecoverDispatch(a)
  <2>1. /\ call[a].op = "recover" /\ call' = [call EXCEPT ![a].op = "leave"]
        /\ UNCHANGED <<configs, jobs, locks, runner>>
    BY <1>8 DEF RecoverDispatch
  <2>2. \A b \in Admins : call'[b].op = "insert" => call'[b] = call[b]
    BY <1>0, <2>1, CallTypes DEF TypeOK, Calls, NoCall, Operations, Begun
  <2>3. ChecksStand'
    BY <2>1, <2>2, ChecksStay
  <2> QED
    BY <1>7, <2>1, <2>3 DEF Operations, Begun
<1>9. CASE CheckEnqueue(a)
  <2>1. /\ call[a].op = "enqueue" /\ call' = [call EXCEPT ![a].op = "insert"]
        /\ UNCHANGED <<configs, jobs, locks, runner>>
    BY <1>9 DEF CheckEnqueue
  <2>2. JobsOf(Target(a)) = {} /\ Target(a) \notin approved
    BY <1>9 DEF CheckEnqueue, MayEnqueue
  <2>3. \A b \in Admins : /\ Target(b)' = Target(b)
                          /\ b # a => call'[b] = call[b]
    BY <1>0, <2>1, CallTypes DEF TypeOK, Calls, NoCall, Operations, Begun, Target
  <2>4. \A p \in Proposals : JobsOf(p)' = JobsOf(p)
    BY <2>1 DEF JobsOf
  <2>5. ChecksStand'
    BY <2>1, <2>2, <2>3, <2>4 DEF OpsInv, ChecksStand
  <2> QED
    BY <1>7, <2>1, <2>5 DEF Operations, Begun
<1> QED
  BY <1>1, <1>3, <1>4, <1>5, <1>6, <1>8, <1>9 DEF AdminStep

\* The end of an experiment keeps what does not concern the job's status.
LEMMA StopKeeps ==
  ASSUME OpsInv, UNCHANGED <<configs, call, proposalOf, latest>>,
         NEW r \in Runners, StopRunner(r)
  PROVE  /\ AdminLocks' /\ RunnerLocks' /\ CallsFit'
         /\ ReportIsLatest' /\ ReportsMeasured' /\ RetrievalUnchanged'
<1>0. TypeOK /\ AdminLocks /\ RunnerLocks
  BY DEF OpsInv
<1>1. AdminLocks' /\ RunnerLocks' /\ UNCHANGED exposed
  BY <1>0, StopLocks DEF StopRunner
<1>2. CallsFit' /\ ReportIsLatest' /\ RetrievalUnchanged'
  BY <1>1 DEF OpsInv, CallsFit, ReportIsLatest, RetrievalUnchanged
<1>3. ReportsMeasured'
  BY <1>0, <1>1, StopFacts DEF OpsInv, ReportsMeasured
<1> QED
  BY <1>1, <1>2, <1>3

\* A step of an experiment keeps the invariant.
LEMMA InvRunner ==
  ASSUME OpsInv, NEW r \in Runners, RunnerStep(r) PROVE OpsInv'
<1>0. TypeOK /\ TypeOK'
  BY TypeRunner DEF OpsInv
<1>1. ASSUME NEW next \in {"evaluating", "failing"},
             pc[r] # "idle", pc' = [pc EXCEPT ![r] = next],
             next = "evaluating" => MultiplierOf[running[r]] = DefaultMultiplier,
             UNCHANGED <<configs, jobs, locks, call, running, job>>
      PROVE  OpsInv'
  <2>1. \A s \in Runners : pc'[s] = IF s = r THEN next ELSE pc[s]
    BY <1>0, <1>1 DEF TypeOK
  <2>2. RunnersFit' /\ ReportsMeasured'
    BY <1>1, <2>1 DEF OpsInv, RunnersFit, ReportsMeasured
  <2>3. AdminLocks' /\ RunnerLocks' /\ JobsFit' /\ CallsFit'
    BY <1>1 DEF OpsInv, AdminLocks, RunnerLocks, JobsFit, CallsFit
  <2>4. ReportIsLatest' /\ CompletedIsReported' /\ RetrievalUnchanged'
    BY <1>1 DEF OpsInv, ReportIsLatest, CompletedIsReported, RetrievalUnchanged
  <2>5. ChecksStand'
    BY <1>1, ChecksStay
  <2> QED
    BY <1>0, <2>2, <2>3, <2>4, <2>5 DEF OpsInv
<1>2. CASE ReadBaseline(r)
  <2>1. MayEvaluate(running[r]) => MultiplierOf[running[r]] = DefaultMultiplier
    BY SameMultiplier DEF MayEvaluate
  <2>2. CASE MayEvaluate(running[r])
    BY <1>1, <1>2, <2>1, <2>2 DEF ReadBaseline
  <2>3. CASE ~MayEvaluate(running[r])
    BY <1>1, <1>2, <2>3 DEF ReadBaseline
  <2> QED
    BY <2>2, <2>3
<1>3. CASE FailExperiment(r)
  BY <1>1, <1>3 DEF FailExperiment
<1>4. CASE WriteReport(r)
  <2> DEFINE p == running[r]
  <2>1. p \in Proposals /\ pc[r] = "evaluating"
    BY <1>0, <1>4 DEF WriteReport, OpsInv, TypeOK, RunnersFit
  <2>2. PICK passed \in BOOLEAN : report' = [report EXCEPT ![p] =
            [by |-> job[r], baseline |-> base[r], passed |-> passed]]
    BY <1>4 DEF WriteReport
  <2>3. [by |-> job[r], baseline |-> base[r], passed |-> passed] \in Reports
    BY <1>0 DEF TypeOK, Reports
  <2>4. /\ report'[p] # NoReport /\ report'[p].by = job[r]
        /\ \A q \in Proposals \ {p} : report'[q] = report[q]
    BY <1>0, <2>1, <2>2, <2>3, NoReportIsNone DEF TypeOK
  <2>5. p \in Sheltered => job[r] \in {NoJob, latest[p]}
    BY <1>0 DEF OpsInv, TypeOK, RunnersFit, JobsFit, Active
  <2>6. \A s \in Runners : pc'[s] = IF s = r THEN "reported" ELSE pc[s]
    BY <1>0, <1>4 DEF WriteReport, TypeOK
  <2>7. UNCHANGED <<approved, pointer, jobs, locks, call, running, job>>
    BY <1>4 DEF WriteReport
  <2>8. MultiplierOf[p] = DefaultMultiplier
    BY <2>1 DEF OpsInv, ReportsMeasured
  <2>9. /\ AdminLocks' /\ RunnerLocks' /\ JobsFit' /\ CallsFit'
        /\ ChecksStand' /\ RetrievalUnchanged'
    BY <2>7, ChecksStay
    DEF OpsInv, AdminLocks, RunnerLocks, JobsFit, CallsFit, RetrievalUnchanged
  <2>10. RunnersFit'
    BY <2>1, <2>6, <2>7 DEF OpsInv, RunnersFit
  <2> HIDE DEF p
  <2>11. ReportIsLatest' /\ CompletedIsReported'
    BY <2>4, <2>5, <2>7 DEF OpsInv, ReportIsLatest, CompletedIsReported
  <2>12. ReportsMeasured'
    <3>1. \A q \in Proposals : report'[q] # NoReport => MultiplierOf[q] = DefaultMultiplier
      BY <2>4, <2>8 DEF OpsInv, ReportsMeasured
    <3>2. \A s \in Runners : pc'[s] \in {"evaluating", "reported"} =>
            MultiplierOf[running'[s]] = DefaultMultiplier
      BY <2>6, <2>7, <2>8 DEF OpsInv, ReportsMeasured, p
    <3>3. \A s \in Runners : pc'[s] = "reported" /\ running'[s] \in Sheltered =>
            report'[running'[s]] # NoReport
      <4> SUFFICES ASSUME NEW s \in Runners, pc'[s] = "reported", s # r,
                          running[s] \in Sheltered
                   PROVE  report'[running[s]] # NoReport
        BY <2>4, <2>7 DEF p
      <4>1. pc[s] = "reported"
        BY <2>6
      <4>2. running[s] \in Proposals /\ report[running[s]] # NoReport
        BY <1>0, <4>1 DEF OpsInv, TypeOK, RunnersFit, ReportsMeasured
      <4> QED
        BY <2>4, <4>2
    <3> QED
      BY <2>7, <3>1, <3>2, <3>3 DEF ReportsMeasured
  <2> QED
    BY <1>0, <2>9, <2>10, <2>11, <2>12 DEF OpsInv
<1>5. CASE Complete(r)
  <2>1. StopRunner(r) /\ UNCHANGED <<configs, call, proposalOf, latest, exposed>>
    BY <1>5 DEF Complete, StopRunner
  <2>2. /\ AdminLocks' /\ RunnerLocks' /\ CallsFit'
        /\ ReportIsLatest' /\ ReportsMeasured' /\ RetrievalUnchanged'
    BY <2>1, StopKeeps
  <2>3. CASE job[r] = NoJob
    <3>1. UNCHANGED status
      BY <1>5, <2>3 DEF Complete
    <3>2. JobsFit' /\ CompletedIsReported' /\ ChecksStand'
      BY <2>1, <3>1, ChecksStay DEF OpsInv, JobsFit, CompletedIsReported
    <3>3. RunnersFit'
      BY <1>0, <2>1, <3>1, StopFacts, OpsAssumption DEF OpsInv, TypeOK, RunnersFit
    <3> QED
      BY <1>0, <2>2, <3>2, <3>3 DEF OpsInv
  <2>4. CASE job[r] # NoJob
    <3> DEFINE j == job[r]
               p == running[r]
    <3>1. j \in Jobs /\ proposalOf[j] = p
      BY <1>0, <2>4 DEF OpsInv, TypeOK, RunnersFit
    <3>2. p \in Proposals /\ status[j] # "none"
      BY <1>0, <1>5, <3>1, OpsAssumption DEF Complete, OpsInv, TypeOK, RunnersFit, JobsFit
    <3>3. /\ \A k \in Jobs \ {j} : status'[k] = status[k]
          /\ status'[j] = IF pc[r] = "reported" THEN "completed" ELSE "failed"
      BY <1>0, <1>5, <2>4 DEF Complete, TypeOK
    <3>4. pc[r] = "reported" /\ p \in Sheltered => report[p] # NoReport
      BY DEF OpsInv, ReportsMeasured
    <3>5. p \in Sheltered => \A s \in Runners \ {r} : job[s] # j
      BY <2>4, OneRunner
    <3>9. \A s \in Runners \ {r} : job[s] = j => running[s] = p
      BY <2>4, <3>1 DEF OpsInv, RunnersFit
    <3> HIDE DEF j, p
    <3>6. JobsFit'
      BY <1>0, <2>1, <3>1, <3>2, <3>3 DEF OpsInv, TypeOK, JobsFit, Active
    <3>7. RunnersFit'
      BY <1>0, <2>1, <3>3, <3>5, <3>9, StopFacts, OpsAssumption DEF OpsInv, TypeOK, RunnersFit
    <3>8. CompletedIsReported'
      <4> SUFFICES ASSUME NEW q \in Sheltered, latest[q] # NoJob,
                          status'[latest[q]] = "completed"
                   PROVE  report[q] # NoReport
        BY <2>1 DEF CompletedIsReported
      <4>1. latest[q] \in Jobs
        BY <1>0 DEF TypeOK
      <4>2. CASE latest[q] = j
        BY <3>1, <3>3, <3>4, <4>1, <4>2 DEF OpsInv, JobsFit
      <4>3. CASE latest[q] # j
        BY <3>3, <4>1, <4>3 DEF OpsInv, CompletedIsReported
      <4> QED
        BY <4>2, <4>3
    <3>10. ChecksStand'
      BY <2>1, <3>3, ChecksStay DEF Active
    <3> QED
      BY <1>0, <2>2, <3>6, <3>7, <3>8, <3>10 DEF OpsInv
  <2> QED
    BY <2>3, <2>4
<1> QED
  BY <1>2, <1>3, <1>4, <1>5 DEF RunnerStep

\* An experiment that starts, for a queued job or for none, keeps the invariant.
LEMMA InvStart ==
  ASSUME OpsInv, TypeOK', NEW r \in Runners, NEW p \in Proposals, NEW j \in Jobs \cup {NoJob},
         pc[r] = "idle", lock[p] = NoOne, Start(r, p, j),
         UNCHANGED <<configs, proposalOf, latest, call>>,
         IF j = NoJob THEN UNCHANGED status
         ELSE /\ proposalOf[j] = p /\ status[j] = "queued"
              /\ status' = [status EXCEPT ![j] = "running"]
  PROVE  OpsInv'
<1>0. TypeOK
  BY DEF OpsInv
<1>1. AdminLocks' /\ RunnerLocks' /\ UNCHANGED exposed
  BY StartLocks DEF OpsInv, Start
<1>2. /\ running'[r] = p /\ pc'[r] = "started" /\ job'[r] = j
      /\ \A s \in Runners \ {r} :
            running'[s] = running[s] /\ pc'[s] = pc[s] /\ job'[s] = job[s]
  BY <1>0 DEF Start, TypeOK
<1>3. /\ \A k \in Jobs \ {j} : status'[k] = status[k]
      /\ j # NoJob => status'[j] = "running" /\ status[j] = "queued" /\ proposalOf[j] = p
  BY <1>0 DEF TypeOK
<1>4. JobsFit'
  BY <1>0, <1>1, <1>3, OpsAssumption DEF OpsInv, TypeOK, JobsFit, Active
<1>5. RunnersFit'
  BY <1>0, <1>1, <1>2, <1>3, OpsAssumption DEF OpsInv, TypeOK, RunnersFit
<1>6. CallsFit' /\ ReportIsLatest' /\ RetrievalUnchanged'
  BY <1>1 DEF OpsInv, CallsFit, ReportIsLatest, RetrievalUnchanged
<1>7. CompletedIsReported'
  BY <1>0, <1>1, <1>3 DEF OpsInv, TypeOK, CompletedIsReported
<1>8. ReportsMeasured'
  BY <1>1, <1>2 DEF OpsInv, ReportsMeasured
<1>9. ChecksStand'
  BY <1>1, <1>3, ChecksStay DEF Active
<1> QED
  BY <1>1, <1>4, <1>5, <1>6, <1>7, <1>8, <1>9 DEF OpsInv

\* Every step keeps the invariant.
LEMMA InvStep == ASSUME OpsInv, [Next]_vars PROVE OpsInv'
<1>0. TypeOK /\ TypeOK'
  BY TypeStep DEF OpsInv
<1>1. ASSUME UNCHANGED <<configs, jobs, locks, call, runner>>
      PROVE  OpsInv'
  <2>0. ChecksStand'
    BY <1>1, ChecksStay
  <2>1. AdminLocks' /\ RunnerLocks' /\ JobsFit' /\ CallsFit' /\ RunnersFit'
    BY <1>1 DEF OpsInv, AdminLocks, RunnerLocks, JobsFit, CallsFit, RunnersFit
  <2>2. ReportIsLatest' /\ CompletedIsReported' /\ ReportsMeasured' /\ RetrievalUnchanged'
    BY <1>1 DEF OpsInv, ReportIsLatest, CompletedIsReported, ReportsMeasured,
                RetrievalUnchanged
  <2> QED
    BY <1>0, <2>0, <2>1, <2>2 DEF OpsInv
<1>2. ASSUME NEW a \in Admins, NEW op \in Begun, NEW p \in Proposals,
             NEW j \in Jobs \cup {NoJob}, Begin(a, op, p, j)
      PROVE  OpsInv'
  <2>1. /\ call[a] = NoCall /\ lock[p] = NoOne
        /\ UNCHANGED <<configs, jobs, runner, exposed>>
        /\ (op = "recover") <=> (j # NoJob)
        /\ j # NoJob => proposalOf[j] = p
    BY <1>2 DEF Begin
  <2>2. \A q \in Proposals : lock'[q] = IF q = p THEN a ELSE lock[q]
    BY <1>0, <1>2 DEF Begin, TypeOK
  <2>3. \A b \in Admins : call'[b] =
            IF b = a THEN [op |-> op, proposal |-> p, job |-> j] ELSE call[b]
    BY <1>0, <1>2 DEF Begin, TypeOK
  <2>4. AdminLocks'
    BY <2>1, <2>2, <2>3, OpsAssumption DEF OpsInv, AdminLocks, NoCall
  <2>5. RunnerLocks'
    BY <2>1, <2>2, OpsAssumption DEF OpsInv, RunnerLocks
  <2>6. CallsFit'
    BY <2>1, <2>3 DEF OpsInv, CallsFit
  <2>7. JobsFit' /\ RunnersFit' /\ ReportIsLatest'
    BY <2>1 DEF OpsInv, JobsFit, RunnersFit, ReportIsLatest
  <2>8. CompletedIsReported' /\ ReportsMeasured' /\ RetrievalUnchanged'
    BY <2>1 DEF OpsInv, CompletedIsReported, ReportsMeasured, RetrievalUnchanged
  <2>9. ChecksStand'
    <3>1. \A b \in Admins : call'[b].op = "insert" => call'[b] = call[b]
      BY <2>3 DEF Begun
    <3> QED
      BY <2>1, <3>1, ChecksStay
  <2> QED
    BY <1>0, <2>4, <2>5, <2>6, <2>7, <2>8, <2>9 DEF OpsInv
<1>3. CASE RollbackToDefault
  <2>1. UNCHANGED <<approved, report, jobs, locks, call, runner>> /\ pointer' = Default
    BY <1>3 DEF RollbackToDefault
  <2>4. ChecksStand'
    BY <2>1, ChecksStay
  <2>2. AdminLocks' /\ RunnerLocks' /\ JobsFit' /\ CallsFit' /\ RunnersFit'
    BY <2>1 DEF OpsInv, AdminLocks, RunnerLocks, JobsFit, CallsFit, RunnersFit
  <2>3. ReportIsLatest' /\ CompletedIsReported' /\ ReportsMeasured' /\ RetrievalUnchanged'
    BY <2>1 DEF OpsInv, ReportIsLatest, CompletedIsReported, ReportsMeasured,
                RetrievalUnchanged
  <2> QED
    BY <1>0, <2>2, <2>3, <2>4 DEF OpsInv
<1>4. ASSUME NEW j \in Jobs, Publish(j) PROVE OpsInv'
  BY <1>1, <1>4 DEF Publish
<1>5. ASSUME NEW w \in Workers, NEW j \in Jobs, Drop(w, j) PROVE OpsInv'
  BY <1>1, <1>5 DEF Drop
<1>6. ASSUME NEW w \in Workers, NEW j \in Jobs, Claim(w, j) PROVE OpsInv'
  <2>1. /\ pc[w] = "idle" /\ status[j] = "queued" /\ lock[proposalOf[j]] = NoOne
        /\ UNCHANGED <<configs, proposalOf, latest, call>> /\ j # NoJob
    BY <1>6, OpsAssumption DEF Claim
  <2>2. proposalOf[j] \in Proposals
    BY <1>0, <2>1 DEF OpsInv, TypeOK, JobsFit
  <2>3. CASE status' = [status EXCEPT ![j] = "running"] /\ Start(w, proposalOf[j], j)
    BY <1>0, <2>1, <2>2, <2>3, InvStart
  <2>4. CASE status' = [status EXCEPT ![j] = "failed"] /\ UNCHANGED <<locks, runner>>
    <3>1. \A k \in Jobs : status'[k] = IF k = j THEN "failed" ELSE status[k]
      BY <1>0, <2>4 DEF TypeOK
    <3>2. AdminLocks' /\ RunnerLocks' /\ CallsFit'
      BY <2>1, <2>4 DEF OpsInv, AdminLocks, RunnerLocks, CallsFit
    <3>3. JobsFit' /\ RunnersFit'
      <4>1. JobsFit'
        BY <2>1, <2>4, <3>1 DEF OpsInv, JobsFit, Active
      <4>2. \A r \in Runners : job[r] # NoJob => job[r] \in Jobs
        BY <1>0 DEF TypeOK
      <4>3. RunnersFit'
        BY <2>1, <2>4, <3>1, <4>2 DEF OpsInv, RunnersFit
      <4> QED
        BY <4>1, <4>3
    <3>4. CompletedIsReported'
      BY <1>0, <2>1, <2>4, <3>1 DEF OpsInv, TypeOK, CompletedIsReported
    <3>5. ReportIsLatest' /\ ReportsMeasured' /\ RetrievalUnchanged'
      BY <2>1, <2>4 DEF OpsInv, ReportIsLatest, ReportsMeasured, RetrievalUnchanged
    <3>6. ChecksStand'
      BY <2>1, <2>4, <3>1, ChecksStay DEF Active
    <3> QED
      BY <1>0, <3>2, <3>3, <3>4, <3>5, <3>6 DEF OpsInv
  <2> QED
    BY <1>6, <2>3, <2>4 DEF Claim
<1>7. ASSUME NEW s \in Shells, NEW p \in Proposals, StartDirectly(s, p) PROVE OpsInv'
  BY <1>0, <1>7, InvStart DEF StartDirectly
<1>8. ASSUME NEW r \in Runners, Crash(r) PROVE OpsInv'
  <2>1. StopRunner(r) /\ UNCHANGED <<configs, jobs, call, exposed>>
    BY <1>8 DEF Crash, StopRunner
  <2>2. /\ AdminLocks' /\ RunnerLocks' /\ CallsFit'
        /\ ReportIsLatest' /\ ReportsMeasured' /\ RetrievalUnchanged'
    BY <2>1, StopKeeps
  <2>3. JobsFit' /\ CompletedIsReported' /\ ChecksStand'
    BY <2>1, ChecksStay DEF OpsInv, JobsFit, CompletedIsReported
  <2>4. RunnersFit'
    BY <1>0, <2>1, StopFacts, OpsAssumption DEF OpsInv, TypeOK, RunnersFit
  <2> QED
    BY <1>0, <2>2, <2>3, <2>4 DEF OpsInv
<1>9. ASSUME NEW p \in Proposals, LoseLock(p) PROVE OpsInv'
  <2>1. /\ exposed' = exposed \cup {p}
        /\ UNCHANGED <<configs, jobs, call, runner>>
        /\ \A q \in Proposals \ {p} : lock'[q] = lock[q]
    BY <1>0, <1>9 DEF LoseLock, TypeOK
  <2>2. AdminLocks' /\ RunnerLocks'
    BY <2>1 DEF OpsInv, AdminLocks, RunnerLocks
  <2>3. JobsFit' /\ CallsFit' /\ RunnersFit'
    BY <2>1 DEF OpsInv, JobsFit, CallsFit, RunnersFit
  <2>4. ReportIsLatest' /\ CompletedIsReported' /\ ReportsMeasured' /\ RetrievalUnchanged'
    BY <2>1 DEF OpsInv, ReportIsLatest, CompletedIsReported, ReportsMeasured,
                RetrievalUnchanged
  <2>5. ChecksStand'
    BY <2>1, ChecksStay
  <2> QED
    BY <1>0, <2>2, <2>3, <2>4, <2>5 DEF OpsInv
<1>10. CASE UNCHANGED vars
  BY <1>1, <1>10
<1> QED
  BY <1>2, <1>3, <1>4, <1>5, <1>6, <1>7, <1>8, <1>9, <1>10, InvAdmin, InvRunner
     DEF Next, Receive

\* The inductive invariant of the experiments holds in every state.
THEOREM Inductive == Spec => []OpsInv
  BY InvInit, InvStep, PTL DEF Spec

-----------------------------------------------------------------------------
(* What follows.                                                           *)

\* Type correctness.
THEOREM TypeCorrect == Spec => []TypeOK
<1>1. OpsInv => TypeOK
  BY DEF OpsInv
<1> QED
  BY <1>1, Inductive, PTL

\* At most one experiment waits or runs for a sheltered proposal.
THEOREM OneAtATime == Spec => []OneExperiment
<1>1. ASSUME OpsInv PROVE OneExperiment
  <2> SUFFICES ASSUME NEW p \in Sheltered PROVE Cardinality(JobsOf(p)) <= 1
    BY DEF OneExperiment
  <2>1. \A j, k \in JobsOf(p) : j = k
    BY <1>1 DEF OpsInv, JobsFit, JobsOf
  <2>2. CASE JobsOf(p) = {}
    BY <2>2, FS_EmptySet
  <2>3. CASE JobsOf(p) # {}
    <3>1. PICK j \in JobsOf(p) : TRUE
      BY <2>3
    <3>2. JobsOf(p) = {j}
      BY <2>1, <3>1
    <3>3. Cardinality({j}) = 1
      BY FS_Singleton
    <3> QED
      BY <3>2, <3>3
  <2> QED
    BY <2>2, <2>3
<1> QED
  BY <1>1, Inductive, PTL

\* The report a decision rests on is that of the last job requested, for every
\* proposal whose lock never broke under its holder.
THEOREM LatestReport == Spec => []ReportIsLatest
<1>1. OpsInv => ReportIsLatest
  BY DEF OpsInv
<1> QED
  BY <1>1, Inductive, PTL

\* A completed job left a report.
THEOREM CompletedReport == Spec => []CompletedIsReported
<1>1. OpsInv => CompletedIsReported
  BY DEF OpsInv
<1> QED
  BY <1>1, Inductive, PTL

\* No chain of approvals and rollbacks changes the retrieval setting.
THEOREM RetrievalStays == Spec => []RetrievalUnchanged
<1>1. OpsInv => RetrievalUnchanged
  BY DEF OpsInv
<1> QED
  BY <1>1, Inductive, PTL

\* The evidence of an approval is never replaced.
THEOREM EvidenceStays == Spec => ApprovedReportStays
<1> DEFINE Step == \A p \in approved \ exposed : report'[p] = report[p]
<1>1. ASSUME OpsInv, [Next]_vars PROVE [Step]_vars
  <2>1. TypeOK
    BY <1>1 DEF OpsInv
  <2>2. ASSUME NEW a \in Admins, NEW j \in Jobs, Enqueue(a, j) PROVE Step
    <3>1. call[a].op = "insert" /\ report' = [report EXCEPT ![Target(a)] = NoReport]
      BY <2>2 DEF Enqueue, Insert
    <3>2. Target(a) \in Sheltered => Target(a) \notin approved
      BY <1>1, <3>1 DEF OpsInv, ChecksStand
    <3> QED
      BY <2>1, <3>1, <3>2 DEF TypeOK
  <2>3. ASSUME NEW r \in Runners, WriteReport(r) PROVE Step
    <3>1. running[r] \notin approved
      BY <2>3 DEF WriteReport
    <3>2. PICK new : report' = [report EXCEPT ![running[r]] = new]
      BY <2>3 DEF WriteReport
    <3> QED
      BY <2>1, <3>1, <3>2 DEF TypeOK
  <2>4. \/ \E a \in Admins, j \in Jobs : Enqueue(a, j)
        \/ \E r \in Runners : WriteReport(r)
        \/ UNCHANGED report
    BY <1>1 DEF Next, AdminStep, RunnerStep, Receive, Begin, CheckEnqueue, Approve,
                Rollback, RollbackToDefault, RecoverInterrupted, RecoverDispatch, Leave, Publish,
                Drop, Claim, StartDirectly, ReadBaseline, FailExperiment, Complete, Crash,
                LoseLock
  <2> QED
    BY <2>2, <2>3, <2>4
<1> QED
  BY <1>1, Inductive, PTL DEF Spec, ApprovedReportStays

\* A proposal is activated only while nobody evaluates it, and for the first time
\* only on a comparison with the configuration it replaces.
THEOREM ActivationIsEarned == Spec => ActivatedAfterEvaluation
<1> DEFINE Step ==
      pointer' # pointer /\ pointer' \in Sheltered =>
        /\ \A r \in Runners : running[r] # pointer'
        /\ pointer' \notin approved => report[pointer'].baseline = pointer
<1>1. ASSUME OpsInv, [Next]_vars PROVE [Step]_vars
  <2>1. TypeOK /\ AdminLocks /\ RunnerLocks
    BY <1>1 DEF OpsInv
  <2>2. ASSUME NEW a \in Admins, Approve(a) PROVE Step
    <3>1. pointer' = Target(a) /\ report[Target(a)].baseline = pointer
      BY <2>2 DEF Approve, Convincing
    <3> QED
      BY <2>1, <3>1, LockExcludes
  <2>3. ASSUME NEW a \in Admins, Rollback(a) PROVE Step
    <3>1. pointer' = Target(a) /\ Target(a) \in approved
      BY <2>3 DEF Rollback
    <3> QED
      BY <2>1, <3>1, LockExcludes
  <2>4. \/ \E a \in Admins : Approve(a) \/ Rollback(a)
        \/ pointer' \in {pointer, Default}
    BY <1>1 DEF Next, AdminStep, RunnerStep, Receive, Begin, CheckEnqueue, Enqueue, Insert,
                RollbackToDefault, RecoverInterrupted, RecoverDispatch, Leave, Publish,
                Drop, Claim, StartDirectly, ReadBaseline, WriteReport, FailExperiment,
                Complete, Crash, LoseLock
  <2> QED
    BY <2>2, <2>3, <2>4, OpsAssumption
<1> QED
  BY <1>1, Inductive, PTL DEF Spec, ActivatedAfterEvaluation

=============================================================================
