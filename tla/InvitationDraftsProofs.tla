----------------------- MODULE InvitationDraftsProofs -----------------------
(***************************************************************************)
(* Theorems about invitation drafts, for every set of drafts, tabs, texts  *)
(* and fingerprints and for every bound.                                   *)
(***************************************************************************)
EXTENDS InvitationDrafts, TLAPS

USE DEF batchRow, draftRows, request, vars

-----------------------------------------------------------------------------
(* Types.                                                                  *)

\* What an idle tab holds has its type.
LEMMA IdleTypes == Nowhere \in Drafts /\ NothingReviewed \in [Drafts -> View]
<1>1. Nowhere \in Drafts
  BY DraftsAssumption DEF Nowhere
<1>2. NotShown \in View
  BY DEF NotShown, View
<1> QED
  BY <1>1, <1>2 DEF NothingReviewed

\* Initially every variable has its type.
LEMMA TypeInit == ASSUME Init PROVE TypeOK
  BY IdleTypes DEF Init, TypeOK, Stages

\* A request that ends leaves its tab with values of their types.
LEMMA TypeEnd ==
  ASSUME TypeOK, NEW u \in Callers, EndRequest(u)
  PROVE  /\ pc' \in [Callers -> Stages] /\ generating' \subseteq Drafts
         /\ draft' \in [Callers -> Drafts] /\ expected' \in [Callers -> Nat]
         /\ base' \in [Callers -> Texts \cup {Blank}]
         /\ new' \in [Callers -> Texts \cup Fingerprints \cup {Blank}]
         /\ sawApproved' \in [Callers -> BOOLEAN]
         /\ reviewed' \in [Callers -> [Drafts -> View]]
  BY IdleTypes DEF EndRequest, TypeOK, Stages

\* Every step keeps the types, and requests write what their stage writes.
LEMMA TypeStep ==
  ASSUME TypeOK, NewFits, [Next]_vars PROVE TypeOK'
<1> USE DEF TypeOK, Stages, GoOn
<1>1. ASSUME NEW u \in Callers, NEW f \in Fingerprints, CreateLook(u, f)
      PROVE  TypeOK'
  BY SMTT(30), <1>1 DEF CreateLook, AnswerExisting
<1>2. ASSUME NEW u \in Callers, CreateInsert(u)
      PROVE  TypeOK'
  BY <1>2, TypeEnd DEF CreateInsert, AnswerExisting, NewFits
<1>3. ASSUME NEW u \in Callers, NEW d \in Drafts, Open(u, d)
      PROVE  TypeOK'
  BY <1>3 DEF Open
<1>4. ASSUME NEW u \in Callers, Close(u)
      PROVE  TypeOK'
  BY <1>4, TypeEnd DEF Close
<1>5. ASSUME NEW u \in Callers, NEW x \in Texts, SaveRead(u, x) \/ GenerateSave(u, x)
      PROVE  TypeOK'
  <2>1. CASE SaveRead(u, x)
    BY <2>1 DEF SaveRead, ReadToSave
  <2>2. CASE GenerateSave(u, x)
    BY <2>2 DEF GenerateSave, ReadToSave
  <2> QED
    BY <1>5, <2>1, <2>2
<1>6. ASSUME NEW u \in Callers, SaveCommit(u)
      PROVE  TypeOK'
  BY <1>6, TypeEnd DEF SaveCommit, NewFits
<1>7. ASSUME NEW u \in Callers, SaveConflict(u)
      PROVE  TypeOK'
  BY <1>7, TypeEnd DEF SaveConflict
<1>8. ASSUME NEW u \in Callers, GenerateStart(u)
      PROVE  TypeOK'
  BY <1>8 DEF GenerateStart
<1>9. ASSUME NEW u \in Callers, GenerateLate(u)
      PROVE  TypeOK'
  BY <1>9, TypeEnd DEF GenerateLate
<1>10. ASSUME NEW u \in Callers, GenerateFail(u)
      PROVE  TypeOK'
  BY <1>10, TypeEnd DEF GenerateFail
<1>11. ASSUME NEW u \in Callers, NEW S \in SUBSET Drafts, Review(u, S)
      PROVE  TypeOK'
  <2>1. NotShown \in View
    BY DEF NotShown, View
  <2>2. \A d \in Drafts : [revision |-> revision[d], text |-> text[d]] \in View
    BY DEF View
  <2> QED
    BY <1>11, <2>1, <2>2 DEF Review
<1>12. ASSUME NEW u \in Callers, Dispatch(u)
      PROVE  TypeOK'
  BY <1>12, TypeEnd DEF Dispatch
<1>13. ASSUME Restart
      PROVE  TypeOK'
  BY <1>13, IdleTypes DEF Restart
<1>14. CASE UNCHANGED vars
  BY <1>14
<1> HIDE DEF TypeOK, Stages, GoOn
<1> QED
  BY <1>1, <1>2, <1>3, <1>4, <1>5, <1>6, <1>7, <1>8, <1>9, <1>10, <1>11, <1>12,
     <1>13, <1>14 DEF Next

-----------------------------------------------------------------------------
(* The inductive invariant.                                                *)

\* A request that ends is idle and shows nothing; the others go on as they were.
LEMMA EndFacts ==
  ASSUME TypeOK, NEW u \in Callers, EndRequest(u)
  PROVE  /\ pc'[u] = "idle" /\ reviewed'[u] = NothingReviewed
         /\ \A v \in Callers \ {u} :
                /\ pc'[v] = pc[v] /\ draft'[v] = draft[v] /\ expected'[v] = expected[v]
                /\ base'[v] = base[v] /\ new'[v] = new[v] /\ reviewed'[v] = reviewed[v]
  BY DEF EndRequest, TypeOK

\* The end of a request frees its draft and disturbs no other claim about tabs.
LEMMA EndBusy ==
  ASSUME TypeOK, BusyWhileGenerating, NEW u \in Callers, EndRequest(u)
  PROVE  BusyWhileGenerating'
<1> DEFINE In == {v \in Callers : pc[v] \in InGeneration}
<1>1. In' = In \ {u}
  BY EndFacts DEF InGeneration
<1>2. \A v \in In' : draft'[v] = draft[v] /\ pc'[v] = pc[v]
  BY <1>1, EndFacts
<1>3. generating' = IF u \in In THEN generating \ {draft[u]} ELSE generating
  BY DEF EndRequest
<1>4. \A v, w \in In : draft[v] = draft[w] => v = w
  BY DEF BusyWhileGenerating
<1>5. generating = {draft[v] : v \in In}
  BY DEF BusyWhileGenerating
<1> HIDE DEF In
<1>6. generating' = {draft'[v] : v \in In'}
  BY <1>1, <1>2, <1>3, <1>4, <1>5
<1>7. \A v, w \in In' : draft'[v] = draft'[w] => v = w
  BY <1>1, <1>2, <1>4
<1> QED
  BY <1>6, <1>7 DEF BusyWhileGenerating, In

\* The invariant holds initially.
LEMMA InvInit == ASSUME Init PROVE DraftsInv
<1>1. TypeOK
  BY TypeInit
<1>2. NewFits /\ CopiesHonest /\ ViewsHonest /\ RepeatsCurrent /\ ErrorIsCurrent
  BY DEF Init, NewFits, CopiesHonest, ViewsHonest, RepeatsCurrent, ErrorIsCurrent,
         Editing, InGeneration, Selected, NothingReviewed
<1>3. RequestsConverge /\ BusyWhileGenerating
  BY DEF Init, RequestsConverge, BusyWhileGenerating, InGeneration
<1> QED
  BY <1>1, <1>2, <1>3 DEF DraftsInv

\* Every step keeps it.
LEMMA InvStep == ASSUME DraftsInv, [Next]_vars PROVE DraftsInv'
<1> USE DEF GoOn, Editing, InGeneration, Selected
<1>0. TypeOK /\ TypeOK'
  BY TypeStep DEF DraftsInv
<1>1. ASSUME NEW u \in Callers, NEW f \in Fingerprints, CreateLook(u, f)
      PROVE  DraftsInv'
  <2>1. NewFits' /\ CopiesHonest' /\ RepeatsCurrent'
    BY ZenonT(30), <1>0, <1>1 DEF DraftsInv, TypeOK, CreateLook, NewFits, CopiesHonest,
                      RepeatsCurrent, Stale
  <2>4. BusyWhileGenerating'
    <3>1. /\ UNCHANGED <<draft, generating>>
          /\ \A v \in Callers : pc'[v] \in InGeneration <=> pc[v] \in InGeneration
      BY <1>0, <1>1 DEF TypeOK, CreateLook
    <3> HIDE DEF InGeneration
    <3> QED
      BY <1>0, <3>1 DEF DraftsInv, BusyWhileGenerating
  <2>2. RequestsConverge'
    BY <1>0, <1>1 DEF DraftsInv, CreateLook, AnswerExisting, RequestsConverge
  <2>3. ViewsHonest' /\ ErrorIsCurrent'
    BY <1>1 DEF DraftsInv, CreateLook, ViewsHonest, ErrorIsCurrent
  <2> QED
    BY <1>0, <2>1, <2>2, <2>3, <2>4 DEF DraftsInv
<1>2. ASSUME NEW u \in Callers, CreateInsert(u)
      PROVE  DraftsInv'
  <2>1. EndRequest(u)
    BY <1>2 DEF CreateInsert
  <2>2. RequestsConverge'
    BY <1>0, <1>2, DraftsAssumption
       DEF DraftsInv, TypeOK, CreateInsert, AnswerExisting, RequestsConverge
  <2>3. BusyWhileGenerating'
    BY <1>0, <2>1, EndBusy DEF DraftsInv
  <2>4. NewFits' /\ CopiesHonest' /\ RepeatsCurrent'
    BY <1>0, <1>2, <2>1, EndFacts
       DEF DraftsInv, CreateInsert, NewFits, CopiesHonest, RepeatsCurrent, Stale
  <2>5. ViewsHonest' /\ ErrorIsCurrent'
    BY <1>0, <1>2, <2>1, EndFacts
       DEF DraftsInv, CreateInsert, ViewsHonest, ErrorIsCurrent, NothingReviewed
  <2> QED
    BY <1>0, <2>2, <2>3, <2>4, <2>5 DEF DraftsInv
<1>3. ASSUME NEW u \in Callers, NEW d \in Drafts, Open(u, d)
      PROVE  DraftsInv'
  <2>1. NewFits' /\ CopiesHonest' /\ RepeatsCurrent'
    BY <1>0, <1>3 DEF DraftsInv, TypeOK, Open, NewFits, CopiesHonest, RepeatsCurrent,
                      Stale
  <2>2. BusyWhileGenerating'
    BY <1>0, <1>3 DEF DraftsInv, TypeOK, Open, BusyWhileGenerating
  <2>3. ViewsHonest' /\ ErrorIsCurrent' /\ RequestsConverge'
    BY <1>3 DEF DraftsInv, Open, ViewsHonest, ErrorIsCurrent, RequestsConverge
  <2> QED
    BY <1>0, <2>1, <2>2, <2>3 DEF DraftsInv
<1>4. ASSUME NEW u \in Callers, EndRequest(u), UNCHANGED <<batchRow, draftRows>>
      PROVE  DraftsInv'
  <2>1. BusyWhileGenerating'
    BY <1>0, <1>4, EndBusy DEF DraftsInv
  <2>2. NewFits' /\ CopiesHonest' /\ RepeatsCurrent'
    BY <1>0, <1>4, EndFacts DEF DraftsInv, NewFits, CopiesHonest, RepeatsCurrent, Stale
  <2>3. ViewsHonest' /\ ErrorIsCurrent' /\ RequestsConverge'
    BY <1>0, <1>4, EndFacts
       DEF DraftsInv, ViewsHonest, ErrorIsCurrent, RequestsConverge, NothingReviewed
  <2> QED
    BY <1>0, <2>1, <2>2, <2>3 DEF DraftsInv
<1>5. ASSUME NEW u \in Callers, NEW x \in Texts, NEW stage \in {"saving", "savingGenerated"},
             ReadToSave(u, x, stage), pc[u] \in {"open", "generating"},
             pc[u] = "generating" <=> stage = "savingGenerated"
      PROVE  DraftsInv'
  <2>1. NewFits' /\ CopiesHonest' /\ RepeatsCurrent'
    BY <1>0, <1>5 DEF DraftsInv, TypeOK, ReadToSave, NewFits, CopiesHonest,
                      RepeatsCurrent, Stale
  <2>2. BusyWhileGenerating'
    BY <1>0, <1>5 DEF DraftsInv, TypeOK, ReadToSave, BusyWhileGenerating
  <2>3. ViewsHonest' /\ ErrorIsCurrent' /\ RequestsConverge'
    BY <1>5 DEF DraftsInv, ReadToSave, ViewsHonest, ErrorIsCurrent, RequestsConverge
  <2> QED
    BY <1>0, <2>1, <2>2, <2>3 DEF DraftsInv
<1>6. ASSUME NEW u \in Callers, SaveCommit(u)
      PROVE  DraftsInv'
  <2>1. EndRequest(u) /\ UNCHANGED batchRow
    BY <1>6 DEF SaveCommit
  <2>2. draft[u] \in Drafts /\ revision'[draft[u]] = revision[draft[u]] + 1
    BY <1>0, <1>6 DEF SaveCommit, TypeOK
  <2>3. \A d \in Drafts \ {draft[u]} : text'[d] = text[d] /\ revision'[d] = revision[d]
    BY <1>0, <1>6 DEF SaveCommit, TypeOK
  <2>4. BusyWhileGenerating'
    BY <1>0, <2>1, EndBusy DEF DraftsInv
  <2>5. NewFits' /\ RequestsConverge'
    BY <1>0, <2>1, EndFacts DEF DraftsInv, NewFits, RequestsConverge
  <2>6. CopiesHonest'
    <3> SUFFICES ASSUME NEW v \in Callers, pc'[v] \in Editing
                 PROVE  /\ expected'[v] <= revision'[draft'[v]]
                        /\ ~Stale(v)' => base'[v] = text'[draft'[v]]
      BY DEF CopiesHonest
    <3>1. v \in Callers \ {u}
      BY <1>0, <2>1, EndFacts
    <3>2. /\ pc[v] \in Editing /\ draft[v] \in Drafts /\ expected[v] \in Nat
          /\ revision[draft[v]] \in Nat /\ draft'[v] = draft[v]
          /\ expected'[v] = expected[v] /\ base'[v] = base[v]
      BY <1>0, <2>1, <3>1, EndFacts DEF TypeOK
    <3>3. expected[v] <= revision[draft[v]] /\ (~Stale(v) => base[v] = text[draft[v]])
      BY <3>2 DEF DraftsInv, CopiesHonest
    <3> QED
      BY <2>2, <2>3, <3>2, <3>3 DEF Stale
  <2>7. ViewsHonest'
    <3> SUFFICES ASSUME NEW v \in Callers, NEW d \in Selected(v)'
                 PROVE  /\ reviewed'[v][d].revision <= revision'[d]
                        /\ reviewed'[v][d].revision = revision'[d]
                                => reviewed'[v][d].text = text'[d]
      BY DEF ViewsHonest
    <3>1. v \in Callers \ {u}
      BY <1>0, <2>1, EndFacts DEF NothingReviewed
    <3>2. d \in Selected(v) /\ reviewed'[v] = reviewed[v]
      BY <1>0, <2>1, <3>1, EndFacts
    <3>3. /\ reviewed[v][d].revision <= revision[d]
          /\ reviewed[v][d].revision = revision[d] => reviewed[v][d].text = text[d]
      BY <3>2 DEF DraftsInv, ViewsHonest
    <3>4. d \in Drafts /\ revision[d] \in Nat /\ reviewed[v][d].revision \in Nat
      BY <1>0, <3>2 DEF TypeOK, View
    <3> QED
      BY <2>2, <2>3, <3>2, <3>3, <3>4
  <2>8. RepeatsCurrent' /\ ErrorIsCurrent'
    BY SMTT(30), <1>0, <1>6, <2>1, <2>3, EndFacts
       DEF DraftsInv, TypeOK, SaveCommit, RepeatsCurrent, ErrorIsCurrent, Stale
  <2> QED
    BY <1>0, <2>4, <2>5, <2>6, <2>7, <2>8 DEF DraftsInv
<1>7. ASSUME NEW u \in Callers, GenerateStart(u)
      PROVE  DraftsInv'
  <2>1. NewFits' /\ CopiesHonest' /\ RepeatsCurrent'
    BY <1>0, <1>7 DEF DraftsInv, TypeOK, GenerateStart, NewFits, CopiesHonest,
                      RepeatsCurrent, Stale
  <2>2. BusyWhileGenerating'
    BY <1>0, <1>7 DEF DraftsInv, TypeOK, GenerateStart, BusyWhileGenerating
  <2>3. ViewsHonest' /\ ErrorIsCurrent' /\ RequestsConverge'
    BY <1>7 DEF DraftsInv, GenerateStart, ViewsHonest, ErrorIsCurrent, RequestsConverge
  <2> QED
    BY <1>0, <2>1, <2>2, <2>3 DEF DraftsInv
<1>8. ASSUME NEW u \in Callers, GenerateFail(u)
      PROVE  DraftsInv'
  <2>1. EndRequest(u) /\ UNCHANGED <<batchRow, text, revision>>
    BY <1>8 DEF GenerateFail
  <2>2. BusyWhileGenerating'
    BY <1>0, <2>1, EndBusy DEF DraftsInv
  <2>3. NewFits' /\ CopiesHonest' /\ ViewsHonest' /\ RequestsConverge'
    BY <1>0, <2>1, EndFacts DEF DraftsInv, NewFits, CopiesHonest, ViewsHonest,
                                RequestsConverge, NothingReviewed, Stale
  <2>4. ErrorIsCurrent'
    BY <1>0, <1>8 DEF DraftsInv, TypeOK, GenerateFail, RepeatsCurrent, ErrorIsCurrent,
                      Stale
  <2>5. \A v \in Callers \ {u} : pc[v] \in InGeneration => draft[v] # draft[u]
    <3>1. \A v, w \in Callers :
            pc[v] \in InGeneration /\ pc[w] \in InGeneration /\ draft[v] = draft[w] => v = w
      BY DEF DraftsInv, BusyWhileGenerating
    <3>2. pc[u] \in InGeneration
      BY <1>8 DEF GenerateFail
    <3> QED
      BY <1>8, <3>1, <3>2
  <2>6. RepeatsCurrent'
    <3> SUFFICES ASSUME NEW v \in Callers, pc'[v] \in InGeneration, draft'[v] \in error'
                 PROVE  ~Stale(v)'
      BY DEF RepeatsCurrent
    <3>1. v \in Callers \ {u}
      BY <1>0, <2>1, EndFacts
    <3>2. /\ pc[v] \in InGeneration /\ draft'[v] = draft[v] /\ expected'[v] = expected[v]
      BY <1>0, <2>1, <3>1, EndFacts
    <3>3. draft[v] # draft[u]
      BY <2>5, <3>1, <3>2
    <3>4. draft[v] \in error
      BY <1>8, <3>2, <3>3 DEF GenerateFail
    <3> QED
      BY <2>1, <3>2, <3>4 DEF DraftsInv, RepeatsCurrent, Stale
  <2> QED
    BY <1>0, <2>2, <2>3, <2>4, <2>6 DEF DraftsInv
<1>9. ASSUME NEW u \in Callers, NEW S \in SUBSET Drafts, Review(u, S)
      PROVE  DraftsInv'
  <2>1. NewFits' /\ CopiesHonest' /\ RepeatsCurrent'
    BY <1>0, <1>9 DEF DraftsInv, TypeOK, Review, NewFits, CopiesHonest,
                      RepeatsCurrent, Stale
  <2>2. BusyWhileGenerating'
    BY SMTT(30), <1>0, <1>9 DEF DraftsInv, TypeOK, Review, BusyWhileGenerating
  <2>3. ErrorIsCurrent' /\ RequestsConverge'
    BY <1>9 DEF DraftsInv, Review, ErrorIsCurrent, RequestsConverge
  <2>4. ViewsHonest'
    BY <1>0, <1>9 DEF DraftsInv, TypeOK, View, NotShown, Review, ViewsHonest
  <2> QED
    BY <1>0, <2>1, <2>2, <2>3, <2>4 DEF DraftsInv
<1>10. ASSUME NEW u \in Callers, Dispatch(u)
       PROVE  DraftsInv'
  <2>1. EndRequest(u) /\ UNCHANGED <<hash, granted, draftRows>>
    BY <1>10 DEF Dispatch
  <2>2. BusyWhileGenerating'
    BY <1>0, <2>1, EndBusy DEF DraftsInv
  <2>3. NewFits' /\ CopiesHonest' /\ RepeatsCurrent'
    BY <1>0, <2>1, EndFacts DEF DraftsInv, NewFits, CopiesHonest, RepeatsCurrent, Stale
  <2>4. ViewsHonest' /\ ErrorIsCurrent' /\ RequestsConverge'
    BY <1>0, <2>1, EndFacts
       DEF DraftsInv, ViewsHonest, ErrorIsCurrent, RequestsConverge, NothingReviewed
  <2> QED
    BY <1>0, <2>2, <2>3, <2>4 DEF DraftsInv
<1>11. ASSUME Restart
       PROVE  DraftsInv'
  <2>1. /\ \A u \in Callers : pc'[u] = "idle" /\ reviewed'[u] = NothingReviewed
        /\ generating' = {} /\ UNCHANGED <<batchRow, draftRows>>
    BY <1>11 DEF Restart
  <2>2. NewFits' /\ CopiesHonest' /\ RepeatsCurrent' /\ BusyWhileGenerating'
    BY <2>1 DEF NewFits, CopiesHonest, RepeatsCurrent, BusyWhileGenerating
  <2>3. ViewsHonest' /\ ErrorIsCurrent' /\ RequestsConverge'
    BY <2>1 DEF DraftsInv, ViewsHonest, ErrorIsCurrent, RequestsConverge, NothingReviewed
  <2> QED
    BY <1>0, <2>2, <2>3 DEF DraftsInv
<1>12. CASE UNCHANGED vars
  BY <1>0, <1>12 DEF DraftsInv, NewFits, CopiesHonest, ViewsHonest, RepeatsCurrent,
                     ErrorIsCurrent, RequestsConverge, BusyWhileGenerating, Stale
<1>13. ASSUME NEW u \in Callers,
              Close(u) \/ SaveConflict(u) \/ GenerateLate(u)
       PROVE  DraftsInv'
  BY <1>4, <1>13 DEF Close, SaveConflict, GenerateLate
<1>14. ASSUME NEW u \in Callers, NEW x \in Texts, SaveRead(u, x) \/ GenerateSave(u, x)
       PROVE  DraftsInv'
  <2>1. CASE SaveRead(u, x)
    BY <1>5, <2>1 DEF SaveRead
  <2>2. CASE GenerateSave(u, x)
    BY <1>5, <2>2 DEF GenerateSave
  <2> QED
    BY <1>14, <2>1, <2>2
<1> HIDE DEF GoOn, Editing, InGeneration, Selected
<1> QED
  BY <1>1, <1>2, <1>3, <1>6, <1>7, <1>8, <1>9, <1>10, <1>11, <1>12, <1>13, <1>14
     DEF Next

\* The inductive invariant of the drafts holds in every state.
THEOREM Inductive == Spec => []DraftsInv
  BY InvInit, InvStep, PTL DEF Spec

-----------------------------------------------------------------------------
(* What follows.                                                           *)

\* Type correctness.
THEOREM TypeCorrect == Spec => []TypeOK
<1>1. DraftsInv => TypeOK
  BY DEF DraftsInv
<1> QED
  BY <1>1, Inductive, PTL

\* One request id, one batch: whoever got an answer asked for its content.
THEOREM OneBatchPerRequest == Spec => []RequestsConverge
<1>1. DraftsInv => RequestsConverge
  BY DEF DraftsInv
<1> QED
  BY <1>1, Inductive, PTL

\* A draft is busy exactly while one call generates it.
THEOREM BusyIsExact == Spec => []BusyWhileGenerating
<1>1. DraftsInv => BusyWhileGenerating
  BY DEF DraftsInv
<1> QED
  BY <1>1, Inductive, PTL

\* AI_DRAFT_FAILED belongs to the revision that is shown.
THEOREM ErrorsAreCurrent == Spec => []ErrorIsCurrent
<1>1. DraftsInv => ErrorIsCurrent
  BY DEF DraftsInv
<1> QED
  BY <1>1, Inductive, PTL

\* Nobody overwrites a text that his tab does not show.
THEOREM NothingOverwritten == Spec => NoLostUpdate
<1> DEFINE Step ==
      \A d \in Drafts : text'[d] # text[d] =>
        \E u \in Callers : /\ pc[u] \in {"saving", "savingGenerated"}
                           /\ draft[u] = d /\ base[u] = text[d]
<1>1. ASSUME DraftsInv, [Next]_vars PROVE [Step]_vars
  <2>1. ASSUME NEW u \in Callers, SaveCommit(u) PROVE Step
    <3>1. pc[u] \in {"saving", "savingGenerated"} /\ base[u] = text[draft[u]]
      BY <1>1, <2>1 DEF SaveCommit, DraftsInv, CopiesHonest, Editing
    <3>2. \A d \in Drafts \ {draft[u]} : text'[d] = text[d]
      BY <1>1, <2>1 DEF SaveCommit, DraftsInv, TypeOK
    <3> QED
      BY <3>1, <3>2
  <2>2. CASE UNCHANGED text
    BY <2>2
  <2>3. \/ \E u \in Callers : SaveCommit(u)
        \/ UNCHANGED text
    BY <1>1 DEF Next, CreateLook, CreateInsert, Open, Close, SaveRead, GenerateSave,
                ReadToSave, SaveConflict, GenerateStart, GenerateLate, GenerateFail,
                Review, Dispatch, Restart
  <2> QED
    BY <2>1, <2>2, <2>3
<1> QED
  BY <1>1, Inductive, PTL DEF Spec, NoLostUpdate

\* What is frozen for sending is what the approver's tab showed.
THEOREM SentAsReviewed == Spec => ApprovedAsReviewed
<1> DEFINE Step ==
      \A d \in Drafts : sent'[d] # sent[d] =>
        \E u \in Callers : /\ pc[u] = "reviewing"
                           /\ d \in Selected(u) /\ reviewed[u][d].text = sent'[d]
<1>1. ASSUME DraftsInv, [Next]_vars PROVE [Step]_vars
  <2>1. ASSUME NEW u \in Callers, Dispatch(u) PROVE Step
    <3>1. \A d \in Selected(u) : sent'[d] = text[d] /\ reviewed[u][d].text = text[d]
      BY <1>1, <2>1 DEF Dispatch, DraftsInv, ViewsHonest, Selected
    <3>2. \A d \in Drafts \ Selected(u) : sent'[d] = sent[d]
      BY <2>1 DEF Dispatch
    <3> QED
      BY <2>1, <3>1, <3>2 DEF Dispatch
  <2>2. CASE UNCHANGED sent
    BY <2>2
  <2>3. \/ \E u \in Callers : Dispatch(u)
        \/ UNCHANGED sent
    BY <1>1 DEF Next, CreateLook, CreateInsert, Open, Close, SaveRead, GenerateSave,
                ReadToSave, SaveCommit, SaveConflict, GenerateStart, GenerateLate,
                GenerateFail, Review, Restart
  <2> QED
    BY <2>1, <2>2, <2>3
<1> QED
  BY <1>1, Inductive, PTL DEF Spec, ApprovedAsReviewed

=============================================================================
