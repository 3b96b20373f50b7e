-------------------------- MODULE InvitationDrafts --------------------------
(***************************************************************************)
(* An invitation batch before it is sent: create_batch with its request    *)
(* id, the drafts that tabs and the model edit by revision, and the        *)
(* approval that freezes them (src/notification/invitations.py).           *)
(*                                                                         *)
(* A tab works on what it loaded; its request is a transaction whose plain *)
(* reads all see the snapshot of the first one (MySQL REPEATABLE READ),    *)
(* while locking reads and updates see the latest rows.                    *)
(***************************************************************************)
EXTENDS Naturals

CONSTANTS
    Drafts,
    Callers,        \* browser tabs, each with at most one request under way
    Texts,          \* non-blank subject and body
    Blank,          \* a draft nobody has written yet
    Fingerprints,   \* what create_batch may be asked for with the request id
    NoBatch,        \* the batch does not exist yet
    MaxRevision,    \* bound: revisions of a draft
    MaxRestarts     \* bound: restarts of the API process

ASSUME DraftsAssumption ==
    /\ Drafts # {}
    /\ Blank \notin Texts
    /\ NoBatch \notin Fingerprints
    /\ MaxRevision \in Nat \ {0} /\ MaxRestarts \in Nat

VARIABLES
    hash,           \* InvitationBatch.request_hash, NoBatch before the insert
    granted,        \* fingerprints some create_batch call was answered for (history)
    approved,       \* the batch has an approval_hash
    text, revision, \* InvitationDraft.subject and body, and .revision
    error,          \* drafts whose error_code is AI_DRAFT_FAILED
    failedAt,       \* the revision a draft's last failed generation was for (history)
    sent,           \* the text of each draft's delivery, Blank without delivery
    generating,     \* invitations._generating
    pc,             \* where each caller's request is
    draft,          \* the draft it is about
    expected, base, \* the revision and the text its tab shows
    new,            \* the text, or for create_batch the fingerprint, it writes
    sawApproved,    \* the batch's approval in its transaction's snapshot
    reviewed,       \* the revisions and texts a tab shows to the approver
    restarts

batchRow == <<hash, granted, approved>>
draftRows == <<text, revision, error, failedAt>>
request == <<draft, expected, base, new, sawApproved, reviewed>>
vars == <<batchRow, draftRows, sent, generating, pc, request, restarts>>

Stages == {"idle", "creating", "open", "generating", "saving", "savingGenerated",
           "reviewing"}
InGeneration == {"generating", "savingGenerated"}
View == [revision : Nat, text : Texts \cup {Blank}]

TypeOK ==
    /\ hash \in Fingerprints \cup {NoBatch}
    /\ granted \subseteq Fingerprints
    /\ approved \in BOOLEAN
    /\ text \in [Drafts -> Texts \cup {Blank}]
    /\ revision \in [Drafts -> Nat]
    /\ error \subseteq Drafts
    /\ failedAt \in [Drafts -> Nat]
    /\ sent \in [Drafts -> Texts \cup {Blank}]
    /\ generating \subseteq Drafts
    /\ pc \in [Callers -> Stages]
    /\ draft \in [Callers -> Drafts]
    /\ expected \in [Callers -> Nat]
    /\ base \in [Callers -> Texts \cup {Blank}]
    /\ new \in [Callers -> Texts \cup Fingerprints \cup {Blank}]
    /\ sawApproved \in [Callers -> BOOLEAN]
    /\ reviewed \in [Callers -> [Drafts -> View]]
    /\ restarts \in Nat

Nowhere == CHOOSE d \in Drafts : TRUE
NotShown == [revision |-> 0, text |-> Blank]
NothingReviewed == [d \in Drafts |-> NotShown]

Init ==
    /\ hash = NoBatch
    /\ granted = {}
    /\ approved = FALSE
    /\ text = [d \in Drafts |-> Blank]
    /\ revision = [d \in Drafts |-> 1]
    /\ error = {}
    /\ failedAt = [d \in Drafts |-> 0]
    /\ sent = [d \in Drafts |-> Blank]
    /\ generating = {}
    /\ pc = [u \in Callers |-> "idle"]
    /\ draft = [u \in Callers |-> Nowhere]
    /\ expected = [u \in Callers |-> 0]
    /\ base = [u \in Callers |-> Blank]
    /\ new = [u \in Callers |-> Blank]
    /\ sawApproved = [u \in Callers |-> FALSE]
    /\ reviewed = [u \in Callers |-> NothingReviewed]
    /\ restarts = 0

-----------------------------------------------------------------------------
(* Requests end: _generation's finally discards the draft.                  *)

EndRequest(u) ==
    /\ pc' = [pc EXCEPT ![u] = "idle"]
    /\ generating' = IF pc[u] \in InGeneration THEN generating \ {draft[u]} ELSE generating
    /\ draft' = [draft EXCEPT ![u] = Nowhere]
    /\ expected' = [expected EXCEPT ![u] = 0]
    /\ base' = [base EXCEPT ![u] = Blank]
    /\ new' = [new EXCEPT ![u] = Blank]
    /\ sawApproved' = [sawApproved EXCEPT ![u] = FALSE]
    /\ reviewed' = [reviewed EXCEPT ![u] = NothingReviewed]

GoOn(u, stage) == pc' = [pc EXCEPT ![u] = stage]

-----------------------------------------------------------------------------
(* create_batch: look the request id up, insert, converge on a collision.   *)

\* Wrong variant: whoever meets the batch gets it.
AnswerAnyone(f) == granted' = granted \cup {f}

\* The answer to a call that meets the batch of its request id.
AnswerExisting(f) == granted' = IF hash = f THEN granted \cup {f} ELSE granted

CreateLook(u, f) ==
    /\ pc[u] = "idle"
    /\ \/ /\ hash # NoBatch
          /\ AnswerExisting(f)
          /\ UNCHANGED <<pc, new>>
       \/ /\ hash = NoBatch
          /\ GoOn(u, "creating")
          /\ new' = [new EXCEPT ![u] = f]
          /\ UNCHANGED granted
    /\ UNCHANGED <<hash, approved, draftRows, sent, generating, draft, expected, base,
                   sawApproved, reviewed, restarts>>

CreateInsert(u) ==
    /\ pc[u] = "creating"
    /\ \/ /\ hash = NoBatch
          /\ hash' = new[u]
          /\ granted' = granted \cup {new[u]}
       \/ /\ hash # NoBatch
          /\ AnswerExisting(new[u])
          /\ UNCHANGED hash
    /\ EndRequest(u)
    /\ UNCHANGED <<approved, draftRows, sent, restarts>>

-----------------------------------------------------------------------------
(* Editing a draft.                                                         *)

\* The tab loads the draft.
Open(u, d) ==
    /\ pc[u] = "idle" /\ hash # NoBatch
    /\ draft' = [draft EXCEPT ![u] = d]
    /\ expected' = [expected EXCEPT ![u] = revision[d]]
    /\ base' = [base EXCEPT ![u] = text[d]]
    /\ GoOn(u, "open")
    /\ UNCHANGED <<batchRow, draftRows, sent, generating, new, sawApproved, reviewed,
                   restarts>>

Close(u) ==
    /\ pc[u] \in {"open", "reviewing"}
    /\ EndRequest(u)
    /\ UNCHANGED <<batchRow, draftRows, sent, restarts>>

Stale(u) == revision[draft[u]] # expected[u]

\* save_draft's first read of the draft: the snapshot of the transaction.  A
\* draft that has changed by now is refused under the batch's lock.
ReadToSave(u, x, stage) ==
    /\ revision[draft[u]] < MaxRevision
    /\ ~Stale(u)
    /\ sawApproved' = [sawApproved EXCEPT ![u] = approved]
    /\ new' = [new EXCEPT ![u] = x]
    /\ GoOn(u, stage)
    /\ UNCHANGED <<batchRow, draftRows, sent, generating, draft, expected, base, reviewed,
                   restarts>>

SaveRead(u, x) == pc[u] = "open" /\ ReadToSave(u, x, "saving")

\* Wrong variant: the update does not ask for the revision.
SaveBlindly(u) ==
    /\ pc[u] \in {"saving", "savingGenerated"}
    /\ ~sawApproved[u]
    /\ text' = [text EXCEPT ![draft[u]] = new[u]]
    /\ revision' = [revision EXCEPT ![draft[u]] = expected[u] + 1]
    /\ error' = error \ {draft[u]}
    /\ EndRequest(u)
    /\ UNCHANGED <<batchRow, failedAt, sent, restarts>>

\* The batch row is locked, but _editable looks at the snapshot; the update
\* asks for the expected revision in the latest row.
SaveCommit(u) ==
    /\ pc[u] \in {"saving", "savingGenerated"}
    /\ ~sawApproved[u] /\ ~Stale(u)
    /\ text' = [text EXCEPT ![draft[u]] = new[u]]
    /\ revision' = [revision EXCEPT ![draft[u]] = @ + 1]
    /\ error' = error \ {draft[u]}
    /\ EndRequest(u)
    /\ UNCHANGED <<batchRow, failedAt, sent, restarts>>

SaveConflict(u) ==
    /\ pc[u] \in {"saving", "savingGenerated"}
    /\ sawApproved[u] \/ Stale(u)
    /\ EndRequest(u)
    /\ UNCHANGED <<batchRow, draftRows, sent, restarts>>

-----------------------------------------------------------------------------
(* generate_draft: the model is called outside any transaction.             *)

\* Wrong variant: no DRAFT_BUSY.
GenerateTwice(u) ==
    /\ pc[u] = "open"
    /\ ~approved /\ ~Stale(u)
    /\ generating' = generating \cup {draft[u]}
    /\ GoOn(u, "generating")
    /\ UNCHANGED <<batchRow, draftRows, sent, request, restarts>>

GenerateStart(u) ==
    /\ pc[u] = "open"
    /\ draft[u] \notin generating
    /\ ~approved /\ ~Stale(u)
    /\ generating' = generating \cup {draft[u]}
    /\ GoOn(u, "generating")
    /\ UNCHANGED <<batchRow, draftRows, sent, request, restarts>>

\* The model answers; save_draft begins.
GenerateSave(u, x) == pc[u] = "generating" /\ ReadToSave(u, x, "savingGenerated")

GenerateLate(u) ==
    /\ pc[u] = "generating" /\ Stale(u)
    /\ EndRequest(u)
    /\ UNCHANGED <<batchRow, draftRows, sent, restarts>>

\* Wrong variant: the draft is flagged, whoever has saved it meanwhile.
GenerateFailBlindly(u) ==
    /\ pc[u] = "generating"
    /\ error' = error \cup {draft[u]}
    /\ failedAt' = [failedAt EXCEPT ![draft[u]] = expected[u]]
    /\ EndRequest(u)
    /\ UNCHANGED <<batchRow, text, revision, sent, restarts>>

\* The model fails or returns an invalid draft: flag the revision it was for.
GenerateFail(u) ==
    /\ pc[u] = "generating"
    /\ error' = IF Stale(u) THEN error ELSE error \cup {draft[u]}
    /\ failedAt' = [failedAt EXCEPT ![draft[u]] = expected[u]]
    /\ EndRequest(u)
    /\ UNCHANGED <<batchRow, text, revision, sent, restarts>>

-----------------------------------------------------------------------------
(* dispatch, as far as it concerns the drafts.                              *)

\* The approver's tab shows some drafts.
Review(u, S) ==
    /\ pc[u] = "idle" /\ hash # NoBatch
    /\ reviewed' = [reviewed EXCEPT ![u] =
            [d \in Drafts |-> IF d \in S THEN [revision |-> revision[d], text |-> text[d]]
                             ELSE NotShown]]
    /\ GoOn(u, "reviewing")
    /\ UNCHANGED <<batchRow, draftRows, sent, generating, draft, expected, base, new,
                   sawApproved, restarts>>

Selected(u) == {d \in Drafts : reviewed[u][d] # NotShown}

\* Wrong variant: whatever the drafts say now is approved.
DispatchLatest(u) ==
    /\ pc[u] = "reviewing"
    /\ ~approved
    /\ \A d \in Selected(u) : text[d] # Blank
    /\ approved' = TRUE
    /\ sent' = [d \in Drafts |-> IF d \in Selected(u) THEN text[d] ELSE sent[d]]
    /\ EndRequest(u)
    /\ UNCHANGED <<hash, granted, draftRows, restarts>>

\* Wrong variant: the delivery copies what the tab holds, revision and all.
DispatchView(u) ==
    /\ pc[u] = "reviewing"
    /\ ~approved
    /\ \A d \in Selected(u) : revision[d] = reviewed[u][d].revision /\ text[d] # Blank
    /\ approved' = TRUE
    /\ sent' = [d \in Drafts |-> IF d \in Selected(u) THEN reviewed[u][d] ELSE sent[d]]
    /\ EndRequest(u)
    /\ UNCHANGED <<hash, granted, draftRows, restarts>>

Dispatch(u) ==
    /\ pc[u] = "reviewing"
    /\ ~approved
    /\ \A d \in Selected(u) : revision[d] = reviewed[u][d].revision /\ text[d] # Blank
    /\ approved' = TRUE
    /\ sent' = [d \in Drafts |-> IF d \in Selected(u) THEN text[d] ELSE sent[d]]
    /\ EndRequest(u)
    /\ UNCHANGED <<hash, granted, draftRows, restarts>>

-----------------------------------------------------------------------------

\* The API process restarts: transactions and _generating are gone.
Restart ==
    /\ restarts < MaxRestarts
    /\ restarts' = restarts + 1
    /\ generating' = {}
    /\ pc' = [u \in Callers |-> "idle"]
    /\ draft' = [u \in Callers |-> Nowhere]
    /\ expected' = [u \in Callers |-> 0]
    /\ base' = [u \in Callers |-> Blank]
    /\ new' = [u \in Callers |-> Blank]
    /\ sawApproved' = [u \in Callers |-> FALSE]
    /\ reviewed' = [u \in Callers |-> NothingReviewed]
    /\ UNCHANGED <<batchRow, draftRows, sent>>

Next ==
    \/ \E u \in Callers, f \in Fingerprints : CreateLook(u, f)
    \/ \E u \in Callers, d \in Drafts : Open(u, d)
    \/ \E u \in Callers, x \in Texts : SaveRead(u, x) \/ GenerateSave(u, x)
    \/ \E u \in Callers, S \in (SUBSET Drafts) \ {{}} : Review(u, S)
    \/ \E u \in Callers :
        \/ CreateInsert(u) \/ Close(u)
        \/ SaveCommit(u) \/ SaveConflict(u)
        \/ GenerateStart(u) \/ GenerateLate(u) \/ GenerateFail(u)
        \/ Dispatch(u)
    \/ Restart

Spec == Init /\ [][Next]_vars

-----------------------------------------------------------------------------
(* Properties.                                                             *)

\* A text is overwritten only by somebody whose tab shows it, be it another
\* tab's or the model's text (the revision check of save_draft).
NoLostUpdate ==
    [][\A d \in Drafts : text'[d] # text[d] =>
        \E u \in Callers : /\ pc[u] \in {"saving", "savingGenerated"}
                           /\ draft[u] = d /\ base[u] = text[d]]_vars

\* What is approved for sending is what the approver's tab showed, although
\* dispatch is told revisions only.
ApprovedAsReviewed ==
    [][\A d \in Drafts : sent'[d] # sent[d] =>
        \E u \in Callers : /\ pc[u] = "reviewing"
                           /\ d \in Selected(u) /\ reviewed[u][d].text = sent'[d]]_vars

\* AI_DRAFT_FAILED is shown only for the revision whose generation failed, not
\* for a text somebody saved meanwhile.
ErrorIsCurrent == \A d \in error : failedAt[d] = revision[d]

\* One request id, one batch: everybody who got an answer asked for its content.
RequestsConverge == granted \subseteq {hash}

\* A draft is busy exactly while one call generates it; no exception, conflict
\* or restart leaves it busy.
BusyWhileGenerating ==
    /\ \A u, v \in Callers :
        pc[u] \in InGeneration /\ pc[v] \in InGeneration /\ draft[u] = draft[v] => u = v
    /\ generating = {draft[u] : u \in {v \in Callers : pc[v] \in InGeneration}}

\* docs/api/emails.md: once a batch is approved the API refuses to change its
\* drafts (_editable in save_draft).
FrozenAfterApproval ==
    [][approved => UNCHANGED <<text, revision>>]_vars

-----------------------------------------------------------------------------
(* Why the properties hold: what a tab shows is true of the revision it     *)
(* shows, and revisions only grow.                                         *)

Editing == {"open", "generating", "saving", "savingGenerated"}

\* A request writes what its stage writes.
NewFits ==
    \A u \in Callers :
        /\ pc[u] = "creating" => new[u] \in Fingerprints
        /\ pc[u] \in {"saving", "savingGenerated"} => new[u] \in Texts

\* A tab that edits a draft shows the latest text, or an older revision.
CopiesHonest ==
    \A u \in Callers : pc[u] \in Editing =>
        /\ expected[u] <= revision[draft[u]]
        /\ ~Stale(u) => base[u] = text[draft[u]]

\* So does the tab of an approver.
ViewsHonest ==
    \A u \in Callers : \A d \in Selected(u) :
        /\ reviewed[u][d].revision <= revision[d]
        /\ reviewed[u][d].revision = revision[d] => reviewed[u][d].text = text[d]

\* A draft that has failed and is generated again has not been saved since.
RepeatsCurrent ==
    \A u \in Callers : pc[u] \in InGeneration /\ draft[u] \in error => ~Stale(u)

DraftsInv ==
    /\ TypeOK /\ NewFits
    /\ CopiesHonest /\ ViewsHonest
    /\ RepeatsCurrent /\ ErrorIsCurrent
    /\ RequestsConverge /\ BusyWhileGenerating

=============================================================================
