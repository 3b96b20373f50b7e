---------------------------- MODULE InterviewSets ----------------------------
(***************************************************************************)
(* The interview questions of one candidate: src/interview/service.py (the *)
(* API), question_generator.py and src/interfaces/interview_interface.py   *)
(* (the Streamlit page and the agent's tool).                              *)
(*                                                                         *)
(* The API and the page are two processes, each with its own lock for the  *)
(* candidate (KeyedLocks implements TryLock).  What both respect is MySQL: *)
(* the API's save locks the candidate's row, which keeps INSERTs of        *)
(* questions out, though not the page's DELETE.  A set is known by its     *)
(* revision; 0 is that of the empty set.                                   *)
(***************************************************************************)
EXTENDS Integers

CONSTANTS
    Requesters,     \* request threads, each of one user
    Nobody,
    Api, Page,      \* the two processes that generate questions
    MaxSets         \* bound: sets ever saved

ASSUME SetsAssumption == Nobody \notin Requesters /\ MaxSets \in Nat

Processes == {Api, Page}

VARIABLES
    holder,     \* who has the candidate's lock in each process
    items,      \* the stored set
    lastSet,    \* auto-increment: the newest set
    rowLock,    \* who has SELECTed the candidate FOR UPDATE
    signedIn,   \* callers whose session is valid and an administrator's
    shownSet,   \* the set each caller's tab shows, whose revision its requests name
    task        \* the request each caller makes, and how far it is

Lock == INSTANCE TryLock
        WITH Callers <- Requesters, Keys <- Processes, NoCaller <- Nobody

setVars == <<holder, items, lastSet, rowLock, signedIn, shownSet, task>>

QuestionOps == {"generate", "delete", "legacyGenerate", "legacyDelete"}
QuestionStages == {"entered", "attempt1", "attempt2", "answered", "checked", "locked"}
NoTask == [stage |-> "none"]
Task == [stage : QuestionStages, op : QuestionOps, home : Processes,
         replace : BOOLEAN,     \* the request says that a stored set may be replaced
         vouched : BOOLEAN]     \* the session was valid when the model answered (history)

SetsTypeOK ==
    /\ Lock!LockTypeOK
    /\ items \in Nat /\ lastSet \in Nat
    /\ rowLock \in Requesters \cup {Nobody}
    /\ signedIn \subseteq Requesters
    /\ shownSet \in [Requesters -> Nat]
    /\ task \in [Requesters -> Task \cup {NoTask}]

SetsInit ==
    /\ Lock!LockInit
    /\ items = 0 /\ lastSet = 0
    /\ rowLock = Nobody
    /\ signedIn = {}
    /\ shownSet = [c \in Requesters |-> 0]
    /\ task = [c \in Requesters |-> NoTask]

AtStage(c, s) == task[c].stage = s
Serving(c, s, o) == AtStage(c, s) /\ task[c].op = o
Advance(c, s) == task' = [task EXCEPT ![c].stage = s]

SignIn(c) ==
    /\ task[c] = NoTask
    /\ signedIn' = signedIn \cup {c}
    /\ UNCHANGED <<holder, items, lastSet, rowLock, shownSet, task>>

\* Logout, expiry or deactivation: at any time.
SignOut(c) ==
    /\ signedIn' = signedIn \ {c}
    /\ UNCHANGED <<holder, items, lastSet, rowLock, shownSet, task>>

\* get_questions
ReadSet(c) ==
    /\ c \in signedIn /\ task[c] = NoTask
    /\ shownSet' = [shownSet EXCEPT ![c] = items]
    /\ UNCHANGED <<holder, items, lastSet, rowLock, signedIn, task>>

RunsIn(o) == CASE o = "legacyGenerate" -> {Api, Page}     \* the agent's tool, the page
             [] o = "legacyDelete" -> {Page}
             [] OTHER -> {Api}

\* Authorized, and the lock taken at once; otherwise INTERVIEW_BUSY, and nothing happens.
RequestSet(c, o, k, replace) ==
    /\ c \in signedIn /\ task[c] = NoTask
    /\ k \in RunsIn(o)
    /\ replace => o = "generate"
    /\ Lock!Take(c, k)
    /\ task' = [task EXCEPT ![c] = [stage |-> "entered", op |-> o, home |-> k,
                                  replace |-> replace, vouched |-> FALSE]]
    /\ UNCHANGED <<items, lastSet, rowLock, signedIn, shownSet>>

\* The request ends, and so does the lock.
EndRequest(c) ==
    /\ Lock!Give(c, task[c].home)
    /\ task' = [task EXCEPT ![c] = NoTask]

-----------------------------------------------------------------------------
(* Asking the model.                                                       *)

\* STALE_INTERVIEW_SET and INTERVIEW_REPLACE_REQUIRED are the other cases.
MayGenerate(c) ==
    items = shownSet[c] /\ (items # 0 => task[c].replace)

StartModel(c) ==
    /\ \/ Serving(c, "entered", "generate") /\ MayGenerate(c)
       \/ Serving(c, "entered", "legacyGenerate")
    /\ Advance(c, "attempt1")
    /\ UNCHANGED <<holder, items, lastSet, rowLock, signedIn, shownSet>>

\* No question of the answer quotes the CV: a second attempt.
NothingValid(c) ==
    /\ AtStage(c, "attempt1")
    /\ Advance(c, "attempt2")
    /\ UNCHANGED <<holder, items, lastSet, rowLock, signedIn, shownSet>>

ModelAnswers(c) ==
    /\ AtStage(c, "attempt1") \/ AtStage(c, "attempt2")
    /\ task' = [task EXCEPT ![c].stage = "answered",
                            ![c].vouched = c \in signedIn]
    /\ UNCHANGED <<holder, items, lastSet, rowLock, signedIn, shownSet>>

\* A refused check, a failed call or transaction, a second attempt in vain.
SetFails(c) ==
    /\ task[c] # NoTask
    /\ EndRequest(c)
    /\ rowLock' = IF rowLock = c THEN Nobody ELSE rowLock
    /\ UNCHANGED <<items, lastSet, signedIn, shownSet>>

-----------------------------------------------------------------------------
(* Saving and deleting.                                                    *)

\* require_admin after the model's answer.
CheckAgain(c) ==
    /\ Serving(c, "answered", "generate")
    /\ c \in signedIn
    /\ Advance(c, "checked")
    /\ UNCHANGED <<holder, items, lastSet, rowLock, signedIn, shownSet>>

\* Wrong variant: the revision that was checked before the model is trusted.
LockRowOnly(c) ==
    /\ Serving(c, "checked", "generate") \/ Serving(c, "entered", "delete")
    /\ rowLock = Nobody
    /\ rowLock' = c
    /\ Advance(c, "locked")
    /\ UNCHANGED <<holder, items, lastSet, signedIn, shownSet>>

\* SELECT ... FOR UPDATE, then the revision once more.
LockRow(c) ==
    /\ Serving(c, "checked", "generate") \/ Serving(c, "entered", "delete")
    /\ rowLock = Nobody
    /\ items = shownSet[c]
    /\ rowLock' = c
    /\ Advance(c, "locked")
    /\ UNCHANGED <<holder, items, lastSet, signedIn, shownSet>>

StoreNewSet ==
    /\ lastSet < MaxSets
    /\ lastSet' = lastSet + 1
    /\ items' = lastSet'

SaveSet(c) ==
    /\ AtStage(c, "locked")
    /\ IF task[c].op = "generate" THEN StoreNewSet ELSE items' = 0 /\ UNCHANGED lastSet
    /\ shownSet' = [shownSet EXCEPT ![c] = items']
    /\ rowLock' = Nobody
    /\ EndRequest(c)
    /\ UNCHANGED signedIn

\* The old path replaces what there is; its INSERT waits for the row lock.
LegacySave(c) ==
    /\ Serving(c, "answered", "legacyGenerate")
    /\ rowLock = Nobody
    /\ StoreNewSet
    /\ EndRequest(c)
    /\ UNCHANGED <<rowLock, signedIn, shownSet>>

\* A DELETE of the questions does not touch the candidate's row.
LegacyDelete(c) ==
    /\ Serving(c, "entered", "legacyDelete")
    /\ items' = 0
    /\ EndRequest(c)
    /\ UNCHANGED <<lastSet, rowLock, signedIn, shownSet>>

SetsNext == \E c \in Requesters :
    \/ SignIn(c) \/ SignOut(c) \/ ReadSet(c)
    \/ \E o \in QuestionOps, k \in Processes, replace \in BOOLEAN : RequestSet(c, o, k, replace)
    \/ StartModel(c) \/ NothingValid(c) \/ ModelAnswers(c) \/ SetFails(c)
    \/ CheckAgain(c) \/ LockRow(c) \/ SaveSet(c)
    \/ LegacySave(c) \/ LegacyDelete(c)

SetsSpec == SetsInit /\ [][SetsNext]_setVars

-----------------------------------------------------------------------------
(* Properties.                                                             *)

\* A request of the API changes the stored set in this step.
Changes(c) ==
    /\ task[c] # NoTask /\ task[c].op \in {"generate", "delete"}
    /\ task'[c] # task[c] /\ items' # items

\* A request of the API replaces or deletes the set its tab had shown and nothing
\* else - it may find it emptied by the page - and a stored set only if it said so,
\* however many minutes the model took and whoever saved meanwhile.  What the model
\* wrote is not saved for a session that had ended when it answered.
SavedAsAsked ==
    [][\A c \in Requesters : Changes(c) =>
        /\ items \in {shownSet[c], 0}
        /\ task[c].op = "generate" =>
            /\ items # 0 => task[c].replace
            /\ task[c].vouched]_setVars

-----------------------------------------------------------------------------
(* Why it holds: what a request has checked stays true of the stored set     *)
(* while the row is locked, but for the page's DELETE.                       *)

Generates(c) == task[c] # NoTask /\ task[c].op = "generate"

\* A set the tab shows may be replaced once the model was asked for it.
ReplacementAsked ==
    \A c \in Requesters :
        Generates(c) /\ task[c].stage # "entered" /\ shownSet[c] # 0 => task[c].replace

\* A session never begins under a request, so one that is valid was valid before.
VouchedFor ==
    \A c \in Requesters : Generates(c) =>
        /\ task[c].stage = "answered" /\ c \in signedIn => task[c].vouched
        /\ task[c].stage \in {"checked", "locked"} => task[c].vouched

RowsLocked ==
    \A c \in Requesters : AtStage(c, "locked") =>
        /\ rowLock = c
        /\ items \in {shownSet[c], 0}
        /\ task[c].op \in {"generate", "delete"}

TasksHold ==
    \A c \in Requesters : task[c] # NoTask => holder[task[c].home] = c

SetsInv == SetsTypeOK /\ ReplacementAsked /\ VouchedFor /\ RowsLocked /\ TasksHold

=============================================================================
