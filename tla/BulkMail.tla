------------------------------- MODULE BulkMail ------------------------------
(***************************************************************************)
(* Interview mails of the Streamlit page: src/app.py (tab_email),          *)
(* src/notification/email_sender.py, src/interfaces/notification_interface *)
(* and the task send_bulk_emails.  The outbox (InvitationOutbox) replaces  *)
(* them in the API; here nothing claims a mail before it is sent.          *)
(*                                                                         *)
(* A sender works through rows, one mail each: a tab through the one row   *)
(* it shows, a task through a batch.  A mail is recorded after Gmail has   *)
(* answered.  A worker that dies has its message redelivered, from the     *)
(* first row, or lost.  A tab that is used while it works is run anew and  *)
(* keeps the drafts it has just sent.                                      *)
(***************************************************************************)
EXTENDS Sequences, Integers, FiniteSetsExt

CONSTANTS
    Tabs, BatchTasks,
    Addressees,     \* candidates
    MaxRows,        \* bound: rows of a batch; a candidate may be typed in twice
    MaxSends,       \* bound: rows ever sent
    MaxDeaths       \* bound: deaths of processes

ASSUME BulkAssumption ==
    /\ Tabs \cap BatchTasks = {} /\ IsFiniteSet(Tabs \cup BatchTasks)
    /\ MaxRows \in Nat \ {0} /\ MaxSends \in Nat /\ MaxDeaths \in Nat

VARIABLES
    drafted,    \* tabs with a draft_subject in their session_state
    grid,       \* per tab: bulk_drafts, those without error
    sending,    \* per sender: its rows, the next one, and how far that is
    logged,     \* SentEmail rows with status success, per candidate
    confirmed,  \* rows that somebody confirmed (history)
    mailed,     \* mails that Gmail took (history)
    doubtful,   \* of these, those whose answer or record was lost (history)
    repeated,   \* rows a redelivery offers once more (history)
    deaths      \* counted against its bound

bulkVars == <<drafted, grid, sending, logged, confirmed, mailed, doubtful, repeated, deaths>>

Senders == Tabs \cup BatchTasks
Batches == UNION {[1..n -> Addressees] : n \in 1..MaxRows}

\* Numbers of rows, in their order.
Selections ==
    {rows \in UNION {[1..n -> 1..MaxRows] : n \in 1..MaxRows} :
        \A i, j \in DOMAIN rows : i < j => rows[i] < rows[j]}

Counts == [Addressees -> Nat]
NoRows == [stage |-> "none"]
Rows == [stage : {"queued", "send", "record"}, todo : Batches, next : Nat,
         ok : BOOLEAN]      \* Gmail's answer came: the mail is sent

BulkTypeOK ==
    /\ drafted \subseteq Tabs
    /\ grid \in [Tabs -> Batches \cup {<<>>}]
    /\ sending \in [Senders -> Rows \cup {NoRows}]
    /\ \A h \in {logged, confirmed, mailed, doubtful, repeated} : h \in Counts
    /\ deaths \in Nat

BulkInit ==
    LET none == [c \in Addressees |-> 0] IN
    /\ drafted = {}
    /\ grid = [p \in Tabs |-> <<>>]
    /\ sending = [s \in Senders |-> NoRows]
    /\ logged = none /\ confirmed = none
    /\ mailed = none /\ doubtful = none /\ repeated = none
    /\ deaths = 0

\* How often c is among the rows, and a count that goes up with them.
Times(c, todo) == Cardinality({i \in DOMAIN todo : todo[i] = c})
Plus(count, todo) == [c \in Addressees |-> count[c] + Times(c, todo)]

-----------------------------------------------------------------------------
(* The page.                                                                *)

DraftOne(p) ==
    /\ sending[p] = NoRows
    /\ drafted' = drafted \cup {p}
    /\ UNCHANGED <<grid, sending, logged, confirmed, mailed, doubtful, repeated, deaths>>

DraftBatch(p, todo) ==
    /\ sending[p] = NoRows
    /\ grid' = [grid EXCEPT ![p] = todo]
    /\ UNCHANGED <<drafted, sending, logged, confirmed, mailed, doubtful, repeated, deaths>>

Confirm(todo) ==
    /\ confirmed' = Plus(confirmed, todo)
    /\ MapThenSumSet(LAMBDA c : confirmed'[c], Addressees) <= MaxSends

\* The draft goes to the candidate whose id is in the form now.
SendOne(p, c) ==
    /\ p \in drafted /\ sending[p] = NoRows
    /\ Confirm(<<c>>)
    /\ sending' = [sending EXCEPT ![p] = [stage |-> "send", todo |-> <<c>>, next |-> 1,
                                          ok |-> FALSE]]
    /\ UNCHANGED <<drafted, grid, logged, mailed, doubtful, repeated, deaths>>

\* dispatch_bulk_emails, for the rows whose box is ticked.  The broker may fail, and the
\* grid stays then, or if the tab was used meanwhile.
SendBatch(p, t, ticked) ==
    LET todo == [i \in DOMAIN ticked |-> grid[p][ticked[i]]] IN
    /\ sending[p] = NoRows /\ sending[t] = NoRows
    /\ \A i \in DOMAIN ticked : ticked[i] \in DOMAIN grid[p]
    /\ Confirm(todo)
    /\ \E queued, stays \in BOOLEAN :
        /\ queued \/ stays
        /\ sending' = IF queued THEN [sending EXCEPT ![t] = [stage |-> "queued", todo |-> todo,
                                                             next |-> 1, ok |-> FALSE]]
                                ELSE sending
        /\ grid' = IF stays THEN grid ELSE [grid EXCEPT ![p] = <<>>]
    /\ UNCHANGED <<drafted, logged, mailed, doubtful, repeated, deaths>>

-----------------------------------------------------------------------------
(* _deliver_interview_invitation, for the page and for the task.             *)

StartTask(t) ==
    /\ sending[t].stage = "queued"
    /\ sending' = [sending EXCEPT ![t].stage = "send"]
    /\ UNCHANGED <<drafted, grid, logged, confirmed, mailed, doubtful, repeated, deaths>>

Addressee(s) == sending[s].todo[sending[s].next]

\* One mail's error does not keep the others of the batch from being sent.
NextRow(s) ==
    LET w == sending[s] IN
    sending' = [sending EXCEPT ![s] =
        IF w.next = Len(w.todo) THEN NoRows
        ELSE [w EXCEPT !.next = w.next + 1, !.stage = "send", !.ok = FALSE]]

\* The candidate is gone, has no address, or cannot be read.
SkipRow(s) ==
    /\ sending[s].stage = "send"
    /\ NextRow(s)
    /\ UNCHANGED <<drafted, grid, logged, confirmed, mailed, doubtful, repeated, deaths>>

\* Gmail takes the mail or does not; if it does, its answer may be lost.
Post(s) ==
    /\ sending[s].stage = "send"
    /\ \E taken, told \in BOOLEAN :
        /\ told => taken
        /\ sending' = [sending EXCEPT ![s].stage = "record", ![s].ok = told]
        /\ mailed' = IF taken THEN [mailed EXCEPT ![Addressee(s)] = @ + 1] ELSE mailed
        /\ doubtful' = IF taken /\ ~told THEN [doubtful EXCEPT ![Addressee(s)] = @ + 1]
                                         ELSE doubtful
    /\ UNCHANGED <<drafted, grid, logged, confirmed, repeated, deaths>>

\* The record of the row's outcome, in a transaction that may fail.  A tab that sent its
\* mail has no draft any more, unless it was used meanwhile.
Record(s) ==
    /\ sending[s].stage = "record"
    /\ \E works, clears \in BOOLEAN :
        /\ logged' = IF sending[s].ok /\ works THEN [logged EXCEPT ![Addressee(s)] = @ + 1]
                                               ELSE logged
        /\ doubtful' = IF sending[s].ok /\ ~works THEN [doubtful EXCEPT ![Addressee(s)] = @ + 1]
                                                  ELSE doubtful
        /\ clears => s \in Tabs /\ sending[s].ok /\ works
        /\ drafted' = IF clears THEN drafted \ {s} ELSE drafted
    /\ UNCHANGED <<grid, confirmed, mailed, repeated, deaths>>

\* Wrong variant: a mail whose record failed stays the next one.
RecordAndRepeat(s) ==
    /\ Record(s)
    /\ IF sending[s].ok /\ logged' = logged
       THEN sending' = [sending EXCEPT ![s].stage = "send", ![s].ok = FALSE]
       ELSE NextRow(s)

RecordRow(s) ==
    /\ Record(s)
    /\ NextRow(s)

-----------------------------------------------------------------------------

\* What a sender that dies has had taken and not recorded.
Unrecorded(s) == sending[s].stage = "record" /\ sending[s].ok

Lost(s) == doubtful' = IF Unrecorded(s) THEN [doubtful EXCEPT ![Addressee(s)] = @ + 1]
                                        ELSE doubtful

\* With acks_late the message comes back, or its parent process has acknowledged it.
WorkerDies(t) ==
    LET w == sending[t]  done == IF w.stage = "record" THEN w.next ELSE w.next - 1 IN
    /\ w.stage \in {"send", "record"}
    /\ deaths < MaxDeaths /\ deaths' = deaths + 1
    /\ Lost(t)
    /\ \/ /\ sending' = [sending EXCEPT ![t] = [w EXCEPT !.stage = "queued", !.next = 1,
                                                         !.ok = FALSE]]
          /\ repeated' = Plus(repeated, SubSeq(w.todo, 1, done))
       \/ /\ sending' = [sending EXCEPT ![t] = NoRows]
          /\ UNCHANGED repeated
    /\ UNCHANGED <<drafted, grid, logged, confirmed, mailed>>

\* The tab is closed or its process restarted: the session's state is gone.
TabDies(p) ==
    /\ deaths < MaxDeaths /\ deaths' = deaths + 1
    /\ Lost(p)
    /\ sending' = [sending EXCEPT ![p] = NoRows]
    /\ drafted' = drafted \ {p}
    /\ grid' = [grid EXCEPT ![p] = <<>>]
    /\ UNCHANGED <<logged, confirmed, mailed, repeated>>

BulkNext ==
    \/ \E p \in Tabs :
        \/ DraftOne(p) \/ TabDies(p)
        \/ \E todo \in Batches \cup {<<>>} : DraftBatch(p, todo)
        \/ \E c \in Addressees : SendOne(p, c)
        \/ \E t \in BatchTasks, ticked \in Selections : SendBatch(p, t, ticked)
    \/ \E t \in BatchTasks : StartTask(t) \/ WorkerDies(t)
    \/ \E s \in Senders : SkipRow(s) \/ Post(s) \/ RecordRow(s)

BulkSpec == BulkInit /\ [][BulkNext]_bulkVars

-----------------------------------------------------------------------------
(* Properties.                                                             *)

\* Senders that have c's mail taken and are about to record it.
Recording(c) == {s \in Senders : Unrecorded(s) /\ Addressee(s) = c}

\* Every mail has its own confirmation, or a redelivery of its task; lost answers,
\* failed records and errors of others' mails send nobody a second one.  And a mail has
\* its success row, once it is not being recorded any more, unless its answer or its
\* record was lost.
MailsExplained ==
    \A c \in Addressees :
        /\ mailed[c] <= confirmed[c] + repeated[c]
        /\ mailed[c] = logged[c] + doubtful[c] + Cardinality(Recording(c))

-----------------------------------------------------------------------------
(* Why it holds: mails and rows still to be mailed together are no more than *)
(* what was confirmed or offered again.                                     *)

RowsFit ==
    \A s \in Senders : sending[s] # NoRows =>
        /\ sending[s].next \in DOMAIN sending[s].todo
        /\ sending[s].stage = "queued" => sending[s].next = 1

\* Row i of s is to be mailed, to c.
Awaits(s, i, c) ==
    /\ sending[s] # NoRows
    /\ i \in DOMAIN sending[s].todo /\ sending[s].todo[i] = c
    /\ i > sending[s].next \/ (i = sending[s].next /\ sending[s].stage # "record")

Awaiting(c) == {row \in Senders \X (1..MaxRows) : Awaits(row[1], row[2], c)}

MailsCovered ==
    \A c \in Addressees : mailed[c] + Cardinality(Awaiting(c)) <= confirmed[c] + repeated[c]

MailsRecorded ==
    \A c \in Addressees : mailed[c] = logged[c] + doubtful[c] + Cardinality(Recording(c))

BulkInv == BulkTypeOK /\ RowsFit /\ MailsCovered /\ MailsRecorded

=============================================================================
