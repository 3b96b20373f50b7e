----------------------------- MODULE EmailIntake ----------------------------
(***************************************************************************)
(* CVs by e-mail: src/ingestion/email_intake/ as Celery beat and           *)
(* scripts/poll_gmail_intake.py run it.                                    *)
(*                                                                         *)
(* A poll lists the newest mails that match the query (unread, with a PDF),*)
(* and takes each one whose key it can set in Redis for a week.  Polls     *)
(* overlap.  Every PDF of a mail becomes a rejected job, or a pending job  *)
(* whose message is sent to the ingestion worker (IngestionJobs).  What    *)
(* fails while a mail is processed ends that mail: nothing is retried.     *)
(***************************************************************************)
EXTENDS Sequences, FiniteSets, Integers

CONSTANTS
    Pollers,
    Mails,
    CVs,            \* contents that pass the validation
    BadFile,        \* contents that do not
    NoMail,
    ListLimit,      \* mails a poll lists (20)
    MaxParts,       \* bound: PDFs of a mail, and of any two mails
    MaxLapses       \* bound: keys that expire

ASSUME IntakeAssumption ==
    /\ BadFile \notin CVs /\ NoMail \notin Mails
    /\ ListLimit \in Nat /\ MaxParts \in Nat /\ MaxLapses \in Nat

VARIABLES
    inbox,      \* mails that match the query, newest first
    parts,      \* the contents of each mail's PDFs
    keyed,      \* mails with a key in Redis
    poll,       \* what each poll does
    jobs,       \* per PDF: IngestionJob rows rejected and pending, messages sent
    known,      \* content_hash of the candidates
    takes,      \* how often each mail was taken (history)
    spoilt,     \* how often that failed, died, or was a rehearsal (history)
    lapses      \* counted against its bound

intakeVars == <<inbox, parts, keyed, poll, jobs, known, takes, spoilt, lapses>>

Contents == CVs \cup {BadFile}
PDFs == UNION {[1..n -> Contents] : n \in 0..MaxParts}
Idle == [stage |-> "idle"]
Polls == [stage : {"list", "part", "committed"},
          rehearses : BOOLEAN,      \* --dry-run
          todo : UNION {[1..n -> Mails] : n \in 0..ListLimit},
          mail : Mails \cup {NoMail}, next : 1..(MaxParts + 1)]
NoJobs == [rejected |-> 0, pending |-> 0, sent |-> 0]

\* SHA-256 of a PDF's bytes, and of the text extracted from it: never the same.
FileHash(content) == <<"bytes", content>>
TextHash(content) == <<"text", content>>

IntakeTypeOK ==
    /\ inbox \in Seq(Mails)
    /\ parts \in [Mails -> PDFs]
    /\ poll \in [Pollers -> Polls \cup {Idle}]
    /\ jobs \in [Mails -> [1..MaxParts -> [rejected : Nat, pending : Nat, sent : Nat]]]
    /\ keyed \subseteq Mails
    /\ known \subseteq {TextHash(c) : c \in CVs}
    /\ takes \in [Mails -> Nat] /\ spoilt \in [Mails -> Nat]
    /\ lapses \in Nat

IntakeInit ==
    /\ inbox = <<>>
    /\ parts = [m \in Mails |-> <<>>]
    /\ keyed = {} /\ known = {}
    /\ poll = [p \in Pollers |-> Idle]
    /\ jobs = [m \in Mails |-> [i \in 1..MaxParts |-> NoJobs]]
    /\ takes = [m \in Mails |-> 0] /\ spoilt = [m \in Mails |-> 0]
    /\ lapses = 0

Lists(box, m) == \E i \in 1..Len(box) : box[i] = m

Arrive(m, files) ==
    /\ ~Lists(inbox, m) /\ takes[m] = 0
    /\ \A n \in Mails \ {m} : Len(parts[n]) + Len(files) <= MaxParts
    /\ inbox' = <<m>> \o inbox
    /\ parts' = [parts EXCEPT ![m] = files]
    /\ UNCHANGED <<keyed, poll, jobs, known, takes, spoilt, lapses>>

\* Somebody opens the mail.
ReadByHand(m) ==
    /\ \E i \in 1..Len(inbox) :
        /\ inbox[i] = m
        /\ inbox' = SubSeq(inbox, 1, i - 1) \o SubSeq(inbox, i + 1, Len(inbox))
    /\ UNCHANGED <<parts, keyed, poll, jobs, known, takes, spoilt, lapses>>

-----------------------------------------------------------------------------
(* run_once.                                                               *)

StartPoll(p, rehearses) ==
    /\ poll[p] = Idle /\ inbox # <<>>
    /\ poll' = [poll EXCEPT ![p] =
         [stage |-> "list", rehearses |-> rehearses, mail |-> NoMail, next |-> 1,
          todo |-> SubSeq(inbox, 1, IF Len(inbox) < ListLimit THEN Len(inbox) ELSE ListLimit)]]
    /\ UNCHANGED <<inbox, parts, keyed, jobs, known, takes, spoilt, lapses>>

Ready(p) == poll[p].stage = "list" /\ poll[p].todo # <<>>

TakeMail(p) ==
    LET m == Head(poll[p].todo) IN
    /\ poll' = [poll EXCEPT ![p].stage = "part", ![p].mail = m, ![p].next = 1,
                            ![p].todo = Tail(@)]
    /\ keyed' = keyed \cup {m}
    /\ takes' = [takes EXCEPT ![m] = @ + 1]
    /\ spoilt' = IF poll[p].rehearses THEN [spoilt EXCEPT ![m] = @ + 1] ELSE spoilt
    /\ UNCHANGED <<inbox, parts, jobs, known, lapses>>

\* Wrong variant: the key is set whether or not it is there.
TakeAnyMail(p) == Ready(p) /\ TakeMail(p)

\* SET NX succeeds.
TakeNewMail(p) ==
    /\ Ready(p) /\ Head(poll[p].todo) \notin keyed
    /\ TakeMail(p)

SkipMail(p) ==
    /\ Ready(p) /\ Head(poll[p].todo) \in keyed
    /\ poll' = [poll EXCEPT ![p].todo = Tail(@)]
    /\ UNCHANGED <<inbox, parts, keyed, jobs, known, takes, spoilt, lapses>>

EndPoll(p) ==
    /\ poll[p].stage = "list" /\ poll[p].todo = <<>>
    /\ poll' = [poll EXCEPT ![p] = Idle]
    /\ UNCHANGED <<inbox, parts, keyed, jobs, known, takes, spoilt, lapses>>

\* The poll is done with its mail, and marks it as processed.  UNREAD stays: the
\* request names no field of Gmail's.  What Gmail answers is either taken for a mail
\* already read, or ends the poll.
LeaveMail(p) ==
    \/ poll' = [poll EXCEPT ![p].stage = "list", ![p].mail = NoMail, ![p].next = 1]
    \/ poll' = [poll EXCEPT ![p] = Idle]

-----------------------------------------------------------------------------
(* _process_attachment.                                                     *)

Content(p) == parts[poll[p].mail][poll[p].next]

AtPart(p) == poll[p].stage = "part" /\ poll[p].next <= Len(parts[poll[p].mail])

Count(p, field) == [jobs EXCEPT ![poll[p].mail][poll[p].next][field] = @ + 1]

\* It fails the validation, or a candidate has the hash of its bytes as content_hash; a
\* rehearsal does not look.  The pipeline stores the hash of the text there, so none has:
\* a CV whose candidate exists is accepted again, and left to the pipeline to reject.
Rejects(p) ==
    \/ Content(p) = BadFile
    \/ ~poll[p].rehearses /\ FileHash(Content(p)) \in known

\* Wrong variant: a rejected PDF ends the mail.
RejectRest(p) ==
    /\ AtPart(p) /\ Rejects(p)
    /\ jobs' = IF poll[p].rehearses THEN jobs ELSE Count(p, "rejected")
    /\ LeaveMail(p)
    /\ UNCHANGED <<inbox, parts, keyed, known, takes, spoilt, lapses>>

RejectPart(p) ==
    /\ AtPart(p) /\ Rejects(p)
    /\ jobs' = IF poll[p].rehearses THEN jobs ELSE Count(p, "rejected")
    /\ poll' = [poll EXCEPT ![p].next = @ + 1]
    /\ UNCHANGED <<inbox, parts, keyed, known, takes, spoilt, lapses>>

\* The file is stored and its job committed; a rehearsal stores the file.
AcceptPart(p) ==
    /\ AtPart(p) /\ ~Rejects(p)
    /\ jobs' = IF poll[p].rehearses THEN jobs ELSE Count(p, "pending")
    /\ poll' = IF poll[p].rehearses THEN [poll EXCEPT ![p].next = @ + 1]
                                    ELSE [poll EXCEPT ![p].stage = "committed"]
    /\ UNCHANGED <<inbox, parts, keyed, known, takes, spoilt, lapses>>

SendJob(p) ==
    /\ poll[p].stage = "committed"
    /\ jobs' = Count(p, "sent")
    /\ poll' = [poll EXCEPT ![p].stage = "part", ![p].next = @ + 1]
    /\ UNCHANGED <<inbox, parts, keyed, known, takes, spoilt, lapses>>

MailDone(p) ==
    /\ poll[p].stage = "part" /\ poll[p].next > Len(parts[poll[p].mail])
    /\ LeaveMail(p)
    /\ UNCHANGED <<inbox, parts, keyed, jobs, known, takes, spoilt, lapses>>

Working(p) == poll[p].stage \in {"part", "committed"}

\* What this poll took the mail for comes to nothing; of a rehearsal nothing was due.
Spoil(p) ==
    spoilt' = IF Working(p) /\ ~poll[p].rehearses
              THEN [spoilt EXCEPT ![poll[p].mail] = @ + 1] ELSE spoilt

\* Gmail, the object store, MySQL or the broker fails: the rest of the mail is
\* dropped, and it is marked all the same.
MailFails(p) ==
    /\ Working(p)
    /\ LeaveMail(p)
    /\ Spoil(p)
    /\ UNCHANGED <<inbox, parts, keyed, jobs, known, takes, lapses>>

\* The process dies.
PollDies(p) ==
    /\ poll[p] # Idle
    /\ poll' = [poll EXCEPT ![p] = Idle]
    /\ Spoil(p)
    /\ UNCHANGED <<inbox, parts, keyed, jobs, known, takes, lapses>>

-----------------------------------------------------------------------------

\* A week later; no poll takes that long.
KeyLapses(m) ==
    /\ m \in keyed /\ \A p \in Pollers : poll[p] = Idle
    /\ lapses < MaxLapses /\ lapses' = lapses + 1
    /\ keyed' = keyed \ {m}
    /\ UNCHANGED <<inbox, parts, poll, jobs, known, takes, spoilt>>

\* The ingestion worker makes a candidate of a job that the poll, or an administrator
\* who retries it, has sent.
Index(m, i) ==
    /\ jobs[m][i].pending > 0
    /\ known' = known \cup {TextHash(parts[m][i])}
    /\ UNCHANGED <<inbox, parts, keyed, poll, jobs, takes, spoilt, lapses>>

PollStep(p) ==
    \/ \E rehearses \in BOOLEAN : StartPoll(p, rehearses)
    \/ TakeNewMail(p) \/ SkipMail(p) \/ EndPoll(p)
    \/ RejectPart(p) \/ AcceptPart(p) \/ SendJob(p) \/ MailDone(p)
    \/ MailFails(p) \/ PollDies(p)

IntakeNext ==
    \/ \E p \in Pollers : PollStep(p)
    \/ \E m \in Mails :
        \/ \E files \in PDFs : Arrive(m, files)
        \/ ReadByHand(m) \/ KeyLapses(m)
        \/ \E i \in 1..MaxParts : Index(m, i)

IntakeSpec == IntakeInit /\ [][IntakeNext]_intakeVars

-----------------------------------------------------------------------------
(* Properties.                                                             *)

\* Polls that overlap make one job of a PDF, once per week at most.
OncePerKey ==
    \A m \in Mails, i \in 1..MaxParts :
        jobs[m][i].rejected + jobs[m][i].pending <= takes[m]
        /\ takes[m] <= 1 + lapses

\* Once no poll works on a mail, every taking of it that was not a rehearsal, and that
\* nothing failed for, has left a rejected job or a sent one for every PDF.  A failure
\* leaves at most one committed job without its message, and no message is sent without
\* a committed job.
NothingDropped ==
    \A m \in Mails :
        /\ \A i \in 1..MaxParts : jobs[m][i].sent <= jobs[m][i].pending
        /\ (\A p \in Pollers : poll[p] # Idle => poll[p].mail # m) =>
            /\ \A i \in 1..Len(parts[m]) :
                    takes[m] <= jobs[m][i].rejected + jobs[m][i].sent + spoilt[m]
            /\ Cardinality({i \in 1..MaxParts : jobs[m][i].sent < jobs[m][i].pending})
                    <= spoilt[m]

\* What mark_as_processed says of itself: a mail that was marked is read, and the next
\* poll does not list it.
MarkedIsRead ==
    [][\A p \in Pollers : poll[p].stage = "part" /\ poll'[p].stage = "list" =>
        ~Lists(inbox', poll[p].mail)]_intakeVars

-----------------------------------------------------------------------------
(* Why the first two hold: a mail is one poll's while its key stands, and    *)
(* that poll counts every PDF once.                                          *)

KeysCounted ==
    \A m \in Mails : takes[m] <= lapses + (IF m \in keyed THEN 1 ELSE 0)

PollsFit ==
    \A p \in Pollers : Working(p) =>
        /\ poll[p].mail \in keyed
        /\ takes[poll[p].mail] > 0
        /\ poll[p].rehearses => poll[p].stage = "part"
        /\ poll[p].stage = "committed" => poll[p].next <= Len(parts[poll[p].mail])

OnePollPerMail ==
    \A p, q \in Pollers : Working(p) /\ Working(q) /\ poll[p].mail = poll[q].mail => p = q

\* The poll has not counted this PDF yet.
Ahead(p, i) == i > poll[p].next \/ (i = poll[p].next /\ poll[p].stage = "part")

Recorded(m, i) == jobs[m][i].rejected + jobs[m][i].pending

JobsCounted ==
    \A m \in Mails, i \in 1..MaxParts :
        /\ Recorded(m, i) <= takes[m]
        /\ \A p \in Pollers :
            Working(p) /\ poll[p].mail = m /\ Ahead(p, i) => Recorded(m, i) < takes[m]

JobsSent ==
    \A m \in Mails, i \in 1..MaxParts :
        /\ jobs[m][i].sent <= jobs[m][i].pending
        /\ \A p \in Pollers :
            poll[p].stage = "committed" /\ poll[p].mail = m /\ poll[p].next = i
                => jobs[m][i].sent < jobs[m][i].pending

\* Only a content that passes is sent.
PendingPass ==
    \A m \in Mails, i \in 1..MaxParts :
        jobs[m][i].pending > 0 => i <= Len(parts[m]) /\ parts[m][i] \in CVs

\* Jobs that end a PDF's way through the intake.
Settled(m, i) == jobs[m][i].rejected + jobs[m][i].sent

\* The poll has yet to settle this PDF.
Owes(p, m, i) ==
    Working(p) /\ ~poll[p].rehearses /\ poll[p].mail = m /\ poll[p].next <= i

PartsSettled ==
    \A m \in Mails : \A i \in 1..Len(parts[m]) :
        \/ takes[m] <= Settled(m, i) + spoilt[m]
        \/ takes[m] <= Settled(m, i) + spoilt[m] + 1 /\ \E p \in Pollers : Owes(p, m, i)

\* A poll has committed a job of this PDF, and sends its message next.
InHand(m, i) ==
    \E p \in Pollers : poll[p].stage = "committed" /\ poll[p].mail = m /\ poll[p].next = i

\* PDFs with a committed job that no message was sent for, nor will be.
Stuck(m) ==
    {i \in 1..MaxParts :
        jobs[m][i].sent + (IF InHand(m, i) THEN 1 ELSE 0) < jobs[m][i].pending}

FewStuck == \A m \in Mails : Cardinality(Stuck(m)) <= spoilt[m]

IntakeInv ==
    /\ IntakeTypeOK /\ KeysCounted /\ PollsFit /\ OnePollPerMail
    /\ JobsCounted /\ JobsSent /\ PendingPass /\ PartsSettled /\ FewStuck

=============================================================================
