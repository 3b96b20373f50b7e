----------------------------- MODULE MailPromise -----------------------------
(***************************************************************************)
(* What the invitation outbox promises, without rows, workers or queues.   *)
(*                                                                         *)
(* A delivery is an approved copy of one e-mail.  It is either dormant,    *)
(* live (Gmail may still be asked to send it), or sent.  Approving makes   *)
(* deliveries live; each is sent at most once; two deliveries to the same  *)
(* person are both sent only when an administrator agreed to send again.   *)
(***************************************************************************)
CONSTANTS
    Deliveries,     \* every delivery the outbox can ever hold
    Conflicts       \* pairs of deliveries to one candidate or one address, both ways

VARIABLES
    live,       \* approved, and Gmail may still be asked to send it
    sent,       \* Gmail took it
    again,      \* live or sent with "send again" agreed when it was last approved
    confirmed   \* recorded as a success

promiseVars == <<live, sent, again, confirmed>>

PromiseTypeOK ==
    /\ live \subseteq Deliveries
    /\ sent \subseteq Deliveries
    /\ again \subseteq Deliveries
    /\ confirmed \subseteq Deliveries

PromiseInit ==
    /\ live = {}
    /\ sent = {}
    /\ again = {}
    /\ confirmed = {}

\* Deliveries to somebody in S, S itself left out.
Rivals(S) == {e \in Deliveries : \E d \in S : <<d, e>> \in Conflicts}

\* An administrator approves S.  None of them was ever sent, nobody they
\* address has mail under way, and somebody already mailed is mailed a second
\* time only on purpose.
Approve(S, agreed) ==
    /\ S # {}
    /\ S \cap (live \cup sent) = {}
    /\ Rivals(S) \cap (S \cup live) = {}
    /\ Rivals(S) \cap sent # {} => agreed
    /\ live' = live \cup S
    /\ again' = IF agreed THEN again \cup S ELSE again \ S
    /\ UNCHANGED <<sent, confirmed>>

\* Gmail takes a live delivery; it can never be taken again.
Mail(d) ==
    /\ d \in live
    /\ sent' = sent \cup {d}
    /\ live' = live \ {d}
    /\ UNCHANGED <<again, confirmed>>

\* A live delivery will not be sent after all.
GiveUp(d) ==
    /\ d \in live
    /\ live' = live \ {d}
    /\ UNCHANGED <<sent, again, confirmed>>

\* Success is recorded only for mail Gmail really took, and for good.
Confirm(d) ==
    /\ d \in sent
    /\ confirmed' = confirmed \cup {d}
    /\ UNCHANGED <<live, sent, again>>

PromiseNext ==
    \/ \E S \in SUBSET Deliveries, agreed \in BOOLEAN : Approve(S, agreed)
    \/ \E d \in Deliveries : Mail(d) \/ GiveUp(d) \/ Confirm(d)

PromiseSpec == PromiseInit /\ [][PromiseNext]_promiseVars

=============================================================================
