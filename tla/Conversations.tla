---------------------------- MODULE Conversations ----------------------------
(***************************************************************************)
(* Conversations with the recruiting agent: src/chat/service.py,           *)
(* conversation_store.py, feedback_store.py, checkpoints.py and            *)
(* src/agent/router.py, as the API and the Streamlit page call them.       *)
(*                                                                         *)
(* A conversation is a row in MySQL and a graph state in a SQLite file.    *)
(* A turn of the agent runs under the conversation's lock.  The tool that  *)
(* ranks candidates interrupts the graph until somebody confirms or        *)
(* cancels the criteria; the model may call it several times in one turn.  *)
(* There is one writer process (docs/deployment/demo.md).                  *)
(*                                                                         *)
(* Callers are the open tabs of the conversation's owner; each has at most *)
(* one request under way.                                                  *)
(***************************************************************************)
EXTENDS KeyedLocks

CONSTANTS
    Confirmations,      \* interrupt ids: one per call of the ranking tool
    NoConfirmation,
    MaxRequests,        \* bound: requests that change something
    MaxRestarts         \* bound: restarts of the process

ASSUME ConversationsAssumption ==
    /\ NoConfirmation \notin Confirmations
    /\ MaxRequests \in Nat /\ MaxRestarts \in Nat

VARIABLES
    row,        \* ChatConversation: absent, open, or deleted (deleted_at is set)
    feedback,   \* conversations with ChatFeedback rows
    graph,      \* the graph's checkpoints: none, quiet (no next step), unfinished
    waiting,    \* interrupts of tasks without result
    answered,   \* conversations with an answer that can be rated
    op, step,   \* what each caller does, and how far it is under the lock
    chosen,     \* the confirmation a resume request names
    verdict,    \* and whether it confirms
    shown,      \* the confirmations each tab shows
    raised,     \* interrupt ids used so far
    consented,  \* a tab that showed them confirmed them, and was heard (history)
    ranked,     \* how often each ranking's result was recorded (history)
    cleaned,    \* conversations whose deletion reported success (history)
    requests, restarts      \* counted against their bounds

rows == <<row, feedback>>
graphState == <<graph, waiting, answered, raised>>
request == <<op, step, chosen, verdict>>
history == <<consented, ranked, cleaned>>
bounds == <<requests, restarts>>
vars == <<lockVars, rows, graphState, request, shown, history, bounds>>

Operations == {"none", "ask", "resume", "feedback", "delete"}
Steps == {"none", "entered", "thinking", "ranking", "saving", "cleaning", "done"}

TypeOK ==
    /\ LocksTypeOK
    /\ row \in [Keys -> {"absent", "open", "deleted"}]
    /\ feedback \subseteq Keys
    /\ graph \in [Keys -> {"none", "quiet", "unfinished"}]
    /\ waiting \in [Keys -> SUBSET Confirmations]
    /\ answered \subseteq Keys
    /\ op \in [Callers -> Operations]
    /\ step \in [Callers -> Steps]
    /\ chosen \in [Callers -> Confirmations \cup {NoConfirmation}]
    /\ verdict \in [Callers -> BOOLEAN]
    /\ shown \in [Callers -> SUBSET Confirmations]
    /\ raised \subseteq Confirmations
    /\ consented \subseteq Confirmations
    /\ ranked \in [Confirmations -> Nat]
    /\ cleaned \subseteq Keys
    /\ requests \in Nat /\ restarts \in Nat

Init ==
    /\ LocksInit
    /\ row = [k \in Keys |-> "absent"]
    /\ feedback = {}
    /\ graph = [k \in Keys |-> "none"]
    /\ waiting = [k \in Keys |-> {}]
    /\ answered = {}
    /\ op = [c \in Callers |-> "none"]
    /\ step = [c \in Callers |-> "none"]
    /\ chosen = [c \in Callers |-> NoConfirmation]
    /\ verdict = [c \in Callers |-> FALSE]
    /\ shown = [c \in Callers |-> {}]
    /\ raised = {}
    /\ consented = {}
    /\ ranked = [n \in Confirmations |-> 0]
    /\ cleaned = {}
    /\ requests = 0
    /\ restarts = 0

-----------------------------------------------------------------------------
(* Requests come in, queue for the lock, and leave.                         *)

CreateConversation(k) ==
    /\ row[k] = "absent"
    /\ row' = [row EXCEPT ![k] = "open"]
    /\ UNCHANGED <<lockVars, feedback, graphState, request, shown, history, bounds>>

\* history(): what the tab shows now.
ReadHistory(c, k) ==
    /\ op[c] = "none"
    /\ row[k] = "open"
    /\ shown' = [shown EXCEPT ![c] = waiting[k]]
    /\ UNCHANGED <<lockVars, rows, graphState, request, history, bounds>>

\* require_conversation, then the first part of conversation_lock.
Call(c, k, o) ==
    /\ requests < MaxRequests /\ requests' = requests + 1
    /\ row[k] = "open" \/ (o = "delete" /\ row[k] = "deleted")
    /\ Register(c, k)
    /\ op' = [op EXCEPT ![c] = o]
    /\ UNCHANGED <<step, rows, graphState, shown, history, restarts>>

Request(c, k, o) ==
    /\ o \in {"ask", "feedback", "delete"}
    /\ Call(c, k, o)
    /\ UNCHANGED <<chosen, verdict>>

\* The tab answers a confirmation it shows.
RequestResume(c, k, n, yes) ==
    /\ n \in shown[c]
    /\ Call(c, k, "resume")
    /\ chosen' = [chosen EXCEPT ![c] = n]
    /\ verdict' = [verdict EXCEPT ![c] = yes]

Goto(c, s) == step' = [step EXCEPT ![c] = s]

\* Wrong variant: a deletion does not wait for its turn.
EnterDeleteUnlocked(c) ==
    /\ \/ Acquire(c, op[c] \in {"ask", "resume"})
       \/ /\ op[c] = "delete" /\ place[c] = "registered"
          /\ place' = [place EXCEPT ![c] = "inside"]
          /\ UNCHANGED <<entry, owner, wanted, object, shownBusy>>
    /\ Goto(c, "entered")
    /\ UNCHANGED <<op, chosen, verdict, rows, graphState, shown, history, bounds>>

Enter(c) ==
    /\ Acquire(c, op[c] \in {"ask", "resume"})
    /\ Goto(c, "entered")
    /\ UNCHANGED <<op, chosen, verdict, rows, graphState, shown, history, bounds>>

TurnAway(c) ==
    /\ Refuse(c)
    /\ UNCHANGED <<request, rows, graphState, shown, history, bounds>>

\* A check under the lock fails, or a dependency (database, prompt, key) does.
GiveUp(c) ==
    /\ step[c] = "entered"
    /\ Goto(c, "done")
    /\ UNCHANGED <<lockVars, op, chosen, verdict, rows, graphState, shown, history, bounds>>

Leave(c) ==
    /\ step[c] = "done"
    /\ Release(c)
    /\ Goto(c, "none")
    /\ UNCHANGED <<op, chosen, verdict, rows, graphState, shown, history, bounds>>

Reply(c) ==
    /\ Unregister(c)
    /\ op' = [op EXCEPT ![c] = "none"]
    /\ chosen' = [chosen EXCEPT ![c] = NoConfirmation]
    /\ verdict' = [verdict EXCEPT ![c] = FALSE]
    /\ UNCHANGED <<step, rows, graphState, shown, history, bounds>>

-----------------------------------------------------------------------------
(* send_message, resume_message and the graph.                              *)

\* The caller is under the lock for this operation and the conversation is open.
Serves(c, o) == step[c] = "entered" /\ op[c] = o /\ row[wanted[c]] = "open"

StartAsk(c) ==
    /\ Serves(c, "ask")
    /\ waiting[wanted[c]] = {} /\ graph[wanted[c]] # "unfinished"
    /\ graph' = [graph EXCEPT ![wanted[c]] = "unfinished"]
    /\ Goto(c, "thinking")
    /\ UNCHANGED <<lockVars, op, chosen, verdict, rows, waiting, answered, raised,
                   shown, history, bounds>>

\* The model answers, with or without tools that do not interrupt.
Answer(c) ==
    /\ step[c] = "thinking"
    /\ graph' = [graph EXCEPT ![wanted[c]] = "quiet"]
    /\ answered' = answered \cup {wanted[c]}
    /\ Goto(c, "done")
    /\ UNCHANGED <<lockVars, op, chosen, verdict, rows, waiting, raised, shown, history, bounds>>

\* The model calls find_top_candidates_for_jd: each call asks for a confirmation.
AskConfirmation(c) ==
    /\ step[c] = "thinking"
    /\ \E S \in SUBSET (Confirmations \ raised) \ {{}} :
        /\ waiting' = [waiting EXCEPT ![wanted[c]] = S]
        /\ raised' = raised \cup S
        /\ shown' = [shown EXCEPT ![c] = S]
    /\ Goto(c, "done")
    /\ UNCHANGED <<lockVars, op, chosen, verdict, rows, graph, answered, history, bounds>>

\* The answer is heard.
Accept(c) ==
    consented' = IF verdict[c] THEN consented \cup {chosen[c]} ELSE consented

\* Wrong variant: the answer goes to whatever is pending, not to what it names.
StartResumeFirst(c) ==
    /\ Serves(c, "resume")
    /\ \E n \in waiting[wanted[c]] : chosen' = [chosen EXCEPT ![c] = n]
    /\ Accept(c)
    /\ Goto(c, "ranking")
    /\ UNCHANGED <<lockVars, op, verdict, rows, graphState, shown, ranked, cleaned, bounds>>

\* NO_PENDING_CONFIRMATION and STALE_CONFIRMATION are the other cases.
StartResume(c) ==
    /\ Serves(c, "resume")
    /\ chosen[c] \in waiting[wanted[c]]
    /\ Accept(c)
    /\ Goto(c, "ranking")
    /\ UNCHANGED <<lockVars, op, chosen, verdict, rows, graphState, shown,
                   ranked, cleaned, bounds>>

\* The tool's task ends and its result is recorded; it ranked if it was told to,
\* now or (after a failed attempt) by the answer the graph had kept.  The graph
\* goes on when no sibling waits for its confirmation.
Rank(c) ==
    /\ step[c] = "ranking"
    /\ LET k == wanted[c]  n == chosen[c] IN
        /\ \E yes \in {verdict[c], n \in consented} :
            ranked' = IF yes THEN [ranked EXCEPT ![n] = @ + 1] ELSE ranked
        /\ waiting' = [waiting EXCEPT ![k] = @ \ {n}]
        /\ shown' = [shown EXCEPT ![c] = waiting[k] \ {n}]
        /\ Goto(c, IF waiting[k] = {n} THEN "thinking" ELSE "done")
    /\ UNCHANGED <<lockVars, op, chosen, verdict, rows, graph, answered, raised,
                   consented, cleaned, bounds>>

\* The model, a tool or the network fails.  The turn stays unfinished; a failed
\* ranking's confirmation may be offered again.  Nothing is replayed.
Break(c) ==
    /\ step[c] \in {"thinking", "ranking"}
    /\ \/ UNCHANGED waiting
       \/ step[c] = "ranking"
          /\ waiting' = [waiting EXCEPT ![wanted[c]] = @ \ {chosen[c]}]
    /\ Goto(c, "done")
    /\ UNCHANGED <<lockVars, op, chosen, verdict, rows, graph, answered, raised,
                   shown, history, bounds>>

-----------------------------------------------------------------------------
(* submit_feedback and delete_conversation.                                 *)

StartFeedback(c) ==
    /\ Serves(c, "feedback")
    /\ wanted[c] \in answered
    /\ Goto(c, "saving")
    /\ UNCHANGED <<lockVars, op, chosen, verdict, rows, graphState, shown, history, bounds>>

SaveFeedback(c) ==
    /\ step[c] = "saving"
    /\ feedback' = feedback \cup {wanted[c]}
    /\ Goto(c, "done")
    /\ UNCHANGED <<lockVars, op, chosen, verdict, row, graphState, shown, history, bounds>>

\* The tombstone and the feedback in one transaction; then the checkpoints.
StartDelete(c) ==
    /\ step[c] = "entered" /\ op[c] = "delete"
    /\ row' = [row EXCEPT ![wanted[c]] = "deleted"]
    /\ feedback' = feedback \ {wanted[c]}
    /\ Goto(c, "cleaning")
    /\ UNCHANGED <<lockVars, op, chosen, verdict, graphState, shown, history, bounds>>

DeleteCheckpoints(c) ==
    /\ step[c] = "cleaning"
    /\ graph' = [graph EXCEPT ![wanted[c]] = "none"]
    /\ waiting' = [waiting EXCEPT ![wanted[c]] = {}]
    /\ answered' = answered \ {wanted[c]}
    /\ cleaned' = cleaned \cup {wanted[c]}
    /\ Goto(c, "done")
    /\ UNCHANGED <<lockVars, op, chosen, verdict, rows, raised, shown, consented, ranked, bounds>>

\* CleanupPending: the tombstone stands, DELETE may be repeated.
CleanupFails(c) ==
    /\ step[c] = "cleaning"
    /\ Goto(c, "done")
    /\ UNCHANGED <<lockVars, op, chosen, verdict, rows, graphState, shown, history, bounds>>

-----------------------------------------------------------------------------

Restart ==
    /\ restarts < MaxRestarts /\ restarts' = restarts + 1
    /\ LocksRestart
    /\ op' = [c \in Callers |-> "none"]
    /\ step' = [c \in Callers |-> "none"]
    /\ chosen' = [c \in Callers |-> NoConfirmation]
    /\ verdict' = [c \in Callers |-> FALSE]
    /\ UNCHANGED <<rows, graphState, shown, history, requests>>

CallerStep(c) ==
    \/ Enter(c) \/ TurnAway(c) \/ GiveUp(c) \/ Leave(c) \/ Reply(c)
    \/ StartAsk(c) \/ Answer(c) \/ AskConfirmation(c)
    \/ StartResume(c) \/ Rank(c) \/ Break(c)
    \/ StartFeedback(c) \/ SaveFeedback(c)
    \/ StartDelete(c) \/ DeleteCheckpoints(c) \/ CleanupFails(c)

Next ==
    \/ \E k \in Keys : CreateConversation(k)
    \/ \E c \in Callers, k \in Keys :
        \/ ReadHistory(c, k)
        \/ \E o \in Operations : Request(c, k, o)
        \/ \E n \in Confirmations, yes \in BOOLEAN : RequestResume(c, k, n, yes)
    \/ \E c \in Callers : CallerStep(c)
    \/ Restart

Spec == Init /\ [][Next]_vars

-----------------------------------------------------------------------------
(* Properties.                                                             *)

\* The expensive ranking runs to its end only for a confirmation that a tab showed
\* and confirmed, and once at most: two tabs, failed attempts and parallel
\* confirmations notwithstanding.
RankedAsConfirmed ==
    \A n \in Confirmations : ranked[n] <= 1 /\ (ranked[n] = 1 => n \in consented)

\* A deleted conversation keeps no feedback, and no checkpoints once the deletion
\* reported success: no turn or feedback that was under way brings them back.
DeletedLeavesNothing ==
    \A k \in Keys :
        /\ row[k] = "deleted" => k \notin feedback
        /\ k \in cleaned => row[k] = "deleted" /\ graph[k] = "none" /\ waiting[k] = {}

-----------------------------------------------------------------------------
(* Why they hold: whoever changes a conversation is alone inside its lock.   *)

StepsInside == \A c \in Callers : step[c] # "none" <=> place[c] = "inside"

OpenWhileServed ==
    \A c \in Callers :
        /\ step[c] \in {"thinking", "ranking", "saving"} => row[wanted[c]] = "open"
        /\ step[c] = "cleaning" => row[wanted[c]] = "deleted"

\* The confirmation of a running ranking still waits, and was heard.
RankingWaits ==
    \A c \in Callers : step[c] = "ranking" =>
        /\ chosen[c] \in waiting[wanted[c]]
        /\ verdict[c] => chosen[c] \in consented

\* Ids are new when they are raised; what waits was never ranked.
WaitingUnranked ==
    /\ \A n \in Confirmations \ raised : ranked[n] = 0
    /\ \A k \in Keys : waiting[k] \subseteq raised /\ \A n \in waiting[k] : ranked[n] = 0
    /\ \A j, k \in Keys : j # k => waiting[j] \cap waiting[k] = {}

ChatInv ==
    /\ TypeOK /\ StepsInside /\ OpenWhileServed
    /\ RankingWaits /\ WaitingUnranked /\ RankedAsConfirmed
    /\ DeletedLeavesNothing

=============================================================================
