------------------------------ MODULE Accounts ------------------------------
(***************************************************************************)
(* Accounts and sessions: src/auth/service.py, its routes, the account     *)
(* form of the Streamlit page and scripts/manage_users.py.                 *)
(*                                                                         *)
(* login keeps the user's row locked from the password check to the commit *)
(* that inserts the session.  Changes of an account (set_user_active,      *)
(* reset-password) read the row without a lock, delete the sessions - the  *)
(* DELETE leaves a gap lock that keeps new ones out - and write the row    *)
(* when they commit, because sessions do not autoflush.  They write only   *)
(* the columns whose value differs from what they had read.                *)
(***************************************************************************)
EXTENDS Integers

CONSTANTS
    Users, NoUser,
    Admins,         \* users with role admin; the role never changes
    Tokens,
    Clerks,         \* requests and scripts that change accounts
    FailedLimit,    \* wrong passwords before the account is locked (5)
    MaxPassword     \* bound: how often a password is reset

ASSUME AccountsAssumption ==
    /\ Admins \subseteq Users /\ NoUser \notin Users
    /\ FailedLimit \in Nat \ {0}
    /\ MaxPassword \in Nat

VARIABLES
    account,        \* AppUser rows
    loggingIn,      \* users whose row a login with the right password has locked
    session,        \* unexpired AuthSession rows, and the password each was issued for
                    \* (history)
    change,         \* the account each clerk changes, how far it is, what it will write
    guesses         \* wrong passwords since the last success, lock or reset (history)

accountVars == <<account, loggingIn, session, change, guesses>>

Account == [present : BOOLEAN, active : BOOLEAN, failed : Nat, locked : BOOLEAN,
            password : Nat]
Session == [user : Users, password : Nat]
NoSession == [user |-> NoUser]
Wishes == {"activate", "deactivate", "reset"}
Columns == {"active", "inactive", "password", "failed", "locked"}
NoChange == [stage |-> "idle"]
Change == [stage : {"read", "deleted"}, user : Users, writes : SUBSET Columns]

AccountsTypeOK ==
    /\ account \in [Users -> Account]
    /\ loggingIn \subseteq Users
    /\ session \in [Tokens -> Session \cup {NoSession}]
    /\ change \in [Clerks -> Change \cup {NoChange}]
    /\ guesses \in [Users -> Nat]

AccountsInit ==
    /\ account = [u \in Users |-> [present |-> FALSE, active |-> FALSE, failed |-> 0,
                                   locked |-> FALSE, password |-> 0]]
    /\ loggingIn = {}
    /\ session = [t \in Tokens |-> NoSession]
    /\ change = [p \in Clerks |-> NoChange]
    /\ guesses = [u \in Users |-> 0]

Exists(t) == session[t] # NoSession

\* require_user reads session and user in one snapshot.
Authenticated(t) == Exists(t) /\ account[session[t].user].active
Admin(t) == Authenticated(t) /\ session[t].user \in Admins

\* create_user by an administrator, or the script for the first one.
CreateUser(u) ==
    /\ ~account[u].present
    /\ account' = [account EXCEPT ![u].present = TRUE, ![u].active = TRUE]
    /\ UNCHANGED <<loggingIn, session, change, guesses>>

-----------------------------------------------------------------------------
(* login and logout.                                                        *)

MayTry(u) ==
    /\ account[u].present /\ u \notin loggingIn
    /\ account[u].active /\ ~account[u].locked

\* The attempt that is one too many locks the account.
FailAttempt(u, last) ==
    /\ MayTry(u)
    /\ account' = [account EXCEPT ![u].failed = IF last THEN 0 ELSE account[u].failed + 1,
                                 ![u].locked = last]
    /\ guesses' = [guesses EXCEPT ![u] = @ + 1]
    /\ UNCHANGED <<loggingIn, session, change>>

\* Wrong variant: the account is locked one attempt late.
WrongPasswordLate(u) == FailAttempt(u, account[u].failed + 1 > FailedLimit)

WrongPassword(u) == FailAttempt(u, account[u].failed + 1 >= FailedLimit)

\* Fifteen minutes later.
LockEnds(u) ==
    /\ account[u].locked
    /\ account' = [account EXCEPT ![u].locked = FALSE]
    /\ guesses' = [guesses EXCEPT ![u] = 0]
    /\ UNCHANGED <<loggingIn, session, change>>

LoginStart(u) ==
    /\ MayTry(u)
    /\ loggingIn' = loggingIn \cup {u}
    /\ UNCHANGED <<account, session, change, guesses>>

\* A clerk has deleted the user's sessions and not committed yet.
GapLocked(u) == \E p \in Clerks : change[p].stage = "deleted" /\ change[p].user = u

\* The new session comes, and the row is unlocked.
LoginFinish(u, t) ==
    /\ u \in loggingIn /\ ~GapLocked(u)
    /\ ~Exists(t)
    /\ session' = [session EXCEPT ![t] = [user |-> u, password |-> account[u].password]]
    /\ account' = [account EXCEPT ![u].failed = 0, ![u].locked = FALSE]
    /\ guesses' = [guesses EXCEPT ![u] = 0]
    /\ loggingIn' = loggingIn \ {u}
    /\ UNCHANGED change

\* Login and change wait for each other: MySQL rolls one of them back.
LoginVictim(u) ==
    /\ u \in loggingIn /\ GapLocked(u)
    /\ loggingIn' = loggingIn \ {u}
    /\ UNCHANGED <<account, session, change, guesses>>

\* Logout, or twelve hours later: an expired session is never valid again.
EndSession(t) ==
    /\ Exists(t)
    /\ session' = [session EXCEPT ![t] = NoSession]
    /\ UNCHANGED <<account, loggingIn, change, guesses>>

-----------------------------------------------------------------------------
(* set_user_active and reset-password.                                      *)

\* An administrator changes somebody else's account; the script needs no session.
MayChange(u, w) ==
    IF w = "reset" THEN account[u].password < MaxPassword
                   ELSE \E t \in Tokens : Admin(t) /\ session[t].user # u

\* The columns whose value the wish would change, as the row was read.
Writes(u, w) ==
    CASE w = "reset" -> {"password"} \cup (IF account[u].failed # 0 THEN {"failed"} ELSE {})
                                     \cup (IF account[u].locked THEN {"locked"} ELSE {})
      [] w = "activate" -> IF account[u].active THEN {} ELSE {"active"}
      [] w = "deactivate" -> IF account[u].active THEN {"inactive"} ELSE {}

ReadRow(p, u, w) ==
    /\ change[p] = NoChange
    /\ account[u].present
    /\ MayChange(u, w)
    /\ change' = [change EXCEPT ![p] = [stage |-> "read", user |-> u, writes |-> Writes(u, w)]]
    /\ UNCHANGED <<account, loggingIn, session, guesses>>

\* Others see the sessions until the commit.
DeleteSessions(p) ==
    /\ change[p].stage = "read"
    /\ change' = [change EXCEPT ![p].stage = "deleted"]
    /\ UNCHANGED <<account, loggingIn, session, guesses>>

Written(a, cols) ==
    [present |-> a.present,
     active |-> "inactive" \notin cols /\ (a.active \/ "active" \in cols),
     failed |-> IF "failed" \in cols THEN 0 ELSE a.failed,
     locked |-> a.locked /\ "locked" \notin cols,
     password |-> IF "password" \in cols THEN a.password + 1 ELSE a.password]

\* The user's sessions are the deleted ones: no new one passed the gap lock.
Commit(p) ==
    LET u == change[p].user  cols == change[p].writes IN
    /\ change[p].stage = "deleted"
    /\ account' = [account EXCEPT ![u] = Written(@, cols)]
    /\ session' = [t \in Tokens |-> IF Exists(t) /\ session[t].user = u THEN NoSession
                                                                      ELSE session[t]]
    /\ guesses' = [guesses EXCEPT ![u] = IF "password" \in cols THEN 0 ELSE @]
    /\ change' = [change EXCEPT ![p] = NoChange]
    /\ UNCHANGED loggingIn

\* Wrong variant: login does not lock the row, so the change never waits for it.
CommitChangeAtOnce(p) == Commit(p)

\* An UPDATE waits for the login that has locked the row.
CommitChange(p) ==
    /\ Commit(p)
    /\ change[p].writes # {} => change[p].user \notin loggingIn

\* The deadlock's other victim: its sessions stay.
ChangeVictim(p) ==
    /\ change[p].stage = "deleted"
    /\ change[p].user \in loggingIn
    /\ change' = [change EXCEPT ![p] = NoChange]
    /\ UNCHANGED <<account, loggingIn, session, guesses>>

AccountsNext ==
    \/ \E u \in Users :
        \/ CreateUser(u) \/ WrongPassword(u) \/ LockEnds(u) \/ LoginStart(u) \/ LoginVictim(u)
        \/ \E t \in Tokens : LoginFinish(u, t)
    \/ \E t \in Tokens : EndSession(t)
    \/ \E p \in Clerks :
        \/ \E u \in Users, w \in Wishes : ReadRow(p, u, w)
        \/ DeleteSessions(p) \/ CommitChange(p) \/ ChangeVictim(p)

AccountsSpec == AccountsInit /\ [][AccountsNext]_accountVars

-----------------------------------------------------------------------------
(* Properties.                                                             *)

\* A session belongs to an active account and to its present password: no login,
\* however it overlaps with a deactivation or a new password, leaves one behind
\* that would work again once the account is opened again.
NoStaleSession ==
    \A t \in Tokens : Exists(t) =>
        /\ account[session[t].user].active
        /\ session[t].password = account[session[t].user].password

\* Nobody gets more than FailedLimit guesses before the account is locked, a
\* correct password, or a new one, whatever changes overlap with the guesses.
GuessesBounded ==
    \A u \in Users :
        /\ guesses[u] <= FailedLimit
        /\ ~account[u].locked => guesses[u] < FailedLimit

-----------------------------------------------------------------------------
(* Why they hold: a change that writes the row waits for the login on it,    *)
(* and one that clears the failures also sets a new password.               *)

LoginsActive == \A u \in loggingIn : account[u].active

ResetsTogether ==
    \A p \in Clerks :
        change[p] # NoChange /\ change[p].writes \cap {"failed", "locked"} # {}
            => "password" \in change[p].writes

GuessesCounted ==
    \A u \in Users :
        /\ account[u].failed < FailedLimit
        /\ guesses[u] <= FailedLimit
        /\ ~account[u].locked => guesses[u] <= account[u].failed

AccountsInv ==
    AccountsTypeOK /\ LoginsActive /\ ResetsTogether /\ GuessesCounted /\ NoStaleSession

=============================================================================
