---------------------------- MODULE RecordsProofs ----------------------------
(***************************************************************************)
(* Theorems about the records kept for the API: accounts and the sessions  *)
(* that hold them, the interview questions a session may replace, the      *)
(* names of departments and openings, and the search over candidates.      *)
(* They hold for every set of users, sessions, clerks, requesters, people, *)
(* names and requests, and every limit.                                    *)
(***************************************************************************)
EXTENDS Accounts, InterviewSets, CandidateSearch, FiniteSetTheorems, TLAPS


-----------------------------------------------------------------------------
(* Accounts: each action keeps AccountsInv.                                 *)

\* Initially there are no accounts.
LEMMA AccountsBegin == AccountsInit => AccountsInv
  BY AccountsAssumption DEF AccountsInit, AccountsInv, AccountsTypeOK, Account, LoginsActive,
     ResetsTogether, GuessesCounted, NoStaleSession, Exists

\* A count and a lock are written into a row.
LEMMA RowTypes ==
  ASSUME AccountsTypeOK, NEW u \in Users, NEW n \in Nat, NEW b \in BOOLEAN,
         account' = [account EXCEPT ![u].failed = n, ![u].locked = b]
  PROVE  account' \in [Users -> Account]
  BY ZenonT(30) DEF AccountsTypeOK, Account

\* An account that is created has no session.
LEMMA AccountsCreateUser ==
  ASSUME AccountsInv, NEW u \in Users, CreateUser(u) PROVE AccountsInv'
<1>1. AccountsTypeOK'
  BY ZenonT(30), AccountsAssumption DEF CreateUser, AccountsInv, AccountsTypeOK, Account, Session,
     NoSession, Change, NoChange
<1>2. LoginsActive'
  BY DEF CreateUser, AccountsInv, LoginsActive, AccountsTypeOK
<1>3. ResetsTogether'
  BY DEF CreateUser, AccountsInv, ResetsTogether
<1>4. GuessesCounted'
  BY DEF CreateUser, AccountsInv, GuessesCounted, AccountsTypeOK
<1>5. NoStaleSession'
  BY DEF CreateUser, AccountsInv, NoStaleSession, AccountsTypeOK, Exists, Session
<1> QED
  BY <1>1, <1>2, <1>3, <1>4, <1>5 DEF AccountsInv

\* A wrong password is counted, and the last one locks the account.
LEMMA AccountsWrongPassword ==
  ASSUME AccountsInv, NEW u \in Users, WrongPassword(u) PROVE AccountsInv'
<1>1. AccountsTypeOK'
  <2> DEFINE last == account[u].failed + 1 >= FailedLimit
             n == IF last THEN 0 ELSE account[u].failed + 1
  <2>1. n \in Nat /\ last \in BOOLEAN
    BY DEF AccountsInv, AccountsTypeOK, Account
  <2>2. account' = [account EXCEPT ![u].failed = n, ![u].locked = last]
    BY DEF WrongPassword, FailAttempt
  <2> HIDE DEF n, last
  <2>3. account' \in [Users -> Account]
    BY <2>1, <2>2, RowTypes DEF AccountsInv
  <2> QED
    BY <2>3 DEF WrongPassword, FailAttempt, AccountsInv, AccountsTypeOK
<1>2. LoginsActive'
  BY DEF WrongPassword, FailAttempt, AccountsInv, LoginsActive, AccountsTypeOK
<1>3. ResetsTogether'
  BY DEF WrongPassword, FailAttempt, AccountsInv, ResetsTogether
<1>4. GuessesCounted'
  BY AccountsAssumption DEF WrongPassword, FailAttempt, MayTry, AccountsInv, GuessesCounted,
     AccountsTypeOK, Account
<1>5. NoStaleSession'
  BY DEF WrongPassword, FailAttempt, AccountsInv, NoStaleSession, AccountsTypeOK, Exists,
     Session
<1> QED
  BY <1>1, <1>2, <1>3, <1>4, <1>5 DEF AccountsInv

\* A lock that ends starts the count again.
LEMMA AccountsLockEnds ==
  ASSUME AccountsInv, NEW u \in Users, LockEnds(u) PROVE AccountsInv'
<1>1. AccountsTypeOK'
  BY DEF LockEnds, AccountsInv, AccountsTypeOK, Account
<1>2. LoginsActive'
  BY DEF LockEnds, AccountsInv, LoginsActive
<1>3. ResetsTogether'
  BY DEF LockEnds, AccountsInv, ResetsTogether
<1>4. GuessesCounted'
  BY AccountsAssumption DEF LockEnds, AccountsInv, GuessesCounted, AccountsTypeOK, Account
<1>5. NoStaleSession'
  BY DEF LockEnds, AccountsInv, NoStaleSession, Exists
<1> QED
  BY <1>1, <1>2, <1>3, <1>4, <1>5 DEF AccountsInv

\* A login starts for an active account.
LEMMA AccountsLoginStart ==
  ASSUME AccountsInv, NEW u \in Users, LoginStart(u) PROVE AccountsInv'
<1>1. AccountsTypeOK'
  BY DEF LoginStart, AccountsInv, AccountsTypeOK
<1>2. LoginsActive'
  BY DEF LoginStart, MayTry, AccountsInv, LoginsActive
<1>3. ResetsTogether'
  BY DEF LoginStart, AccountsInv, ResetsTogether
<1>4. GuessesCounted'
  BY DEF LoginStart, AccountsInv, GuessesCounted
<1>5. NoStaleSession'
  BY DEF LoginStart, AccountsInv, NoStaleSession, Exists
<1> QED
  BY <1>1, <1>2, <1>3, <1>4, <1>5 DEF AccountsInv

\* The account is still active when the session is committed.
LEMMA AccountsLoginFinish ==
  ASSUME AccountsInv, NEW u \in Users, NEW t \in Tokens, LoginFinish(u, t) PROVE AccountsInv'
<1>1. AccountsTypeOK'
  BY ZenonT(30), AccountsAssumption DEF LoginFinish, Exists, Session, AccountsInv, AccountsTypeOK,
     Account, NoSession, Change, NoChange
<1>2. LoginsActive'
  BY DEF LoginFinish, AccountsInv, LoginsActive, AccountsTypeOK
<1>3. ResetsTogether'
  BY DEF LoginFinish, AccountsInv, ResetsTogether
<1>4. GuessesCounted'
  BY AccountsAssumption DEF LoginFinish, AccountsInv, GuessesCounted, AccountsTypeOK
<1>5. NoStaleSession'
  BY DEF LoginFinish, Exists, Session, AccountsInv, NoStaleSession, AccountsTypeOK,
     LoginsActive
<1> QED
  BY <1>1, <1>2, <1>3, <1>4, <1>5 DEF AccountsInv

\* A login that is rolled back leaves nothing.
LEMMA AccountsLoginVictim ==
  ASSUME AccountsInv, NEW u \in Users, LoginVictim(u) PROVE AccountsInv'
<1>1. AccountsTypeOK'
  BY DEF LoginVictim, AccountsInv, AccountsTypeOK
<1>2. LoginsActive'
  BY DEF LoginVictim, AccountsInv, LoginsActive
<1>3. ResetsTogether'
  BY DEF LoginVictim, AccountsInv, ResetsTogether
<1>4. GuessesCounted'
  BY DEF LoginVictim, AccountsInv, GuessesCounted
<1>5. NoStaleSession'
  BY DEF LoginVictim, AccountsInv, NoStaleSession, Exists
<1> QED
  BY <1>1, <1>2, <1>3, <1>4, <1>5 DEF AccountsInv

\* Ending a session touches no account.
LEMMA AccountsEndSession ==
  ASSUME AccountsInv, NEW t \in Tokens, EndSession(t) PROVE AccountsInv'
<1>1. AccountsTypeOK'
  BY DEF EndSession, AccountsInv, AccountsTypeOK
<1>2. LoginsActive'
  BY DEF EndSession, AccountsInv, LoginsActive
<1>3. ResetsTogether'
  BY DEF EndSession, AccountsInv, ResetsTogether
<1>4. GuessesCounted'
  BY DEF EndSession, AccountsInv, GuessesCounted
<1>5. NoStaleSession'
  BY DEF EndSession, Exists, AccountsInv, NoStaleSession
<1> QED
  BY <1>1, <1>2, <1>3, <1>4, <1>5 DEF AccountsInv

\* What a change will write of the failures comes with a new password.
LEMMA AccountsReadRow ==
  ASSUME AccountsInv, NEW p \in Clerks, NEW u \in Users, NEW w \in Wishes, ReadRow(p, u, w)
  PROVE  AccountsInv'
<1>1. AccountsTypeOK'
  BY DEF ReadRow, Writes, Wishes, Columns, Change, AccountsInv, AccountsTypeOK
<1>2. LoginsActive'
  BY DEF ReadRow, AccountsInv, LoginsActive
<1>3. ResetsTogether'
  BY DEF ReadRow, Writes, Wishes, AccountsInv, ResetsTogether
<1>4. GuessesCounted'
  BY DEF ReadRow, AccountsInv, GuessesCounted
<1>5. NoStaleSession'
  BY DEF ReadRow, AccountsInv, NoStaleSession, Exists
<1> QED
  BY <1>1, <1>2, <1>3, <1>4, <1>5 DEF AccountsInv

\* The deletion shows at the commit.
LEMMA AccountsDeleteSessions ==
  ASSUME AccountsInv, NEW p \in Clerks, DeleteSessions(p) PROVE AccountsInv'
<1>6. change[p] \in Change
  BY DEF DeleteSessions, AccountsInv, AccountsTypeOK, NoChange
<1>1. AccountsTypeOK'
  BY <1>6 DEF DeleteSessions, Change, AccountsInv, AccountsTypeOK
<1>2. LoginsActive'
  BY DEF DeleteSessions, AccountsInv, LoginsActive
<1>3. ResetsTogether'
  BY DEF DeleteSessions, NoChange, AccountsInv, ResetsTogether
<1>4. GuessesCounted'
  BY DEF DeleteSessions, AccountsInv, GuessesCounted
<1>5. NoStaleSession'
  BY DEF DeleteSessions, AccountsInv, NoStaleSession, Exists
<1> QED
  BY <1>1, <1>2, <1>3, <1>4, <1>5 DEF AccountsInv

\* No login has locked a row that changes, and all its sessions end.
LEMMA AccountsCommitChange ==
  ASSUME AccountsInv, NEW p \in Clerks, CommitChange(p) PROVE AccountsInv'
<1>6. change[p] \in Change
  BY DEF CommitChange, Commit, AccountsInv, AccountsTypeOK, NoChange
<1>1. AccountsTypeOK'
  <2>1. Written(account[change[p].user], change[p].writes) \in Account
    <3>1. account[change[p].user] \in Account /\ change[p].user \in Users
      BY <1>6 DEF AccountsInv, AccountsTypeOK, Change
    <3>2. ASSUME NEW a \in Account, NEW cols PROVE Written(a, cols) \in Account
      <4>1. ((a.active \/ "active" \in cols) /\ "inactive" \notin cols) \in BOOLEAN
        OBVIOUS
      <4>2. (a.locked /\ "locked" \notin cols) \in BOOLEAN
        OBVIOUS
      <4> QED
        BY DEF Written, Account
    <3> QED
      BY <3>1, <3>2
  <2>2. account' \in [Users -> Account] /\ change' \in [Clerks -> Change \cup {NoChange}]
    BY <2>1 DEF CommitChange, Commit, AccountsInv, AccountsTypeOK
  <2>3. guesses' \in [Users -> Nat] /\ loggingIn' \subseteq Users
    BY DEF CommitChange, Commit, AccountsInv, AccountsTypeOK
  <2>4. session' \in [Tokens -> Session \cup {NoSession}]
    BY DEF CommitChange, Commit, AccountsInv, AccountsTypeOK
  <2> QED
    BY <2>2, <2>3, <2>4 DEF AccountsTypeOK
<1>2. LoginsActive'
  BY DEF CommitChange, Commit, Written, AccountsInv, LoginsActive, AccountsTypeOK
<1>3. ResetsTogether'
  BY DEF CommitChange, Commit, AccountsInv, ResetsTogether
<1>4. GuessesCounted'
  BY AccountsAssumption DEF CommitChange, Commit, Written, NoChange, AccountsInv,
     GuessesCounted, AccountsTypeOK, Account, ResetsTogether
<1>5. NoStaleSession'
  BY DEF CommitChange, Commit, Exists, AccountsInv, NoStaleSession
<1> QED
  BY <1>1, <1>2, <1>3, <1>4, <1>5 DEF AccountsInv

\* A change that is rolled back leaves nothing.
LEMMA AccountsChangeVictim ==
  ASSUME AccountsInv, NEW p \in Clerks, ChangeVictim(p) PROVE AccountsInv'
<1>1. AccountsTypeOK'
  BY DEF ChangeVictim, AccountsInv, AccountsTypeOK
<1>2. LoginsActive'
  BY DEF ChangeVictim, AccountsInv, LoginsActive
<1>3. ResetsTogether'
  BY DEF ChangeVictim, AccountsInv, ResetsTogether
<1>4. GuessesCounted'
  BY DEF ChangeVictim, AccountsInv, GuessesCounted
<1>5. NoStaleSession'
  BY DEF ChangeVictim, AccountsInv, NoStaleSession, Exists
<1> QED
  BY <1>1, <1>2, <1>3, <1>4, <1>5 DEF AccountsInv

\* Every step keeps the invariant.
LEMMA AccountsStep == ASSUME AccountsInv, [AccountsNext]_accountVars PROVE AccountsInv'
<1>1. CASE UNCHANGED accountVars
  BY <1>1 DEF accountVars, AccountsInv, AccountsTypeOK, LoginsActive, ResetsTogether,
     GuessesCounted, NoStaleSession, Exists
<1> QED
  BY <1>1, AccountsCreateUser, AccountsWrongPassword, AccountsLockEnds, AccountsLoginStart,
     AccountsLoginFinish, AccountsLoginVictim, AccountsEndSession, AccountsReadRow,
     AccountsDeleteSessions, AccountsCommitChange, AccountsChangeVictim DEF AccountsNext

-----------------------------------------------------------------------------
(* The theorems about accounts.                                             *)

\* Accounts keep their types.
THEOREM AccountsTypeCorrect == AccountsSpec => []AccountsTypeOK
<1>1. AccountsInv => AccountsTypeOK
  BY DEF AccountsInv
<1> QED
  BY <1>1, AccountsBegin, AccountsStep, PTL DEF AccountsSpec

\* No session outlives the deactivation of its account or its password, however
\* logins and changes overlap.
THEOREM SessionsAreCurrent == AccountsSpec => []NoStaleSession
<1>1. AccountsInv => NoStaleSession
  BY DEF AccountsInv
<1> QED
  BY <1>1, AccountsBegin, AccountsStep, PTL DEF AccountsSpec

\* FailedLimit bounds the guesses at a password, however changes overlap with them.
THEOREM GuessesAreBounded == AccountsSpec => []GuessesBounded
<1>1. AccountsInv => GuessesBounded
  <2>1. SUFFICES ASSUME AccountsInv, NEW u \in Users
                 PROVE  /\ guesses[u] <= FailedLimit
                        /\ ~account[u].locked => guesses[u] < FailedLimit
    BY DEF GuessesBounded
  <2>2. guesses[u] \in Nat /\ account[u].failed \in Nat /\ FailedLimit \in Nat
    BY <2>1, AccountsAssumption DEF AccountsInv, AccountsTypeOK, Account
  <2>3. /\ account[u].failed < FailedLimit /\ guesses[u] <= FailedLimit
        /\ ~account[u].locked => guesses[u] <= account[u].failed
    BY <2>1 DEF AccountsInv, GuessesCounted
  <2> QED
    BY <2>2, <2>3
<1> QED
  BY <1>1, AccountsBegin, AccountsStep, PTL DEF AccountsSpec

-----------------------------------------------------------------------------
(* Question sets: each action keeps SetsInv.                                *)

\* Initially there are no requests.
LEMMA SetsBegin == SetsInit => SetsInv
  BY DEF SetsInit, Lock!LockInit, Lock!LockFree, Lock!LockTypeOK, SetsInv, SetsTypeOK,
     ReplacementAsked, VouchedFor, RowsLocked, TasksHold, AtStage, NoTask

\* Nobody signs in under a request.
LEMMA SetsSignIn ==
  ASSUME SetsInv, NEW c \in Requesters, SignIn(c) PROVE SetsInv'
<1>1. SetsTypeOK'
  BY DEF SignIn, SetsInv, SetsTypeOK, Lock!LockTypeOK
<1>2. ReplacementAsked'
  BY DEF SignIn, SetsInv, ReplacementAsked, Generates
<1>3. VouchedFor'
  BY DEF SignIn, SetsInv, VouchedFor, Generates
<1>4. RowsLocked'
  BY DEF SignIn, SetsInv, RowsLocked, AtStage
<1>5. TasksHold'
  BY DEF SignIn, SetsInv, TasksHold
<1> QED
  BY <1>1, <1>2, <1>3, <1>4, <1>5 DEF SetsInv

\* Signing out vouches for nothing.
LEMMA SetsSignOut ==
  ASSUME SetsInv, NEW c \in Requesters, SignOut(c) PROVE SetsInv'
<1>1. SetsTypeOK'
  BY DEF SignOut, SetsInv, SetsTypeOK, Lock!LockTypeOK
<1>2. ReplacementAsked'
  BY DEF SignOut, SetsInv, ReplacementAsked, Generates
<1>3. VouchedFor'
  BY DEF SignOut, SetsInv, VouchedFor, Generates
<1>4. RowsLocked'
  BY DEF SignOut, SetsInv, RowsLocked, AtStage
<1>5. TasksHold'
  BY DEF SignOut, SetsInv, TasksHold
<1> QED
  BY <1>1, <1>2, <1>3, <1>4, <1>5 DEF SetsInv

\* A tab reads between its requests.
LEMMA SetsReadSet ==
  ASSUME SetsInv, NEW c \in Requesters, ReadSet(c) PROVE SetsInv'
<1>1. SetsTypeOK'
  BY DEF ReadSet, SetsInv, SetsTypeOK, Lock!LockTypeOK
<1>2. ReplacementAsked'
  BY DEF ReadSet, SetsInv, ReplacementAsked, Generates
<1>3. VouchedFor'
  BY DEF ReadSet, SetsInv, VouchedFor, Generates
<1>4. RowsLocked'
  BY DEF ReadSet, SetsInv, RowsLocked, AtStage
<1>5. TasksHold'
  BY DEF ReadSet, SetsInv, TasksHold
<1> QED
  BY <1>1, <1>2, <1>3, <1>4, <1>5 DEF SetsInv

\* A request begins with the lock.
LEMMA SetsRequestSet ==
  ASSUME SetsInv, NEW c \in Requesters, NEW o \in QuestionOps,
         NEW k \in Processes, NEW replace \in BOOLEAN, RequestSet(c, o, k, replace) PROVE SetsInv'
<1>1. SetsTypeOK'
  BY DEF RequestSet, Lock!Take, Task, QuestionStages, SetsInv, SetsTypeOK, Lock!LockTypeOK
<1>2. ReplacementAsked'
  BY DEF RequestSet, SetsInv, ReplacementAsked, Generates
<1>3. VouchedFor'
  BY DEF RequestSet, SetsInv, VouchedFor, Generates
<1>4. RowsLocked'
  BY DEF RequestSet, SetsInv, RowsLocked, AtStage
<1>5. TasksHold'
  BY SetsAssumption DEF RequestSet, Lock!Take, SetsInv, TasksHold, SetsTypeOK, Lock!LockTypeOK
<1> QED
  BY <1>1, <1>2, <1>3, <1>4, <1>5 DEF SetsInv

\* The model is asked only if the set may be replaced.
LEMMA SetsStartModel ==
  ASSUME SetsInv, NEW c \in Requesters, StartModel(c) PROVE SetsInv'
<1>1. SetsTypeOK'
  BY DEF StartModel, Serving, AtStage, Advance, Task, QuestionStages, SetsInv, SetsTypeOK,
     Lock!LockTypeOK, NoTask
<1>2. ReplacementAsked'
  BY DEF StartModel, Serving, Advance, MayGenerate, SetsInv, ReplacementAsked, Generates
<1>3. VouchedFor'
  BY DEF StartModel, Advance, SetsInv, VouchedFor, Generates
<1>4. RowsLocked'
  BY DEF StartModel, AtStage, Advance, SetsInv, RowsLocked
<1>5. TasksHold'
  BY DEF StartModel, Serving, AtStage, Advance, SetsInv, TasksHold, NoTask
<1> QED
  BY <1>1, <1>2, <1>3, <1>4, <1>5 DEF SetsInv

\* A second attempt changes nothing.
LEMMA SetsNothingValid ==
  ASSUME SetsInv, NEW c \in Requesters, NothingValid(c) PROVE SetsInv'
<1>1. SetsTypeOK'
  BY DEF NothingValid, AtStage, Advance, Task, QuestionStages, SetsInv, SetsTypeOK,
     Lock!LockTypeOK, NoTask
<1>2. ReplacementAsked'
  BY DEF NothingValid, AtStage, Advance, SetsInv, ReplacementAsked, Generates, NoTask
<1>3. VouchedFor'
  BY DEF NothingValid, Advance, SetsInv, VouchedFor, Generates
<1>4. RowsLocked'
  BY DEF NothingValid, AtStage, Advance, SetsInv, RowsLocked
<1>5. TasksHold'
  BY DEF NothingValid, AtStage, Advance, SetsInv, TasksHold, NoTask
<1> QED
  BY <1>1, <1>2, <1>3, <1>4, <1>5 DEF SetsInv

\* The answer is vouched for by the session of now.
LEMMA SetsModelAnswers ==
  ASSUME SetsInv, NEW c \in Requesters, ModelAnswers(c) PROVE SetsInv'
<1>1. SetsTypeOK'
  <2>4. task[c] \in Task
    BY DEF ModelAnswers, AtStage, SetsInv, SetsTypeOK, NoTask
  <2>1. ASSUME NEW b \in BOOLEAN, task' = [task EXCEPT ![c].stage = "answered", ![c].vouched = b]
        PROVE  task' \in [Requesters -> Task \cup {NoTask}]
    <3>1. ASSUME NEW t \in Task PROVE [t EXCEPT !.stage = "answered", !.vouched = b] \in Task
      BY DEF Task, QuestionStages
    <3>2. [task[c] EXCEPT !.stage = "answered", !.vouched = b] \in Task
      BY <2>4, <3>1
    <3>3. task' = [task EXCEPT ![c] = [task[c] EXCEPT !.stage = "answered", !.vouched = b]]
      BY <2>1
    <3> QED
      BY <3>2, <3>3 DEF SetsInv, SetsTypeOK
  <2>2. (c \in signedIn) \in BOOLEAN
    OBVIOUS
  <2>3. task' \in [Requesters -> Task \cup {NoTask}]
    BY <2>1, <2>2 DEF ModelAnswers
  <2> QED
    BY <2>3 DEF ModelAnswers, SetsInv, SetsTypeOK, Lock!LockTypeOK
<1>2. ReplacementAsked'
  BY DEF ModelAnswers, AtStage, SetsInv, ReplacementAsked, Generates, SetsTypeOK, NoTask
<1>3. VouchedFor'
  BY DEF ModelAnswers, AtStage, Task, SetsInv, VouchedFor, Generates, SetsTypeOK, NoTask
<1>4. RowsLocked'
  BY DEF ModelAnswers, AtStage, SetsInv, RowsLocked, SetsTypeOK
<1>5. TasksHold'
  BY DEF ModelAnswers, AtStage, SetsInv, TasksHold, SetsTypeOK, NoTask
<1> QED
  BY <1>1, <1>2, <1>3, <1>4, <1>5 DEF SetsInv

\* A failed request leaves the set alone.
LEMMA SetsSetFails ==
  ASSUME SetsInv, NEW c \in Requesters, SetFails(c) PROVE SetsInv'
<1>1. SetsTypeOK'
  BY DEF SetFails, EndRequest, Lock!Give, SetsInv, SetsTypeOK, Lock!LockTypeOK
<1>2. ReplacementAsked'
  BY DEF SetFails, EndRequest, SetsInv, ReplacementAsked, Generates
<1>3. VouchedFor'
  BY DEF SetFails, EndRequest, SetsInv, VouchedFor, Generates
<1>4. RowsLocked'
  BY DEF SetFails, EndRequest, SetsInv, RowsLocked, AtStage, SetsTypeOK, NoTask
<1>5. TasksHold'
  BY DEF SetFails, EndRequest, Lock!Give, SetsInv, TasksHold, SetsTypeOK
<1> QED
  BY <1>1, <1>2, <1>3, <1>4, <1>5 DEF SetsInv

\* The session is still the one that was valid at the answer.
LEMMA SetsCheckAgain ==
  ASSUME SetsInv, NEW c \in Requesters, CheckAgain(c) PROVE SetsInv'
<1>1. SetsTypeOK'
  BY DEF CheckAgain, Serving, AtStage, Advance, Task, QuestionStages, SetsInv, SetsTypeOK,
     Lock!LockTypeOK, NoTask
<1>2. ReplacementAsked'
  BY DEF CheckAgain, Serving, AtStage, Advance, SetsInv, ReplacementAsked, Generates, NoTask
<1>3. VouchedFor'
  BY DEF CheckAgain, Serving, AtStage, Advance, SetsInv, VouchedFor, Generates, NoTask
<1>4. RowsLocked'
  BY DEF CheckAgain, AtStage, Advance, SetsInv, RowsLocked
<1>5. TasksHold'
  BY DEF CheckAgain, Serving, AtStage, Advance, SetsInv, TasksHold, NoTask
<1> QED
  BY <1>1, <1>2, <1>3, <1>4, <1>5 DEF SetsInv

\* The set is the one that was shown when the row is locked.
LEMMA SetsLockRow ==
  ASSUME SetsInv, NEW c \in Requesters, LockRow(c) PROVE SetsInv'
<1>1. SetsTypeOK'
  BY DEF LockRow, Serving, AtStage, Advance, Task, QuestionStages, SetsInv, SetsTypeOK,
     Lock!LockTypeOK, NoTask
<1>2. ReplacementAsked'
  BY DEF LockRow, Serving, AtStage, Advance, SetsInv, ReplacementAsked, Generates, NoTask
<1>3. VouchedFor'
  BY DEF LockRow, Serving, AtStage, Advance, SetsInv, VouchedFor, Generates, NoTask
<1>4. RowsLocked'
  BY SetsAssumption DEF LockRow, Serving, AtStage, Advance, SetsInv, RowsLocked
<1>5. TasksHold'
  BY DEF LockRow, Serving, AtStage, Advance, SetsInv, TasksHold, NoTask
<1> QED
  BY <1>1, <1>2, <1>3, <1>4, <1>5 DEF SetsInv

\* Nobody else has the row locked when a set is saved.
LEMMA SetsSaveSet ==
  ASSUME SetsInv, NEW c \in Requesters, SaveSet(c) PROVE SetsInv'
<1>1. SetsTypeOK'
  BY DEF SaveSet, AtStage, EndRequest, Lock!Give, StoreNewSet, Task, SetsInv, SetsTypeOK,
     Lock!LockTypeOK, NoTask
<1>2. ReplacementAsked'
  BY DEF SaveSet, EndRequest, SetsInv, ReplacementAsked, Generates, SetsTypeOK
<1>3. VouchedFor'
  BY DEF SaveSet, EndRequest, SetsInv, VouchedFor, Generates
<1>4. RowsLocked'
  BY DEF SaveSet, AtStage, EndRequest, SetsInv, RowsLocked, SetsTypeOK, NoTask
<1>5. TasksHold'
  BY DEF SaveSet, EndRequest, Lock!Give, SetsInv, TasksHold, SetsTypeOK
<1> QED
  BY <1>1, <1>2, <1>3, <1>4, <1>5 DEF SetsInv

\* The old path saves while nobody has the row locked.
LEMMA SetsLegacySave ==
  ASSUME SetsInv, NEW c \in Requesters, LegacySave(c) PROVE SetsInv'
<1>1. SetsTypeOK'
  BY DEF LegacySave, Serving, AtStage, EndRequest, Lock!Give, StoreNewSet, Task, SetsInv,
     SetsTypeOK, Lock!LockTypeOK, NoTask
<1>2. ReplacementAsked'
  BY DEF LegacySave, EndRequest, SetsInv, ReplacementAsked, Generates
<1>3. VouchedFor'
  BY DEF LegacySave, EndRequest, SetsInv, VouchedFor, Generates
<1>4. RowsLocked'
  BY SetsAssumption DEF LegacySave, AtStage, EndRequest, SetsInv, RowsLocked, NoTask
<1>5. TasksHold'
  BY DEF LegacySave, EndRequest, Lock!Give, SetsInv, TasksHold, SetsTypeOK
<1> QED
  BY <1>1, <1>2, <1>3, <1>4, <1>5 DEF SetsInv

\* The page's DELETE empties the set.
LEMMA SetsLegacyDelete ==
  ASSUME SetsInv, NEW c \in Requesters, LegacyDelete(c) PROVE SetsInv'
<1>1. SetsTypeOK'
  BY DEF LegacyDelete, EndRequest, Lock!Give, SetsInv, SetsTypeOK, Lock!LockTypeOK
<1>2. ReplacementAsked'
  BY DEF LegacyDelete, EndRequest, SetsInv, ReplacementAsked, Generates
<1>3. VouchedFor'
  BY DEF LegacyDelete, EndRequest, SetsInv, VouchedFor, Generates
<1>4. RowsLocked'
  BY DEF LegacyDelete, AtStage, EndRequest, SetsInv, RowsLocked, NoTask
<1>5. TasksHold'
  BY DEF LegacyDelete, EndRequest, Lock!Give, SetsInv, TasksHold, SetsTypeOK
<1> QED
  BY <1>1, <1>2, <1>3, <1>4, <1>5 DEF SetsInv

\* Every step keeps the invariant.
LEMMA SetsStep == ASSUME SetsInv, [SetsNext]_setVars PROVE SetsInv'
<1>1. CASE UNCHANGED setVars
  BY <1>1 DEF setVars, SetsInv, SetsTypeOK, Lock!LockTypeOK, ReplacementAsked, VouchedFor,
     RowsLocked, TasksHold, Generates, AtStage
<1> QED
  BY <1>1, SetsSignIn, SetsSignOut, SetsReadSet, SetsRequestSet, SetsStartModel,
     SetsNothingValid, SetsModelAnswers, SetsSetFails, SetsCheckAgain, SetsLockRow,
     SetsSaveSet, SetsLegacySave, SetsLegacyDelete DEF SetsNext

\* A request of the API that changes the set saves or deletes: no other step changes its
\* task and the set.
LEMMA ChangesAreSaves ==
  ASSUME SetsInv, [SetsNext]_setVars, NEW c \in Requesters, Changes(c) PROVE SaveSet(c)
<1>1. ASSUME NEW d \in Requesters, d # c,
             \/ LegacySave(d) \/ LegacyDelete(d) \/ SaveSet(d)
      PROVE  FALSE
  <2>1. task'[c] = task[c]
    BY <1>1 DEF LegacySave, LegacyDelete, SaveSet, EndRequest, SetsInv, SetsTypeOK
  <2> QED
    BY <2>1 DEF Changes
<1>2. ~LegacySave(c) /\ ~LegacyDelete(c)
  BY DEF LegacySave, LegacyDelete, Serving, Changes
<1> QED
  BY <1>1, <1>2 DEF SetsNext, SignIn, SignOut, ReadSet, RequestSet, StartModel, NothingValid,
     ModelAnswers, SetFails, CheckAgain, LockRow, Changes, setVars

-----------------------------------------------------------------------------
(* The theorems about question sets.                                        *)

\* The question sets keep their types.
THEOREM SetsTypeCorrect == SetsSpec => []SetsTypeOK
<1>1. SetsInv => SetsTypeOK
  BY DEF SetsInv
<1> QED
  BY <1>1, SetsBegin, SetsStep, PTL DEF SetsSpec

\* What a request replaces or deletes is what its tab had shown, and what it saves was
\* asked for and vouched for.
THEOREM SetsAreSavedAsAsked == SetsSpec => SavedAsAsked
<1>1. ASSUME SetsInv, [SetsNext]_setVars, NEW c \in Requesters, Changes(c)
      PROVE  /\ items \in {shownSet[c], 0}
             /\ task[c].op = "generate" =>
                  /\ items # 0 => task[c].replace
                  /\ task[c].vouched
  <2>1. AtStage(c, "locked")
    BY <1>1, ChangesAreSaves DEF SaveSet
  <2> QED
    BY <1>1, <2>1 DEF SetsInv, RowsLocked, ReplacementAsked, VouchedFor, Generates, Changes,
       AtStage
<1>2. SetsInv /\ [SetsNext]_setVars =>
        [\A c \in Requesters : Changes(c) =>
           /\ items \in {shownSet[c], 0}
           /\ task[c].op = "generate" =>
                /\ items # 0 => task[c].replace
                /\ task[c].vouched]_setVars
  BY <1>1
<1> QED
  BY <1>2, SetsBegin, SetsStep, PTL DEF SetsSpec, SavedAsAsked


-----------------------------------------------------------------------------
(* Management: each action keeps ManagementInv.                             *)

\* How sets of requests compare.
LEMMA MakersCount ==
  ASSUME NEW S \in SUBSET Makers, NEW T \in SUBSET Makers, NEW x
  PROVE  /\ Cardinality(S) \in Nat /\ Cardinality(T) \in Nat
         /\ T \subseteq S => Cardinality(T) <= Cardinality(S)
         /\ T \subseteq S \cup {x} => Cardinality(T) <= Cardinality(S) + 1
         /\ x \in S /\ T \subseteq S \ {x} => Cardinality(T) + 1 <= Cardinality(S)
<1>1. IsFiniteSet(S) /\ IsFiniteSet(T)
  BY ManagementAssumption, FS_Subset
<1>2. Cardinality(S) \in Nat /\ Cardinality(T) \in Nat
  BY <1>1, FS_CardinalityType
<1>3. T \subseteq S => Cardinality(T) <= Cardinality(S)
  BY <1>1, FS_Subset
<1>4. ASSUME T \subseteq S \cup {x} PROVE Cardinality(T) <= Cardinality(S) + 1
  <2>1. CASE x \in S
    <3>1. T \subseteq S
      BY <1>4, <2>1
    <3> QED
      BY <1>2, <1>3, <3>1
  <2>2. CASE x \notin S
    <3>1. IsFiniteSet(S \cup {x}) /\ Cardinality(S \cup {x}) = Cardinality(S) + 1
      BY <1>1, <2>2, FS_AddElement
    <3>2. Cardinality(T) <= Cardinality(S \cup {x})
      BY <1>4, <3>1, FS_Subset
    <3> QED
      BY <3>1, <3>2
  <2> QED
    BY <2>1, <2>2
<1>5. ASSUME x \in S, T \subseteq S \ {x} PROVE Cardinality(T) + 1 <= Cardinality(S)
  <2>1. IsFiniteSet(S \ {x}) /\ Cardinality(S \ {x}) = Cardinality(S) - 1
    BY <1>1, <1>5, FS_RemoveElement
  <2>2. Cardinality(T) <= Cardinality(S \ {x})
    BY <1>5, <2>1, FS_Subset
  <2> QED
    BY <1>2, <2>1, <2>2
<1> QED
  BY <1>2, <1>3, <1>4, <1>5

\* While nothing is under way, names that are there once are unique.
LEMMA NothingIsMade ==
  ASSUME ManagementTypeOK, NothingUnderWay, \A n \in Names : copies[n] \in {0, 1}
  PROVE  ManagementInv
<1>1. ASSUME NEW n \in Names
      PROVE  Bereft(n) = {} /\ Inserting(n) = {} /\ lostNames[n] = 0
  BY <1>1 DEF NothingUnderWay, Bereft, Inserting, NotMaking
<1>2. Cardinality({}) = 0
  BY FS_EmptySet
<1>3. LosersCounted
  BY <1>1, <1>2 DEF LosersCounted
<1>4. ASSUME NEW n \in Names
      PROVE  copies[n] + Cardinality(Inserting(n)) <= 1 + lostNames[n]
  <2>1. Cardinality(Inserting(n)) = 0 /\ lostNames[n] = 0 /\ copies[n] \in {0, 1}
    BY <1>1, <1>2
  <2> QED
    BY <2>1
<1> QED
  BY <1>3, <1>4 DEF ManagementInv, InsertsCounted

\* Initially nothing has a name, and nobody makes anything.
LEMMA ManagementBegin == ManagementInit => ManagementInv
<1> SUFFICES ASSUME ManagementInit PROVE ManagementInv
  OBVIOUS
<1>1. ManagementTypeOK
  BY DEF ManagementInit, NothingUnderWay, ManagementTypeOK
<1> QED
  BY <1>1, NothingIsMade DEF ManagementInit

\* Of each name, what the invariant counts: sets of requests, and their sizes.
LEMMA ManagementCounts ==
  ASSUME ManagementInv, NEW n \in Names
  PROVE  /\ Bereft(n) \in SUBSET Makers /\ Inserting(n) \in SUBSET Makers
         /\ Bereft(n)' \in SUBSET Makers /\ Inserting(n)' \in SUBSET Makers
         /\ copies[n] \in Nat /\ lostNames[n] \in Nat
         /\ Cardinality(Bereft(n)) \in Nat /\ Cardinality(Inserting(n)) \in Nat
         /\ Cardinality(Bereft(n)) <= lostNames[n]
         /\ copies[n] + Cardinality(Inserting(n)) <= 1 + lostNames[n]
<1>1. /\ Bereft(n) \in SUBSET Makers /\ Inserting(n) \in SUBSET Makers
      /\ Bereft(n)' \in SUBSET Makers /\ Inserting(n)' \in SUBSET Makers
  BY DEF Bereft, Inserting
<1> QED
  BY <1>1, MakersCount DEF ManagementInv, ManagementTypeOK, LosersCounted, InsertsCounted

\* A step that adds no row, and nobody who inserts or has lost a lock.
LEMMA NobodyMore ==
  ASSUME ManagementInv, ManagementTypeOK', UNCHANGED <<copies, lostNames>>,
         \A n \in Names : Bereft(n)' \subseteq Bereft(n) /\ Inserting(n)' \subseteq Inserting(n)
  PROVE  ManagementInv'
<1>1. ASSUME NEW n \in Names
      PROVE  /\ Cardinality(Bereft(n)') <= lostNames[n]
             /\ copies[n] + Cardinality(Inserting(n)') <= 1 + lostNames[n]
  <2>1. /\ Cardinality(Bereft(n)') \in Nat /\ Cardinality(Inserting(n)') \in Nat
        /\ Cardinality(Bereft(n)') <= Cardinality(Bereft(n))
        /\ Cardinality(Inserting(n)') <= Cardinality(Inserting(n))
    BY ManagementCounts, MakersCount
  <2> QED
    BY <2>1, ManagementCounts
<1> QED
  BY <1>1 DEF ManagementInv, LosersCounted, InsertsCounted

\* A name that is taken was free: whoever works on it has lost it already.
LEMMA ManagementTake ==
  ASSUME ManagementInv, NEW m \in Makers, NEW n \in Names, TakeName(m, n)
  PROVE  ManagementInv'
<1>1. ManagementTypeOK'
  BY DEF TakeName, ManagementInv, ManagementTypeOK, Making
<1>2. ASSUME NEW k \in Names
      PROVE  Bereft(k)' \subseteq Bereft(k) /\ Inserting(k)' \subseteq Inserting(k)
  BY ManagementAssumption DEF TakeName, ManagementInv, ManagementTypeOK, Bereft, Inserting, Holds
<1> QED
  BY <1>1, <1>2, NobodyMore DEF TakeName

\* A request that is under way has a name.
LEMMA MakingIs ==
  ASSUME ManagementTypeOK, NEW m \in Makers, making[m] # NotMaking PROVE making[m] \in Making
  BY DEF ManagementTypeOK

\* A name that is missing has at most one inserter more than have lost its lock.
LEMMA ManagementCheck ==
  ASSUME ManagementInv, NEW m \in Makers, CheckName(m) PROVE ManagementInv'
<1> DEFINE n == making[m].name
<1>1. making[m] \in Making /\ making[m] # NotMaking /\ n \in Names
  BY MakingIs DEF CheckName, ManagementInv, NotMaking, Making
<1>2. /\ ManagementTypeOK' /\ UNCHANGED <<copies, nameLock, lostNames>>
      /\ copies[n] = 0
  BY <1>1 DEF CheckName, ManagementInv, ManagementTypeOK, Making
<1>3. /\ making'[m] # NotMaking /\ making'[m].name = n
      /\ \A k \in Makers \ {m} : making'[k] = making[k]
  BY <1>1 DEF CheckName, ManagementInv, ManagementTypeOK, Making, NotMaking
<1> HIDE DEF n
<1>4. ASSUME NEW k \in Names
      PROVE  Bereft(k)' = Bereft(k)
  BY <1>1, <1>2, <1>3 DEF Bereft, Holds, n
<1>5. ASSUME NEW k \in Names \ {n}
      PROVE  Inserting(k)' \subseteq Inserting(k)
  BY <1>3 DEF Inserting
<1>6. LosersCounted'
  BY <1>2, <1>4 DEF ManagementInv, LosersCounted
<1>7. ASSUME NEW k \in Names
      PROVE  copies[k] + Cardinality(Inserting(k)') <= 1 + lostNames[k]
  <2>1. CASE k = n
    <3>1. Inserting(k)' \subseteq Bereft(k) \cup {nameLock[n]}
      <4>1. m \in Bereft(k) \cup {nameLock[n]}
        BY <1>1, <2>1 DEF Bereft, Holds, n
      <4>2. ASSUME NEW q \in Makers \ {m}, q \in Inserting(k)'
            PROVE  q \in Bereft(k) \cup {nameLock[n]}
        BY <1>3, <2>1, <4>2 DEF Bereft, Inserting, Holds, NotMaking
      <4> QED
        BY <4>1, <4>2 DEF Inserting
    <3>2. /\ Cardinality(Inserting(k)') \in Nat
          /\ Cardinality(Inserting(k)') <= Cardinality(Bereft(k)) + 1
      BY <3>1, ManagementCounts, MakersCount
    <3> QED
      BY <1>2, <2>1, <3>2, ManagementCounts
  <2>2. CASE k # n
    <3>1. /\ Cardinality(Inserting(k)') \in Nat
          /\ Cardinality(Inserting(k)') <= Cardinality(Inserting(k))
      BY <1>5, <2>2, ManagementCounts, MakersCount
    <3> QED
      BY <3>1, ManagementCounts
  <2> QED
    BY <2>1, <2>2
<1>8. InsertsCounted'
  BY <1>2, <1>7 DEF InsertsCounted
<1> QED
  BY <1>2, <1>6, <1>8 DEF ManagementInv

\* Whoever inserts a name is one inserter less.
LEMMA ManagementInsert ==
  ASSUME ManagementInv, NEW m \in Makers, InsertName(m) PROVE ManagementInv'
<1> DEFINE n == making[m].name
<1>1. making[m] \in Making /\ making[m] # NotMaking /\ n \in Names
  BY MakingIs DEF InsertName, ManagementInv, NotMaking, Making
<1>2. /\ ManagementTypeOK' /\ UNCHANGED <<nameLock, lostNames>>
      /\ copies'[n] = copies[n] + 1
      /\ \A k \in Names \ {n} : copies'[k] = copies[k]
  BY <1>1 DEF InsertName, ManagementInv, ManagementTypeOK, Making
<1>3. /\ making'[m] # NotMaking /\ making'[m].name = n /\ making'[m].stage = "created"
      /\ making[m].stage = "checked"
      /\ \A k \in Makers \ {m} : making'[k] = making[k]
  BY <1>1 DEF InsertName, ManagementInv, ManagementTypeOK, Making, NotMaking
<1> HIDE DEF n
<1>4. ASSUME NEW k \in Names
      PROVE  Bereft(k)' = Bereft(k)
  BY <1>1, <1>2, <1>3 DEF Bereft, Holds, n
<1>5. ASSUME NEW k \in Names
      PROVE  /\ Inserting(k)' \subseteq Inserting(k)
             /\ k = n => m \in Inserting(k) /\ Inserting(k)' \subseteq Inserting(k) \ {m}
  BY <1>3 DEF Inserting, n
<1>6. LosersCounted'
  BY <1>2, <1>4 DEF ManagementInv, LosersCounted
<1>7. ASSUME NEW k \in Names
      PROVE  copies'[k] + Cardinality(Inserting(k)') <= 1 + lostNames[k]
  <2>1. CASE k = n
    <3>1. /\ Cardinality(Inserting(k)') \in Nat
          /\ Cardinality(Inserting(k)') + 1 <= Cardinality(Inserting(k))
      BY <1>5, <2>1, ManagementCounts, MakersCount
    <3> QED
      BY <1>2, <2>1, <3>1, ManagementCounts
  <2>2. CASE k # n
    <3>1. /\ Cardinality(Inserting(k)') \in Nat
          /\ Cardinality(Inserting(k)') <= Cardinality(Inserting(k))
      BY <1>5, ManagementCounts, MakersCount
    <3> QED
      BY <1>2, <2>2, <3>1, ManagementCounts
  <2> QED
    BY <2>1, <2>2
<1>8. InsertsCounted'
  BY <1>2, <1>7 DEF InsertsCounted
<1> QED
  BY <1>2, <1>6, <1>8 DEF ManagementInv

\* Whoever ends gives back a lock that is its own.
LEMMA ManagementEnd ==
  ASSUME ManagementInv, NEW m \in Makers, EndMaking(m) PROVE ManagementInv'
<1>1. making[m] \in Making /\ making[m].name \in Names
  BY MakingIs DEF EndMaking, ManagementInv, Making
<1>2. ManagementTypeOK'
  BY <1>1 DEF EndMaking, ManagementInv, ManagementTypeOK, Making
<1>3. /\ making'[m] = NotMaking /\ \A k \in Makers \ {m} : making'[k] = making[k]
      /\ \A n \in Names : nameLock'[n] = nameLock[n] \/ nameLock[n] = m
  BY <1>1 DEF EndMaking, ManagementInv, ManagementTypeOK, Holds
<1>4. ASSUME NEW n \in Names
      PROVE  Bereft(n)' \subseteq Bereft(n) /\ Inserting(n)' \subseteq Inserting(n)
  BY <1>3 DEF Bereft, Inserting, Holds, NotMaking
<1> QED
  BY <1>2, <1>4, NobodyMore DEF EndMaking

\* A request more has lost its lock, and one more is allowed for.
LEMMA ManagementLose ==
  ASSUME ManagementInv, NEW m \in Makers, LoseName(m) PROVE ManagementInv'
<1> DEFINE n == making[m].name
<1>1. making[m] \in Making /\ n \in Names
  BY MakingIs DEF LoseName, ManagementInv, Making
<1>2. /\ ManagementTypeOK' /\ UNCHANGED <<copies, making>>
      /\ lostNames'[n] = lostNames[n] + 1
      /\ \A k \in Names \ {n} : lostNames'[k] = lostNames[k] /\ nameLock'[k] = nameLock[k]
      /\ nameLock[n] = m
  BY <1>1 DEF LoseName, ManagementInv, ManagementTypeOK, Holds
<1> HIDE DEF n
<1>3. ASSUME NEW k \in Names
      PROVE  /\ Inserting(k)' = Inserting(k)
             /\ k # n => Bereft(k)' \subseteq Bereft(k)
             /\ k = n => Bereft(k)' \subseteq Bereft(k) \cup {m}
  BY <1>2 DEF Inserting, Bereft, Holds
<1>4. ASSUME NEW k \in Names
      PROVE  /\ Cardinality(Bereft(k)') <= lostNames'[k]
             /\ copies[k] + Cardinality(Inserting(k)') <= 1 + lostNames'[k]
  <2>1. /\ Cardinality(Bereft(k)') \in Nat
        /\ k # n => Cardinality(Bereft(k)') <= Cardinality(Bereft(k))
        /\ k = n => Cardinality(Bereft(k)') <= Cardinality(Bereft(k)) + 1
    BY <1>3, ManagementCounts, MakersCount
  <2>2. k # n => lostNames'[k] = lostNames[k]
    BY <1>2
  <2>3. k = n => lostNames'[k] = lostNames[k] + 1
    BY <1>2
  <2>4. Inserting(k)' = Inserting(k)
    BY <1>3
  <2> QED
    BY <2>1, <2>2, <2>3, <2>4, ManagementCounts
<1> QED
  BY <1>2, <1>4 DEF ManagementInv, LosersCounted, InsertsCounted

\* An assignment creates nothing.
LEMMA ManagementPlace ==
  ASSUME ManagementInv, NEW c \in People, NEW o \in Openings \cup {NoOpening}, Place(c, o),
         UNCHANGED <<copies, nameLock, making, lostNames>>
  PROVE  ManagementInv'
<1>1. ManagementTypeOK'
  BY DEF Place, StoreCandidate, AssignPosting, ManagementInv, ManagementTypeOK
<1> QED
  BY <1>1, NobodyMore DEF Bereft, Inserting, Holds

\* Every step of management keeps the invariant.
LEMMA ManagementStep ==
  ASSUME ManagementInv, [ManagementNext]_managementVars PROVE ManagementInv'
<1>1. CASE UNCHANGED managementVars
  <2>1. ManagementTypeOK'
    BY <1>1 DEF managementVars, ManagementInv, ManagementTypeOK
  <2> QED
    BY <1>1, <2>1, NobodyMore DEF managementVars, Bereft, Inserting, Holds
<1> QED
  BY <1>1, ManagementTake, ManagementCheck, ManagementInsert, ManagementEnd, ManagementLose,
     ManagementPlace
  DEF ManagementNext

\* However many rows are about to be inserted, those that are there are not too many.
LEMMA CountedAreUnique == ManagementInv => NamesUnique
<1> SUFFICES ASSUME ManagementInv, NEW n \in Names PROVE copies[n] <= 1 + lostNames[n]
  BY DEF NamesUnique
<1> QED
  BY ManagementCounts

\* Management keeps its types.
THEOREM ManagementTypeCorrect == ManagementSpec => []ManagementTypeOK
<1>1. ManagementInv => ManagementTypeOK
  BY DEF ManagementInv
<1> QED
  BY <1>1, ManagementBegin, ManagementStep, PTL DEF ManagementSpec

\* However many create at the same time, only locks that break under their holders let a
\* department or an opening be created twice, and once for each.
THEOREM NamesAreUnique == ManagementSpec => []NamesUnique
  BY CountedAreUnique, ManagementBegin, ManagementStep, PTL DEF ManagementSpec

-----------------------------------------------------------------------------
(* The best of a set.                                                       *)

\* The lesser of two numbers.
LEMMA MinOfTwo ==
  ASSUME NEW a \in Nat, NEW b \in Nat
  PROVE  Min({a, b}) = IF a <= b THEN a ELSE b
<1>1. \E x \in {a, b} : \A y \in {a, b} : x =< y
  OBVIOUS
<1> QED
  BY <1>1 DEF Min

\* The best are members, as many as were asked for if there are so many.
LEMMA BestIs ==
  ASSUME NEW n \in Nat, NEW S \in SUBSET People, NEW T \in Best(n, S)
  PROVE  /\ T \subseteq S /\ Cardinality(T) \in Nat /\ Cardinality(S) \in Nat
         /\ Cardinality(T) = IF n <= Cardinality(S) THEN n ELSE Cardinality(S)
<1>1. IsFiniteSet(S) /\ Cardinality(S) \in Nat
  BY SearchAssumption, FS_Subset, FS_CardinalityType
<1>2. T \in SUBSET S /\ Cardinality(T) = Min({n, Cardinality(S)})
  BY DEF Best, kSubset
<1> QED
  BY <1>1, <1>2, MinOfTwo

\* People can be counted.
LEMMA CountOfPeople ==
  ASSUME NEW S \in SUBSET People PROVE Cardinality(S) \in Nat
  BY SearchAssumption, FS_Subset, FS_CardinalityType

\* Asking for several times the limit asks for no less.
LEMMA NotLess ==
  ASSUME NEW m \in Nat \ {0}, NEW n \in Nat PROVE m * n \in Nat /\ n <= m * n
<1>1. m * n \in Nat
  OBVIOUS
<1>2. PICK k \in Nat : m = k + 1
  BY m - 1 \in Nat
<1>3. k * n \in Nat /\ m * n = k * n + n
  BY <1>2
<1> QED
  BY <1>1, <1>3

-----------------------------------------------------------------------------
(* The search: each action keeps SearchInv.                                 *)

\* A request past its start is a record of its kind.
LEMMA AskedIs ==
  ASSUME SearchTypeOK, query.stage # "none" \/ query # NoQuery PROVE query \in Query
  BY DEF SearchTypeOK, NoQuery

\* The fields of a request.
LEMMA QueryFields ==
  ASSUME NEW q \in Query
  PROVE  /\ q.department \in Departments \cup {Everywhere}
         /\ q.ranks \in BOOLEAN
         /\ q.eligible \subseteq People /\ q.allowed \subseteq People /\ q.pool \subseteq People
         /\ q.found \subseteq People /\ q.shortlist \subseteq People /\ q.result \subseteq People
         /\ q.findable \in Nat /\ q.seen \subseteq People
         /\ q # NoQuery
  BY DEF Query, NoQuery

\* What a request is made of.
LEMMA Begun ==
  ASSUME NEW stage \in {"scope", "found", "evaluating"}, NEW ranks \in BOOLEAN,
         NEW d \in Departments \cup {Everywhere}, NEW eligible \in SUBSET People,
         NEW found \in SUBSET People, NEW shortlist \in SUBSET People,
         NEW P \in SUBSET People
  PROVE  [stage |-> stage, ranks |-> ranks, department |-> d, eligible |-> eligible,
          allowed |-> {}, pool |-> {}, found |-> found, shortlist |-> shortlist,
          result |-> {}, findable |-> 0, seen |-> P] \in Query
  BY DEF Query

\* It stays one when it has seen more.
LEMMA SeenMore ==
  ASSUME NEW q \in Query, NEW P \in SUBSET People
  PROVE  [q EXCEPT !.seen = @ \cup P] \in Query
  BY DEF Query

\* When its scope has been read.
LEMMA ScopeKnown ==
  ASSUME NEW q \in Query, NEW P \in SUBSET People, NEW s \in {"found", "vectors"}
  PROVE  [q EXCEPT !.allowed = P, !.stage = s] \in Query
  BY DEF Query

\* When Qdrant has answered.
LEMMA Pooled ==
  ASSUME NEW q \in Query, NEW P \in SUBSET People, NEW n \in Nat
  PROVE  [q EXCEPT !.pool = P, !.stage = "keywords", !.findable = n] \in Query
  BY DEF Query

\* When the answers are merged.
LEMMA Merged ==
  ASSUME NEW q \in Query, NEW P \in SUBSET People
  PROVE  [q EXCEPT !.found = P, !.stage = "found", !.allowed = {}, !.pool = {}] \in Query
  BY DEF Query

\* When it has a shortlist.
LEMMA Shortlisted ==
  ASSUME NEW q \in Query, NEW P \in SUBSET People
  PROVE  [q EXCEPT !.shortlist = P, !.stage = "evaluating"] \in Query
  BY DEF Query

\* When a profile has been evaluated.
LEMMA Evaluated ==
  ASSUME NEW q \in Query, NEW P \in SUBSET People, NEW R \in SUBSET People
  PROVE  [q EXCEPT !.shortlist = P, !.result = @ \cup R] \in Query
  BY DEF Query

\* Those permitted are people.
LEMMA PermittedPeople ==
  ASSUME NEW d PROVE Permitted(d) \in SUBSET People
  BY DEF Permitted, PermittedIn

\* Text in Qdrant is nobody's until its candidate is stored.
LEMMA SearchText ==
  ASSUME SearchInv, NEW c \in People, UpsertText(c) \/ RemoveText(c) PROVE SearchInv'
<1>1. UNCHANGED managementVars /\ UNCHANGED <<indexed, query>> /\ points' \subseteq People
  BY DEF UpsertText, RemoveText, SearchInv, SearchTypeOK
<1>2. SearchTypeOK'
  BY <1>1 DEF SearchInv, SearchTypeOK, ManagementTypeOK, managementVars
<1> QED
  BY <1>1, <1>2 DEF SearchInv, managementVars, KeptPermitted, Permitted, PermittedIn, Asked,
     PoolFull, NotCrowdedOut, Answered

\* An index that is rebuilt changes no answer.
LEMMA SearchRefreshIndex ==
  ASSUME SearchInv, RefreshIndex PROVE SearchInv'
<1>1. SearchTypeOK'
  BY DEF RefreshIndex, SearchInv, SearchTypeOK, ManagementTypeOK, managementVars
<1> QED
  BY <1>1 DEF RefreshIndex, SearchInv, managementVars, KeptPermitted, Permitted, PermittedIn,
     Asked, PoolFull, NotCrowdedOut, Answered

\* Whoever comes to belong to the department is seen.
LEMMA SearchPlaceCandidate ==
  ASSUME SearchInv, NEW c \in People, NEW o \in Openings \cup {NoOpening}, PlaceCandidate(c, o)
  PROVE  SearchInv'
<1>1. /\ UNCHANGED <<copies, nameLock, making, lostNames, points, indexed>>
      /\ placed' = [placed EXCEPT ![c] = o]
  BY DEF PlaceCandidate, Place, StoreCandidate, AssignPosting
<1>2. ManagementTypeOK'
  BY <1>1 DEF SearchInv, SearchTypeOK, ManagementTypeOK
<1>3. CASE query = NoQuery
  <2>1. query' = NoQuery
    BY <1>3 DEF PlaceCandidate
  <2> QED
    BY <1>1, <1>2, <1>3, <2>1 DEF SearchInv, SearchTypeOK, KeptPermitted, Asked, PoolFull,
       NotCrowdedOut, Answered, NoQuery
<1>4. CASE query # NoQuery
  <2>1. query \in Query
    BY <1>4, AskedIs DEF SearchInv
  <2>2. PICK P \in SUBSET People :
          /\ P = PermittedIn(placed', query.department)
          /\ query' = [query EXCEPT !.seen = @ \cup P]
    BY <1>4 DEF PlaceCandidate, PermittedIn
  <2>3. query' \in Query
    BY <2>1, <2>2, SeenMore
  <2>4. /\ query'.stage = query.stage /\ query'.department = query.department
        /\ query'.allowed = query.allowed /\ query'.pool = query.pool
        /\ query'.found = query.found /\ query'.shortlist = query.shortlist
        /\ query'.result = query.result /\ query'.findable = query.findable
        /\ query'.seen = query.seen \cup P
    BY <2>1, <2>2 DEF Query
  <2>5. SearchTypeOK'
    BY <1>1, <1>2, <2>3 DEF SearchInv, SearchTypeOK
  <2>6. Permitted(query.department)' \subseteq query'.seen
    BY <2>2, <2>4 DEF Permitted
  <2>7. KeptPermitted'
    BY <1>4, <2>4, <2>6 DEF SearchInv, KeptPermitted, Asked, Permitted
  <2> QED
    BY <2>4, <2>5, <2>7 DEF SearchInv, PoolFull, NotCrowdedOut, Answered
<1> QED
  BY <1>3, <1>4

\* A request begins with those who belong now, and has found none but them.
LEMMA SearchBegins ==
  ASSUME SearchInv, NEW stage \in {"scope", "found", "evaluating"}, NEW ranks \in BOOLEAN,
         NEW d \in Departments \cup {Everywhere}, NEW eligible \in SUBSET People,
         NEW found \in SUBSET People, NEW shortlist \in SUBSET People,
         found \subseteq Permitted(d), Begin(stage, ranks, d, eligible, found, shortlist)
  PROVE  SearchInv'
<1>1. PICK P \in SUBSET People :
        /\ P = Permitted(d)
        /\ query' = [stage |-> stage, ranks |-> ranks, department |-> d,
                     eligible |-> eligible, allowed |-> {}, pool |-> {}, found |-> found,
                     shortlist |-> shortlist, result |-> {}, findable |-> 0, seen |-> P]
  BY PermittedPeople DEF Begin
<1>2. SearchTypeOK'
  <2>1. query' \in Query
    BY <1>1, Begun
  <2> QED
    BY <2>1 DEF Begin, SearchInv, SearchTypeOK, ManagementTypeOK, managementVars
<1>3. Permitted(d)' = P
  BY <1>1 DEF Begin, Permitted, PermittedIn, managementVars
<1>4. KeptPermitted'
  BY <1>1, <1>3 DEF KeptPermitted, Permitted
<1>5. NotCrowdedOut'
  <2>1. Min({Limit, 0}) = 0
    BY MinOfTwo, SearchAssumption
  <2> QED
    BY <1>1, <2>1, CountOfPeople DEF NotCrowdedOut
<1> QED
  BY <1>1, <1>2, <1>4, <1>5 DEF SearchInv, PoolFull

\* A search has found nobody yet.
LEMMA SearchStartQuery ==
  ASSUME SearchInv, NEW ranks \in BOOLEAN, NEW d \in Departments \cup {Everywhere},
         NEW S \in SUBSET People, StartQuery(ranks, d, S)
  PROVE  SearchInv'
  BY SearchBegins DEF StartQuery

\* A list is of those who belong now.
LEMMA SearchListCandidates ==
  ASSUME SearchInv, NEW d \in Departments \cup {Everywhere},
         NEW S \in SUBSET People, ListCandidates(d, S)
  PROVE  SearchInv'
<1>1. /\ S \subseteq Permitted(d) /\ {} \in SUBSET People
      /\ Begin("found", FALSE, d, {}, S, {})
  BY DEF ListCandidates
<1> QED
  BY <1>1, SearchBegins, Zenon

\* Whoever is asked for by name has not been shown yet.
LEMMA SearchReadProfiles ==
  ASSUME SearchInv, NEW d \in Departments \cup {Everywhere},
         NEW S \in SUBSET People, ReadProfiles(d, S)
  PROVE  SearchInv'
<1>1. {} \subseteq Permitted(d) /\ {} \in SUBSET People
  OBVIOUS
<1> QED
  BY <1>1, SearchBegins DEF ReadProfiles

\* What is allowed belongs now; where nobody is, nothing can be found.
LEMMA SearchReadScope ==
  ASSUME SearchInv, ReadScope PROVE SearchInv'
<1>1. query \in Query
  BY AskedIs DEF SearchInv, ReadScope
<1>2. PICK P \in SUBSET People, s \in {"found", "vectors"} :
        /\ P = Permitted(query.department)
        /\ query' = [query EXCEPT !.allowed = P, !.stage = s]
  BY PermittedPeople DEF ReadScope
<1>3. query' \in Query
  BY <1>1, <1>2, ScopeKnown
<1>4. /\ query'.stage = s /\ query'.department = query.department /\ query'.allowed = P
      /\ query'.found = query.found /\ query'.shortlist = query.shortlist
      /\ query'.result = query.result /\ query'.findable = query.findable
      /\ query'.seen = query.seen
  BY <1>1, <1>2 DEF Query
<1>5. SearchTypeOK'
  BY <1>3 DEF ReadScope, SearchInv, SearchTypeOK, ManagementTypeOK, managementVars
<1>6. Permitted(query.department)' = P
  BY <1>2, <1>4 DEF ReadScope, Permitted, PermittedIn, managementVars
<1>7. query # NoQuery
  BY <1>1, QueryFields
<1>8. KeptPermitted'
  BY <1>2, <1>4, <1>6, <1>7 DEF SearchInv, KeptPermitted, Asked, Permitted
<1>9. query.findable = 0
  BY DEF ReadScope, SearchInv, PoolFull
<1>10. NotCrowdedOut'
  <2>1. Min({Limit, 0}) = 0
    BY MinOfTwo, SearchAssumption
  <2> QED
    BY <1>1, <1>4, <1>9, <2>1, QueryFields, CountOfPeople DEF NotCrowdedOut
<1>11. PoolFull'
  BY <1>4 DEF PoolFull
<1> QED
  BY <1>5, <1>8, <1>10, <1>11 DEF SearchInv

\* As many of the allowed as there are, or several times the limit.
LEMMA SearchReadVectors ==
  ASSUME SearchInv, ReadVectors PROVE SearchInv'
<1>1. query \in Query
  BY AskedIs DEF SearchInv, ReadVectors
<1>2. Multiplier * Limit \in Nat /\ Limit <= Multiplier * Limit
  BY SearchAssumption, NotLess
<1>3. points \cap query.allowed \in SUBSET People
  BY DEF SearchInv, SearchTypeOK
<1>4. PICK T \in Best(Multiplier * Limit, points \cap query.allowed),
           n \in {Cardinality(points \cap query.allowed)} :
        query' = [query EXCEPT !.pool = T, !.stage = "keywords", !.findable = n]
  BY DEF ReadVectors
<1>5. /\ T \subseteq points \cap query.allowed /\ n \in Nat /\ Cardinality(T) \in Nat
      /\ Cardinality(T) = IF Multiplier * Limit <= n THEN Multiplier * Limit ELSE n
  BY <1>2, <1>3, <1>4, BestIs
<1>6. query' \in Query
  BY <1>1, <1>3, <1>4, <1>5, Pooled
<1>7. /\ query'.stage = "keywords" /\ query'.department = query.department
      /\ query'.allowed = query.allowed /\ query'.pool = T /\ query'.findable = n
      /\ query'.found = query.found /\ query'.shortlist = query.shortlist
      /\ query'.result = query.result /\ query'.seen = query.seen
  BY <1>1, <1>4 DEF Query
<1>8. SearchTypeOK'
  BY <1>6 DEF ReadVectors, SearchInv, SearchTypeOK, ManagementTypeOK, managementVars
<1>9. Permitted(query.department)' = Permitted(query.department)
  BY <1>7 DEF ReadVectors, Permitted, PermittedIn, managementVars
<1>10. KeptPermitted'
  BY <1>1, <1>5, <1>7, <1>9, QueryFields DEF ReadVectors, SearchInv, KeptPermitted, Asked
<1>11. PoolFull'
  <2>1. Min({Limit, n}) = IF Limit <= n THEN Limit ELSE n
    BY <1>5, MinOfTwo, SearchAssumption
  <2>2. Cardinality(T) >= Min({Limit, n})
    BY <1>2, <1>5, <2>1, SearchAssumption
  <2> QED
    BY <1>7, <2>2 DEF PoolFull
<1> QED
  BY <1>7, <1>8, <1>10, <1>11 DEF SearchInv, NotCrowdedOut, Answered

\* The answer is drawn from the allowed, and no smaller than the pool permits.
LEMMA SearchReadKeywords ==
  ASSUME SearchInv, ReadKeywords PROVE SearchInv'
<1>1. query \in Query
  BY AskedIs DEF SearchInv, ReadKeywords
<1>2. Multiplier * Limit \in Nat
  BY SearchAssumption, NotLess
<1>3. PICK hits \in SUBSET (indexed \cap query.allowed) :
        \E S \in Best(Multiplier * Limit, hits) : Merge(S)
  BY DEF ReadKeywords
<1>4. PICK K \in Best(Multiplier * Limit, hits) : Merge(K)
  BY <1>3
<1>5. hits \in SUBSET People /\ query.pool \in SUBSET People
  BY <1>1, <1>3, QueryFields
<1>6. K \subseteq query.allowed
  BY <1>2, <1>3, <1>4, <1>5, BestIs
<1>7. query.pool \cup K \in SUBSET People
  BY <1>1, <1>5, <1>6, QueryFields
<1>8. PICK T \in Best(Limit, query.pool \cup K) :
        query' = [query EXCEPT !.found = T, !.stage = "found", !.allowed = {}, !.pool = {}]
  BY <1>4 DEF Merge
<1>9. /\ T \subseteq query.pool \cup K /\ Cardinality(T) \in Nat
      /\ Cardinality(query.pool \cup K) \in Nat
      /\ Cardinality(T) = IF Limit <= Cardinality(query.pool \cup K)
                          THEN Limit ELSE Cardinality(query.pool \cup K)
  BY <1>7, <1>8, BestIs, SearchAssumption
<1>10. query' \in Query
  BY <1>1, <1>7, <1>8, <1>9, Merged
<1>11. /\ query'.stage = "found" /\ query'.department = query.department
       /\ query'.findable = query.findable /\ query'.found = T
       /\ query'.shortlist = query.shortlist /\ query'.result = query.result
       /\ query'.seen = query.seen
  BY <1>1, <1>8 DEF Query
<1>12. SearchTypeOK'
  BY <1>10 DEF ReadKeywords, SearchInv, SearchTypeOK, ManagementTypeOK, managementVars
<1>13. Permitted(query.department)' = Permitted(query.department)
  BY <1>11 DEF ReadKeywords, Permitted, PermittedIn, managementVars
<1>14. KeptPermitted'
  BY <1>1, <1>6, <1>9, <1>11, <1>13, QueryFields
  DEF ReadKeywords, SearchInv, KeptPermitted, Asked
<1>15. NotCrowdedOut'
  <2>1. query.findable \in Nat
    BY <1>1, QueryFields
  <2>2. Min({Limit, query.findable}) = IF Limit <= query.findable THEN Limit ELSE query.findable
    BY <2>1, MinOfTwo, SearchAssumption
  <2>3. Cardinality(query.pool) <= Cardinality(query.pool \cup K)
    BY <1>7, SearchAssumption, FS_Subset
  <2>4. Cardinality(query.pool) >= Min({Limit, query.findable})
    BY DEF ReadKeywords, SearchInv, PoolFull
  <2>5. Cardinality(query.pool) \in Nat
    BY <1>5, CountOfPeople
  <2>6. Cardinality(T) >= Min({Limit, query.findable})
    BY <1>9, <2>1, <2>2, <2>3, <2>4, <2>5, SearchAssumption
  <2> QED
    BY <1>11, <2>6 DEF NotCrowdedOut
<1> QED
  BY <1>11, <1>12, <1>14, <1>15 DEF SearchInv, PoolFull

\* A shortlist is drawn from the answer.
LEMMA SearchShortlist ==
  ASSUME SearchInv, Shortlist PROVE SearchInv'
<1>1. query \in Query
  BY AskedIs DEF SearchInv, Shortlist
<1>2. PICK T \in Best(TopK, query.found \cap query.eligible) :
        query' = [query EXCEPT !.shortlist = T, !.stage = "evaluating"]
  BY DEF Shortlist
<1>3. query.found \cap query.eligible \in SUBSET People
  BY <1>1, QueryFields
<1>4. T \subseteq query.found /\ T \in SUBSET People
  BY <1>2, <1>3, BestIs, SearchAssumption
<1>5. query' \in Query
  BY <1>1, <1>2, <1>4, Shortlisted
<1>6. /\ query'.stage = "evaluating" /\ query'.department = query.department
      /\ query'.findable = query.findable /\ query'.found = query.found
      /\ query'.shortlist = T /\ query'.result = query.result /\ query'.seen = query.seen
  BY <1>1, <1>2 DEF Query
<1>7. SearchTypeOK'
  BY <1>5 DEF Shortlist, SearchInv, SearchTypeOK, ManagementTypeOK, managementVars
<1>8. Permitted(query.department)' = Permitted(query.department)
  BY <1>6 DEF Shortlist, Permitted, PermittedIn, managementVars
<1>9. KeptPermitted'
  BY <1>1, <1>4, <1>6, <1>8, QueryFields DEF SearchInv, KeptPermitted, Asked
<1> QED
  BY <1>6, <1>7, <1>9 DEF Shortlist, SearchInv, PoolFull, NotCrowdedOut, Answered

\* A profile is of the shortlist and belongs now.
LEMMA SearchEvaluate ==
  ASSUME SearchInv, NEW c \in People, Evaluate(c) PROVE SearchInv'
<1>1. query \in Query
  BY AskedIs DEF SearchInv, Evaluate
<1>2. PICK P \in SUBSET People, R \in SUBSET People :
        /\ P = query.shortlist \ {c}
        /\ R = {c} \cap Stored \cap Permitted(query.department)
        /\ query' = [query EXCEPT !.shortlist = P, !.result = @ \cup R]
  BY <1>1, QueryFields DEF Evaluate, Profiled, Stored
<1>3. query' \in Query
  BY <1>1, <1>2, Evaluated
<1>4. /\ query'.stage = query.stage /\ query'.department = query.department
      /\ query'.findable = query.findable /\ query'.found = query.found
      /\ query'.shortlist = P /\ query'.result = query.result \cup R
      /\ query'.seen = query.seen
  BY <1>1, <1>2 DEF Query
<1>5. SearchTypeOK'
  BY <1>3 DEF Evaluate, SearchInv, SearchTypeOK, ManagementTypeOK, managementVars
<1>6. Permitted(query.department)' = Permitted(query.department)
  BY <1>4 DEF Evaluate, Permitted, PermittedIn, managementVars
<1>7. KeptPermitted'
  BY <1>1, <1>2, <1>4, <1>6, QueryFields DEF Evaluate, SearchInv, KeptPermitted, Asked
<1> QED
  BY <1>4, <1>5, <1>7 DEF Evaluate, SearchInv, PoolFull, NotCrowdedOut, Answered

\* After the answer nothing is kept.
LEMMA SearchEndQuery ==
  ASSUME SearchInv, EndQuery PROVE SearchInv'
  BY DEF EndQuery, SearchInv, SearchTypeOK, ManagementTypeOK, managementVars, KeptPermitted,
     Asked, PoolFull, NotCrowdedOut, Answered, NoQuery

\* Initially nobody asks.
LEMMA SearchBegin == SearchInit => SearchInv
  BY ManagementAssumption, SearchAssumption DEF SearchInit, NothingUnderWay, SearchInv,
     SearchTypeOK, ManagementTypeOK, KeptPermitted, PoolFull, NotCrowdedOut, Asked, Answered,
     NoQuery

\* Every step keeps the invariant.
LEMMA SearchStep == ASSUME SearchInv, [SearchNext]_searchVars PROVE SearchInv'
<1>1. CASE UNCHANGED searchVars
  BY <1>1 DEF searchVars, managementVars, SearchInv, SearchTypeOK, ManagementTypeOK,
     KeptPermitted, PoolFull, NotCrowdedOut, Asked, Answered, Permitted, PermittedIn
<1> QED
  BY <1>1, SearchText, SearchRefreshIndex, SearchPlaceCandidate, SearchStartQuery,
     SearchListCandidates, SearchReadProfiles, SearchReadScope, SearchReadVectors,
     SearchReadKeywords, SearchShortlist, SearchEvaluate, SearchEndQuery
  DEF SearchNext

-----------------------------------------------------------------------------
(* The theorems about the search.                                           *)

\* The search keeps its types.
THEOREM SearchTypeCorrect == SearchSpec => []SearchTypeOK
<1>1. SearchInv => SearchTypeOK
  BY DEF SearchInv
<1> QED
  BY <1>1, SearchBegin, SearchStep, PTL DEF SearchSpec

\* Nobody is shown who did not belong to the department while the request ran.
THEOREM ScopeIsKept == SearchSpec => []ScopeHolds
<1>1. SearchInv => ScopeHolds
  BY DEF SearchInv, KeptPermitted, ScopeHolds, Asked, Answered, NoQuery
<1> QED
  BY <1>1, SearchBegin, SearchStep, PTL DEF SearchSpec

\* Other departments crowd nobody out of an answer.
THEOREM NobodyCrowdedOut == SearchSpec => []NotCrowdedOut
<1>1. SearchInv => NotCrowdedOut
  BY DEF SearchInv
<1> QED
  BY <1>1, SearchBegin, SearchStep, PTL DEF SearchSpec

=============================================================================
