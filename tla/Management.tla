----------------------------- MODULE Management -----------------------------
(***************************************************************************)
(* What administrators create and assign: src/management/service.py.       *)
(*                                                                         *)
(* Departments and openings have no unique key in MySQL.  Whoever creates  *)
(* one holds a lock named after it (src/ingestion/locking.py), which MySQL *)
(* gives at once or not at all and takes back when the connection ends:    *)
(* the connection is not the one that checks and inserts, and may break    *)
(* while those go on.                                                      *)
(***************************************************************************)
EXTENDS Integers, FiniteSets, FiniteSetsExt

CONSTANTS
    Departments, Titles,
    Makers,         \* requests that create a department or an opening
    NoMaker,
    People,         \* candidates
    NoOpening,      \* a candidate without an opening
    NotStored,      \* not a candidate: no row, or not yet
    MaxLostNames    \* bound: locks that break under their holder

Openings == Departments \X Titles
Names == Departments \cup Openings

ASSUME ManagementAssumption ==
    /\ IsFiniteSet(Makers) /\ NoMaker \notin Makers
    /\ Departments \cap Openings = {}
    /\ {NoOpening, NotStored} \cap Openings = {}
    /\ NoOpening # NotStored
    /\ MaxLostNames \in Nat

VARIABLES
    copies,     \* rows with each name
    nameLock,   \* who holds the lock of each name
    making,     \* what each request creates, and how far it is
    placed,     \* the opening each candidate is assigned to
    lostNames   \* locks of each name that broke under their holder (history)

managementVars == <<copies, nameLock, making, placed, lostNames>>

NotMaking == [stage |-> "idle"]
Making == [stage : {"locked", "checked", "created"}, name : Names]

ManagementTypeOK ==
    /\ copies \in [Names -> Nat]
    /\ nameLock \in [Names -> Makers \cup {NoMaker}]
    /\ making \in [Makers -> Making \cup {NotMaking}]
    /\ placed \in [People -> Openings \cup {NoOpening, NotStored}]
    /\ lostNames \in [Names -> Nat]

NothingUnderWay ==
    /\ nameLock = [n \in Names |-> NoMaker]
    /\ making = [m \in Makers |-> NotMaking]
    /\ placed = [c \in People |-> NotStored]
    /\ lostNames = [n \in Names |-> 0]

ManagementInit == NothingUnderWay /\ copies = [n \in Names |-> 0]

\* Wrong variant: everybody gets the lock.
TakeNameShared(m, n) ==
    /\ making[m] = NotMaking
    /\ nameLock' = [nameLock EXCEPT ![n] = m]
    /\ making' = [making EXCEPT ![m] = [stage |-> "locked", name |-> n]]
    /\ UNCHANGED <<copies, placed, lostNames>>

\* DEPARTMENT_BUSY or POSTING_BUSY otherwise.
TakeName(m, n) ==
    /\ making[m] = NotMaking
    /\ nameLock[n] = NoMaker
    /\ nameLock' = [nameLock EXCEPT ![n] = m]
    /\ making' = [making EXCEPT ![m] = [stage |-> "locked", name |-> n]]
    /\ UNCHANGED <<copies, placed, lostNames>>

\* No row has the name, and an opening's department exists.
CheckName(m) ==
    /\ making[m].stage = "locked"
    /\ copies[making[m].name] = 0
    /\ making[m].name \in Openings => copies[making[m].name[1]] > 0
    /\ making' = [making EXCEPT ![m].stage = "checked"]
    /\ UNCHANGED <<copies, nameLock, placed, lostNames>>

InsertName(m) ==
    /\ making[m].stage = "checked"
    /\ copies' = [copies EXCEPT ![making[m].name] = @ + 1]
    /\ making' = [making EXCEPT ![m].stage = "created"]
    /\ UNCHANGED <<nameLock, placed, lostNames>>

Holds(m) == nameLock[making[m].name] = m

\* The lock is released: the row is committed, the check failed, or the process died.
EndMaking(m) ==
    /\ making[m] # NotMaking
    /\ nameLock' = IF Holds(m) THEN [nameLock EXCEPT ![making[m].name] = NoMaker] ELSE nameLock
    /\ making' = [making EXCEPT ![m] = NotMaking]
    /\ UNCHANGED <<copies, placed, lostNames>>

\* The connection that holds the lock breaks, and the request goes on.
LoseName(m) ==
    /\ making[m] # NotMaking /\ Holds(m)
    /\ MapThenSumSet(LAMBDA n : lostNames[n], Names) < MaxLostNames
    /\ lostNames' = [lostNames EXCEPT ![making[m].name] = @ + 1]
    /\ nameLock' = [nameLock EXCEPT ![making[m].name] = NoMaker]
    /\ UNCHANGED <<copies, making, placed>>

Open == {o \in Openings : copies[o] > 0}

\* The ingestion pipeline commits a candidate, with the opening of its job, one
\* whose title matches what the CV applies for, or none.
StoreCandidate(c, o) ==
    /\ placed[c] = NotStored
    /\ o \in Open \cup {NoOpening}
    /\ placed' = [placed EXCEPT ![c] = o]

\* The row is locked and still has the opening that the page had shown.
AssignPosting(c, o) ==
    /\ placed[c] # NotStored
    /\ o \in Open \cup {NoOpening}
    /\ placed' = [placed EXCEPT ![c] = o]

Place(c, o) == StoreCandidate(c, o) \/ AssignPosting(c, o)

ManagementNext ==
    \/ \E m \in Makers, n \in Names : TakeName(m, n)
    \/ \E m \in Makers : CheckName(m) \/ InsertName(m) \/ EndMaking(m) \/ LoseName(m)
    \/ /\ \E c \in People, o \in Openings \cup {NoOpening} : Place(c, o)
       /\ UNCHANGED <<copies, nameLock, making, lostNames>>

ManagementSpec == ManagementInit /\ [][ManagementNext]_managementVars

-----------------------------------------------------------------------------
(* Properties.                                                             *)

\* A department's name, or an opening's title in its department, is there twice only when
\* a lock broke: as often as the locks of that name broke under their holders, and once.
\* Only the lock keeps two requests from inserting what both found missing.
NamesUnique == \A n \in Names : copies[n] <= 1 + lostNames[n]

-----------------------------------------------------------------------------
(* Why it holds: of those who are about to insert a name, one has its lock   *)
(* and the others lost it.                                                   *)

Bereft(n) == {m \in Makers : making[m] # NotMaking /\ making[m].name = n /\ ~Holds(m)}
Inserting(n) == {m \in Makers : making[m].stage = "checked" /\ making[m].name = n}

LosersCounted == \A n \in Names : Cardinality(Bereft(n)) <= lostNames[n]
InsertsCounted == \A n \in Names : copies[n] + Cardinality(Inserting(n)) <= 1 + lostNames[n]

ManagementInv == ManagementTypeOK /\ LosersCounted /\ InsertsCounted

=============================================================================
