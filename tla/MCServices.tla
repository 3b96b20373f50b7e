----------------------------- MODULE MCServices -----------------------------
(***************************************************************************)
(* Instances of the services for TLC.  They share no state that matters to *)
(* their properties, so each behaviour runs one of them: the state space   *)
(* is the sum of theirs, not the product.                                  *)
(***************************************************************************)
EXTENDS Conversations, Accounts, InterviewSets, EmailIntake, CandidateSearch, KeyFailover,
        BulkMail, TLC

CONSTANT Lanes      \* the services that a run covers

VARIABLE lane

allVars == <<vars, accountVars, setVars, intakeVars, searchVars, failoverVars, bulkVars>>

ServicesTypeOK ==
    /\ lane \in Lanes
    /\ lane = "conversations" => TypeOK
    /\ lane = "accounts" => AccountsTypeOK
    /\ lane = "questions" => SetsTypeOK
    /\ lane = "intake" => IntakeTypeOK
    /\ lane \in {"management", "search"} => SearchTypeOK
    /\ lane = "keys" => FailoverTypeOK
    /\ lane = "bulk" => BulkTypeOK

ServicesInit ==
    /\ lane \in Lanes
    /\ Init /\ AccountsInit /\ SetsInit /\ IntakeInit /\ FailoverInit /\ BulkInit
    /\ IF lane = "search" THEN SearchInit
                          ELSE ManagementInit /\ points = {} /\ indexed = {} /\ query = NoQuery

ServicesNext ==
    \/ /\ lane = "conversations" /\ Next
       /\ UNCHANGED <<lane, accountVars, setVars, intakeVars, searchVars, failoverVars, bulkVars>>
    \/ /\ lane = "accounts" /\ AccountsNext
       /\ UNCHANGED <<lane, vars, setVars, intakeVars, searchVars, failoverVars, bulkVars>>
    \/ /\ lane = "questions" /\ SetsNext
       /\ UNCHANGED <<lane, vars, accountVars, intakeVars, searchVars, failoverVars, bulkVars>>
    \/ /\ lane = "intake" /\ IntakeNext
       /\ UNCHANGED <<lane, vars, accountVars, setVars, searchVars, failoverVars, bulkVars>>
    \/ /\ lane = "management" /\ ManagementNext
       /\ UNCHANGED <<lane, vars, accountVars, setVars, intakeVars, points, indexed, query,
                      failoverVars, bulkVars>>
    \/ /\ lane = "search" /\ SearchNext
       /\ UNCHANGED <<lane, vars, accountVars, setVars, intakeVars, failoverVars, bulkVars>>
    \/ /\ lane = "keys" /\ FailoverNext
       /\ UNCHANGED <<lane, vars, accountVars, setVars, intakeVars, searchVars, bulkVars>>
    \/ /\ lane = "bulk" /\ BulkNext
       /\ UNCHANGED <<lane, vars, accountVars, setVars, intakeVars, searchVars, failoverVars>>

ServicesSpec == ServicesInit /\ [][ServicesNext]_<<lane, allVars>>

Symmetry == Permutations(Callers) \cup Permutations(LockObjects)

=============================================================================
