-------------------------- MODULE CandidateSearch ---------------------------
(***************************************************************************)
(* Finding candidates: src/retrieval/hybrid_retriever.py, bm25_index.py,   *)
(* sql_query_tool.py, candidate_ranking.py and the tools of the agent that *)
(* call them, over what ingestion writes and administrators assign.        *)
(*                                                                         *)
(* A candidate's text is in Qdrant before its row is in MySQL, and stays   *)
(* there if the row never comes.  The keyword index is a snapshot of       *)
(* Qdrant, taken every quarter of an hour.  Which department a candidate   *)
(* belongs to is in MySQL only, and administrators change it while a       *)
(* request, which reads all three one after the other, is under way.       *)
(*                                                                         *)
(* A candidate's text is one chunk here.  Requests only read, so one at a  *)
(* time is enough.                                                         *)
(***************************************************************************)
EXTENDS Management

CONSTANTS
    Everywhere,     \* the scope of an administrator who names no department
    Limit,          \* how many chunks a search returns (top_k)
    Multiplier,     \* how many times more each index is asked for
    TopK            \* how many candidates a ranking evaluates

ASSUME SearchAssumption ==
    /\ Everywhere \notin Departments
    /\ IsFiniteSet(People)
    /\ Limit \in Nat /\ Multiplier \in Nat \ {0} /\ TopK \in Nat

VARIABLES
    points,     \* candidates whose text is in Qdrant
    indexed,    \* candidates in the keyword index; {} before it is first built
    query       \* the request under way

searchVars == <<managementVars, points, indexed, query>>

NoQuery == [stage |-> "none"]
Query == [stage : {"scope", "vectors", "keywords", "found", "evaluating"},
          ranks : BOOLEAN,                      \* a ranking, not a search
          department : Departments \cup {Everywhere},
          eligible : SUBSET People,             \* what SQL found for the criteria
          allowed : SUBSET People, pool : SUBSET People, found : SUBSET People,
          shortlist : SUBSET People, result : SUBSET People,
          findable : Nat,                       \* permitted texts in Qdrant (history)
          seen : SUBSET People]                 \* permitted since it began (history)

SearchTypeOK ==
    /\ ManagementTypeOK
    /\ points \subseteq People /\ indexed \subseteq People
    /\ query \in Query \cup {NoQuery}

\* Departments and openings have been created.
SearchInit ==
    /\ NothingUnderWay /\ copies = [n \in Names |-> 1]
    /\ points = {} /\ indexed = {} /\ query = NoQuery

PermittedIn(place, d) ==
    IF d = Everywhere THEN People
                      ELSE {c \in People : place[c] \in Openings /\ place[c][1] = d}
Permitted(d) == PermittedIn(placed, d)
Stored == {c \in People : placed[c] # NotStored}

\* A candidate's profile or text, for the scope of now; {} stands for its refusal.
Profiled(c) == {c} \cap Stored \cap Permitted(query.department)

\* The best of S for some query, at most n.
Best(n, S) == kSubset(Min({n, Cardinality(S)}), S)

-----------------------------------------------------------------------------
(* What changes meanwhile.                                                  *)

UpsertText(c) ==
    /\ placed[c] = NotStored
    /\ points' = points \cup {c}
    /\ UNCHANGED <<managementVars, indexed, query>>

\* A failed run that still has its lock takes back what it wrote.
RemoveText(c) ==
    /\ placed[c] = NotStored
    /\ points' = points \ {c}
    /\ UNCHANGED <<managementVars, indexed, query>>

\* Nothing in Qdrant: the old index stays.
RefreshIndex ==
    /\ points # {}
    /\ indexed' = points
    /\ UNCHANGED <<managementVars, points, query>>

PlaceCandidate(c, o) ==
    /\ c \in points
    /\ Place(c, o)
    /\ query' = IF query = NoQuery THEN query ELSE
                [query EXCEPT !.seen = @ \cup PermittedIn(placed', query.department)]
    /\ UNCHANGED <<copies, nameLock, making, lostNames, points, indexed>>

-----------------------------------------------------------------------------
(* hybrid_search, rank_candidates_for_jd and the answers from SQL.          *)

Begin(stage, ranks, d, eligible, found, shortlist) ==
    /\ query = NoQuery
    /\ query' = [stage |-> stage, ranks |-> ranks, department |-> d, eligible |-> eligible,
                 allowed |-> {}, pool |-> {}, found |-> found, shortlist |-> shortlist,
                 result |-> {}, findable |-> 0, seen |-> Permitted(d)]
    /\ UNCHANGED <<managementVars, points, indexed>>

\* A ranking first asks SQL for the candidates that meet the criteria.
StartQuery(ranks, d, S) ==
    /\ IF ranks THEN S # {} /\ S \subseteq Stored \cap Permitted(d) ELSE S = {}
    /\ Begin("scope", ranks, d, S, {}, {})

\* One SELECT for a certificate, a technology, the latest or a count.
ListCandidates(d, S) ==
    /\ S \subseteq Stored \cap Permitted(d) /\ Cardinality(S) <= Limit
    /\ Begin("found", FALSE, d, {}, S, {})

\* Details, a comparison or an evaluation of candidates that earlier answers named: they
\* may have gone to another department since, or to none.
ReadProfiles(d, S) == Begin("evaluating", FALSE, d, {}, {}, S)

ReadScope ==
    /\ query.stage = "scope"
    /\ LET allowed == Permitted(query.department) IN
        query' = [query EXCEPT !.allowed = allowed,
                               !.stage = IF allowed = {} THEN "found" ELSE "vectors"]
    /\ UNCHANGED <<managementVars, points, indexed>>

\* Wrong variant: the best of all, then those of the department.
ReadVectorsFilterLate ==
    /\ query.stage = "vectors"
    /\ \E S \in Best(Multiplier * Limit, points) :
        query' = [query EXCEPT !.pool = S \cap query.allowed, !.stage = "keywords",
                               !.findable = Cardinality(points \cap query.allowed)]
    /\ UNCHANGED <<managementVars, points, indexed>>

\* Qdrant filters before it limits.
ReadVectors ==
    /\ query.stage = "vectors"
    /\ \E S \in Best(Multiplier * Limit, points \cap query.allowed) :
        query' = [query EXCEPT !.pool = S, !.stage = "keywords",
                               !.findable = Cardinality(points \cap query.allowed)]
    /\ UNCHANGED <<managementVars, points, indexed>>

Merge(keywordHits) ==
    \E S \in Best(Limit, query.pool \cup keywordHits) :
        query' = [query EXCEPT !.found = S, !.stage = "found", !.allowed = {}, !.pool = {}]

\* Wrong variant: the snapshot is searched as it is.
ReadKeywordsUnscoped ==
    /\ query.stage = "keywords"
    /\ \E hits \in SUBSET indexed :
        \E S \in Best(Multiplier * Limit, hits) : Merge(S)
    /\ UNCHANGED <<managementVars, points, indexed>>

ReadKeywords ==
    /\ query.stage = "keywords"
    /\ \E hits \in SUBSET (indexed \cap query.allowed) :
        \E S \in Best(Multiplier * Limit, hits) : Merge(S)
    /\ UNCHANGED <<managementVars, points, indexed>>

Shortlist ==
    /\ query.stage = "found" /\ query.ranks
    /\ \E S \in Best(TopK, query.found \cap query.eligible) :
        query' = [query EXCEPT !.shortlist = S, !.stage = "evaluating"]
    /\ UNCHANGED <<managementVars, points, indexed>>

\* The profile is read once more, for the scope of now.
Evaluate(c) ==
    /\ query.stage = "evaluating"
    /\ c \in query.shortlist
    /\ query' = [query EXCEPT !.shortlist = @ \ {c},
                              !.result = @ \cup Profiled(c)]
    /\ UNCHANGED <<managementVars, points, indexed>>

\* The answer, or an error of a database, an index or the model.
EndQuery ==
    /\ query # NoQuery
    /\ query' = NoQuery
    /\ UNCHANGED <<managementVars, points, indexed>>

SearchNext ==
    \/ RefreshIndex
    \/ \E c \in People :
        \/ UpsertText(c) \/ RemoveText(c) \/ Evaluate(c)
        \/ \E o \in Openings \cup {NoOpening} : PlaceCandidate(c, o)
    \/ \E ranks \in BOOLEAN, d \in Departments \cup {Everywhere}, S \in SUBSET People :
        StartQuery(ranks, d, S) \/ ListCandidates(d, S) \/ ReadProfiles(d, S)
    \/ ReadScope \/ ReadVectors \/ ReadKeywords \/ Shortlist \/ EndQuery

SearchSpec == SearchInit /\ [][SearchNext]_searchVars

-----------------------------------------------------------------------------
(* Properties.                                                             *)

Answered == query.stage \in {"found", "evaluating"}

\* Whoever asks for a department is shown candidates who belonged to it while the
\* request ran: not those of an index older than their reassignment, and not the
\* text of one whose ingestion failed.
ScopeHolds ==
    Answered /\ query.department # Everywhere =>
        query.found \cup query.result \subseteq query.seen

\* Others' candidates never crowd those of the department out of a search: it
\* returns as many as it was asked for, or all there are.
NotCrowdedOut ==
    Answered => Cardinality(query.found) >= Min({Limit, query.findable})

-----------------------------------------------------------------------------
(* Why they hold: what a request has kept so far was permitted while it ran.  *)

Asked == query # NoQuery

KeptPermitted ==
    Asked =>
        /\ Permitted(query.department) \subseteq query.seen
        /\ query.stage \in {"vectors", "keywords"} => query.allowed \subseteq query.seen
        /\ query.stage = "keywords" => query.pool \subseteq query.allowed
        /\ query.found \cup query.result \subseteq query.seen

PoolFull ==
    /\ query.stage = "scope" => query.findable = 0
    /\ query.stage = "keywords" =>
           Cardinality(query.pool) >= Min({Limit, query.findable})

SearchInv == SearchTypeOK /\ KeptPermitted /\ PoolFull /\ NotCrowdedOut

=============================================================================
