------------------------------ MODULE CVPromise ------------------------------
(***************************************************************************)
(* What CV ingestion promises, without rows, messages, locks or workers.   *)
(*                                                                         *)
(* An accepted file waits, however often it is tried, until it is refused  *)
(* or taken in, for good.  It is taken in whole: it is a candidate at      *)
(* once, with everything that is listed of it to be found, and no other    *)
(* candidate has its text, except for one each time the exclusion of other *)
(* files lapses.                                                           *)
(***************************************************************************)
EXTENDS Naturals, FiniteSets

CONSTANTS
    Files,
    TextIn      \* [Files -> texts]

VARIABLES
    waiting,    \* accepted; may still become anything
    refused,
    candidates,
    searchable, \* candidates whose listed chunks can be found
    lapses      \* how often the exclusion of other files lapsed

fileVars == <<waiting, refused, candidates, searchable, lapses>>

FilesInit ==
    /\ waiting = {} /\ refused = {}
    /\ candidates = {} /\ searchable = {}
    /\ lapses = 0

AcceptFile(f) ==
    /\ f \notin waiting \cup refused \cup candidates
    /\ waiting' = waiting \cup {f}
    /\ UNCHANGED <<refused, candidates, searchable, lapses>>

RefuseFile(f) ==
    /\ f \in waiting
    /\ waiting' = waiting \ {f}
    /\ refused' = refused \cup {f}
    /\ UNCHANGED <<candidates, searchable, lapses>>

TakeIn(f) ==
    /\ f \in waiting
    /\ Cardinality({g \in candidates : TextIn[g] = TextIn[f]}) <= lapses
    /\ waiting' = waiting \ {f}
    /\ candidates' = candidates \cup {f}
    /\ searchable' = searchable \cup {f}
    /\ UNCHANGED <<refused, lapses>>

Lapse ==
    /\ lapses' = lapses + 1
    /\ UNCHANGED <<waiting, refused, candidates, searchable>>

FilesNext == Lapse \/ \E f \in Files : AcceptFile(f) \/ RefuseFile(f) \/ TakeIn(f)

=============================================================================
