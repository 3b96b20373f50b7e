----------------------------- MODULE KeyedLocks -----------------------------
(***************************************************************************)
(* The process-local locks of src/chat/concurrency.py (one per             *)
(* conversation) and src/interview/concurrency.py (one per candidate).     *)
(*                                                                         *)
(* A dictionary maps a key to a lock object and the number of callers that *)
(* hold a reference to it.  A caller registers under a guard, then tries   *)
(* the lock without waiting, and at the end releases it and unregisters;   *)
(* the last one out removes the entry, and the next caller makes a new     *)
(* lock object.  Nested entries of one caller (the chat's RLock) count as  *)
(* one here.                                                               *)
(***************************************************************************)
EXTENDS Integers, FiniteSets

CONSTANTS
    Callers,        \* request threads
    Keys,           \* conversations, or candidates as one process sees them
    LockObjects,
    NoCaller, NoKey, NoObject

ASSUME LocksAssumption ==
    /\ IsFiniteSet(Callers) /\ NoCaller \notin Callers
    /\ NoKey \notin Keys
    /\ NoObject \notin LockObjects

VARIABLES
    entry,      \* _locks: the lock object and its users, per key
    owner,      \* the caller that has acquired each lock object
    place,      \* where each caller is in the lock's with-block
    wanted,     \* the key each caller has registered for
    object,     \* the lock object it found or made
    shownBusy   \* _running, _generating: keys some caller works on

lockVars == <<entry, owner, place, wanted, object, shownBusy>>

Places == {"outside", "registered", "inside", "leaving"}
NoEntry == [lock |-> NoObject, users |-> 0]

LocksTypeOK ==
    /\ entry \in [Keys -> [lock : LockObjects \cup {NoObject}, users : Nat]]
    /\ owner \in [LockObjects -> Callers \cup {NoCaller}]
    /\ place \in [Callers -> Places]
    /\ wanted \in [Callers -> Keys \cup {NoKey}]
    /\ object \in [Callers -> LockObjects \cup {NoObject}]
    /\ shownBusy \subseteq Keys

LocksInit ==
    /\ entry = [k \in Keys |-> NoEntry]
    /\ owner = [l \in LockObjects |-> NoCaller]
    /\ place = [c \in Callers |-> "outside"]
    /\ wanted = [c \in Callers |-> NoKey]
    /\ object = [c \in Callers |-> NoObject]
    /\ shownBusy = {}

\* A new object: nothing refers to it any more, or not yet.  Any will do.
Fresh == {l \in LockObjects :
            /\ \A k \in Keys : entry[k].lock # l
            /\ \A c \in Callers : object[c] # l}

NextFresh == IF Fresh = {} THEN {} ELSE {CHOOSE l \in Fresh : TRUE}

Register(c, k) ==
    /\ place[c] = "outside"
    /\ \E l \in IF entry[k].users = 0 THEN NextFresh ELSE {entry[k].lock} :
        /\ entry' = [entry EXCEPT ![k] = [lock |-> l, users |-> @.users + 1]]
        /\ object' = [object EXCEPT ![c] = l]
    /\ wanted' = [wanted EXCEPT ![c] = k]
    /\ place' = [place EXCEPT ![c] = "registered"]
    /\ UNCHANGED <<owner, shownBusy>>

Acquire(c, works) ==
    /\ place[c] = "registered"
    /\ owner[object[c]] = NoCaller
    /\ owner' = [owner EXCEPT ![object[c]] = c]
    /\ place' = [place EXCEPT ![c] = "inside"]
    /\ shownBusy' = IF works THEN shownBusy \cup {wanted[c]} ELSE shownBusy
    /\ UNCHANGED <<entry, wanted, object>>

\* CONVERSATION_BUSY, INTERVIEW_BUSY
Refuse(c) ==
    /\ place[c] = "registered"
    /\ owner[object[c]] # NoCaller
    /\ place' = [place EXCEPT ![c] = "leaving"]
    /\ UNCHANGED <<entry, owner, wanted, object, shownBusy>>

Release(c) ==
    /\ place[c] = "inside"
    /\ owner' = [owner EXCEPT ![object[c]] = NoCaller]
    /\ shownBusy' = shownBusy \ {wanted[c]}
    /\ place' = [place EXCEPT ![c] = "leaving"]
    /\ UNCHANGED <<entry, wanted, object>>

\* Wrong variant: whoever leaves removes the entry, contenders or not.
UnregisterAll(c) ==
    /\ place[c] = "leaving"
    /\ entry' = [entry EXCEPT ![wanted[c]] = NoEntry]
    /\ wanted' = [wanted EXCEPT ![c] = NoKey]
    /\ object' = [object EXCEPT ![c] = NoObject]
    /\ place' = [place EXCEPT ![c] = "outside"]
    /\ UNCHANGED <<owner, shownBusy>>

Unregister(c) ==
    /\ place[c] = "leaving"
    /\ entry' = [entry EXCEPT ![wanted[c]] =
                    IF @.users = 1 THEN NoEntry ELSE [lock |-> @.lock, users |-> @.users - 1]]
    /\ wanted' = [wanted EXCEPT ![c] = NoKey]
    /\ object' = [object EXCEPT ![c] = NoObject]
    /\ place' = [place EXCEPT ![c] = "outside"]
    /\ UNCHANGED <<owner, shownBusy>>

\* The process goes down and comes up again.
LocksRestart ==
    /\ entry' = [k \in Keys |-> NoEntry]
    /\ owner' = [l \in LockObjects |-> NoCaller]
    /\ place' = [c \in Callers |-> "outside"]
    /\ wanted' = [c \in Callers |-> NoKey]
    /\ object' = [c \in Callers |-> NoObject]
    /\ shownBusy' = {}

LocksNext ==
    \/ \E c \in Callers, k \in Keys : Register(c, k)
    \/ \E c \in Callers, works \in BOOLEAN : Acquire(c, works)
    \/ \E c \in Callers : Refuse(c) \/ Release(c) \/ Unregister(c)
    \/ LocksRestart

LocksSpec == LocksInit /\ [][LocksNext]_lockVars

Inside(k) == {c \in Callers : place[c] = "inside" /\ wanted[c] = k}

OneOf(S) == IF S = {} THEN NoCaller ELSE CHOOSE c \in S : TRUE
Holder == [k \in Keys |-> OneOf(Inside(k))]

Promise == INSTANCE TryLock WITH holder <- Holder

-----------------------------------------------------------------------------
(* Properties.                                                             *)

\* At most one caller works on a key, although lock objects come and go with the
\* callers that refer to them.
OneInside ==
    \A c, d \in Callers :
        place[c] = "inside" /\ place[d] = "inside" /\ wanted[c] = wanted[d] => c = d

\* Seen from outside, dictionary, counters and lock objects are one lock per key.
LocksPromise == Promise!LockSpec

-----------------------------------------------------------------------------
(* Why they hold: users counts the callers that refer to an entry, and all of *)
(* them have its lock object.                                                  *)

Referrers(k) == {c \in Callers : wanted[c] = k}

Counted ==
    \A k \in Keys : entry[k].users = Cardinality(Referrers(k))

\* An entry without users has no lock object, and no two keys share one.
EntriesFit ==
    /\ \A k \in Keys : entry[k].users = 0 <=> entry[k].lock = NoObject
    /\ \A j, k \in Keys : entry[j].lock = entry[k].lock /\ entry[k].lock # NoObject => j = k

CallersFit ==
    \A c \in Callers :
        IF place[c] = "outside"
        THEN wanted[c] = NoKey /\ object[c] = NoObject
        ELSE wanted[c] \in Keys /\ entry[wanted[c]].lock = object[c] /\ object[c] # NoObject

OwnersFit ==
    \A c \in Callers, l \in LockObjects :
        owner[l] = c <=> place[c] = "inside" /\ object[c] = l

LocksInv == LocksTypeOK /\ Counted /\ EntriesFit /\ CallersFit /\ OwnersFit

=============================================================================
