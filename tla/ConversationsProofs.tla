------------------------- MODULE ConversationsProofs -------------------------
(***************************************************************************)
(* Theorems about the keyed locks and the conversations they protect, for  *)
(* every set of callers, conversations and confirmations and every bound.  *)
(***************************************************************************)
EXTENDS Conversations, FiniteSetTheorems, TLAPS

-----------------------------------------------------------------------------
(* The locks: each action keeps LocksInv.                                   *)

\* Initially nobody refers to anything.
LEMMA LocksBegin == LocksInit => LocksInv
<1>1. SUFFICES ASSUME LocksInit PROVE LocksInv
  OBVIOUS
<1>2. \A k \in Keys : Referrers(k) = {}
  BY <1>1, LocksAssumption DEF LocksInit, Referrers
<1>3. Counted
  BY <1>1, <1>2, FS_EmptySet DEF LocksInit, Counted, NoEntry
<1> QED
  BY <1>1, <1>3, LocksAssumption DEF LocksInit, LocksInv, LocksTypeOK, EntriesFit, CallersFit,
     OwnersFit, NoEntry, Places

\* The callers that refer to an entry are finitely many.
LEMMA ReferrersFinite ==
  ASSUME NEW k \in Keys PROVE IsFiniteSet(Referrers(k)) /\ Cardinality(Referrers(k)) \in Nat
<1>1. Referrers(k) \in SUBSET Callers
  BY DEF Referrers
<1> QED
  BY <1>1, LocksAssumption, FS_Subset, FS_CardinalityType

\* A caller that registers is counted; a new lock object is nobody else's.
LEMMA LocksRegister ==
  ASSUME LocksInv, NEW c \in Callers, NEW k \in Keys, Register(c, k) PROVE LocksInv'
<1>1. PICK l \in IF entry[k].users = 0 THEN NextFresh ELSE {entry[k].lock} :
        /\ entry' = [entry EXCEPT ![k] = [lock |-> l, users |-> @.users + 1]]
        /\ object' = [object EXCEPT ![c] = l]
  BY DEF Register
<1>2. /\ wanted' = [wanted EXCEPT ![c] = k] /\ place' = [place EXCEPT ![c] = "registered"]
      /\ UNCHANGED <<owner, shownBusy>> /\ place[c] = "outside"
  BY DEF Register
<1>3. wanted[c] = NoKey /\ NoKey \notin Keys
  BY <1>2, LocksAssumption DEF LocksInv, CallersFit
<1>4. l \in LockObjects /\ (entry[k].users = 0 => l \in Fresh)
  BY DEF LocksInv, LocksTypeOK, EntriesFit, NextFresh, Fresh
<1>5. LocksTypeOK'
  BY <1>1, <1>2, <1>4 DEF LocksInv, LocksTypeOK, Places
<1>6. Counted'
  <2>1. Referrers(k)' = Referrers(k) \cup {c} /\ c \notin Referrers(k)
    BY <1>2, <1>3 DEF Referrers, LocksInv, LocksTypeOK
  <2>2. \A j \in Keys \ {k} : Referrers(j)' = Referrers(j)
    BY <1>2, <1>3 DEF Referrers, LocksInv, LocksTypeOK
  <2>3. Cardinality(Referrers(k)') = Cardinality(Referrers(k)) + 1
    BY <2>1, ReferrersFinite, FS_AddElement
  <2> QED
    BY <1>1, <2>2, <2>3 DEF Counted, LocksInv, LocksTypeOK
<1>7. EntriesFit'
  BY <1>1, <1>4, LocksAssumption DEF LocksInv, LocksTypeOK, EntriesFit, Fresh
<1>8. CallersFit'
  <2>1. \A d \in Callers : wanted[d] = k => d \in Referrers(k)
    BY DEF Referrers
  <2>2. entry[k].users = 0 => Referrers(k) = {}
    BY ReferrersFinite, FS_EmptySet DEF LocksInv, Counted
  <2> QED
    BY <1>1, <1>2, <1>4, <2>1, <2>2, LocksAssumption
    DEF LocksInv, LocksTypeOK, CallersFit
<1>9. OwnersFit'
  BY <1>1, <1>2, <1>4 DEF LocksInv, LocksTypeOK, CallersFit, OwnersFit
<1> QED
  BY <1>5, <1>6, <1>7, <1>8, <1>9 DEF LocksInv

\* The lock that is acquired was nobody's.
LEMMA LocksAcquire ==
  ASSUME LocksInv, NEW c \in Callers, NEW works \in BOOLEAN, Acquire(c, works) PROVE LocksInv'
<1>1. LocksTypeOK' /\ EntriesFit' /\ CallersFit'
  BY DEF Acquire, LocksInv, LocksTypeOK, EntriesFit, CallersFit, Places
<1>2. Counted'
  BY DEF Acquire, LocksInv, Counted, Referrers
<1>3. OwnersFit'
  BY LocksAssumption DEF Acquire, LocksInv, LocksTypeOK, CallersFit, OwnersFit
<1> QED
  BY <1>1, <1>2, <1>3 DEF LocksInv

\* A caller that is turned away stays registered.
LEMMA LocksRefuse == ASSUME LocksInv, NEW c \in Callers, Refuse(c) PROVE LocksInv'
<1>1. LocksTypeOK' /\ EntriesFit' /\ CallersFit' /\ OwnersFit'
  BY DEF Refuse, LocksInv, LocksTypeOK, EntriesFit, CallersFit, OwnersFit, Places
<1>2. Counted'
  BY DEF Refuse, LocksInv, Counted, Referrers
<1> QED
  BY <1>1, <1>2 DEF LocksInv

\* The lock that is released was the caller's.
LEMMA LocksRelease == ASSUME LocksInv, NEW c \in Callers, Release(c) PROVE LocksInv'
<1>1. LocksTypeOK' /\ EntriesFit' /\ CallersFit'
  BY DEF Release, LocksInv, LocksTypeOK, EntriesFit, CallersFit, Places
<1>2. Counted'
  BY DEF Release, LocksInv, Counted, Referrers
<1>3. OwnersFit'
  BY LocksAssumption DEF Release, LocksInv, LocksTypeOK, CallersFit, OwnersFit
<1> QED
  BY <1>1, <1>2, <1>3 DEF LocksInv

\* The last one out removes the entry, and then nobody refers to it.
LEMMA LocksUnregister == ASSUME LocksInv, NEW c \in Callers, Unregister(c) PROVE LocksInv'
<1>1. PICK k \in Keys : k = wanted[c]
  BY DEF Unregister, LocksInv, CallersFit
<1>2. /\ place[c] = "leaving"
      /\ entry' = [entry EXCEPT ![k] =
                     IF @.users = 1 THEN NoEntry
                                    ELSE [lock |-> @.lock, users |-> @.users - 1]]
      /\ wanted' = [wanted EXCEPT ![c] = NoKey] /\ object' = [object EXCEPT ![c] = NoObject]
      /\ place' = [place EXCEPT ![c] = "outside"] /\ UNCHANGED <<owner, shownBusy>>
  BY <1>1 DEF Unregister
<1>3. /\ IsFiniteSet(Referrers(k)) /\ Cardinality(Referrers(k)) \in Nat /\ c \in Referrers(k)
      /\ Cardinality(Referrers(k) \ {c}) = Cardinality(Referrers(k)) - 1
  <2>1. c \in Referrers(k)
    BY <1>1 DEF Referrers
  <2> QED
    BY <2>1, ReferrersFinite, FS_RemoveElement
<1>4. entry[k].users = Cardinality(Referrers(k)) /\ entry[k].users # 0
  <2>1. Cardinality(Referrers(k)) # 0
    BY <1>3, FS_EmptySet
  <2> QED
    BY <2>1 DEF LocksInv, Counted
<1>5. entry[k].users = 1 => Referrers(k) = {c}
  <2>1. SUFFICES ASSUME entry[k].users = 1 PROVE Referrers(k) = {c}
    OBVIOUS
  <2>2. \E x : Referrers(k) = {x}
    BY <1>3, <1>4, <2>1, FS_Singleton
  <2> QED
    BY <1>3, <2>2
<1> DEFINE kept == [lock |-> entry[k].lock, users |-> entry[k].users - 1]
<1>6. entry' = [entry EXCEPT ![k] = IF entry[k].users = 1 THEN NoEntry ELSE kept]
  BY <1>2
<1>7. (kept.users \in Nat /\ kept.users # 0) \/ entry[k].users = 1
  BY <1>3, <1>4
<1>8. \A d \in Callers : wanted'[d] = IF d = c THEN NoKey ELSE wanted[d]
  BY <1>2 DEF LocksInv, LocksTypeOK
<1>9. LocksTypeOK'
  <2>1. entry' \in [Keys -> [lock : LockObjects \cup {NoObject}, users : Nat]]
    BY <1>6, <1>7 DEF LocksInv, LocksTypeOK, NoEntry
  <2> QED
    BY <1>2, <2>1 DEF LocksInv, LocksTypeOK, Places
<1>10. Counted'
  <2>1. Referrers(k)' = Referrers(k) \ {c} /\ \A j \in Keys \ {k} : Referrers(j)' = Referrers(j)
    BY <1>1, <1>8, LocksAssumption DEF Referrers
  <2>2. entry'[k].users = Cardinality(Referrers(k)')
    BY <1>3, <1>4, <1>6, <2>1 DEF LocksInv, LocksTypeOK, NoEntry
  <2>3. \A j \in Keys \ {k} : entry'[j] = entry[j]
    BY <1>6 DEF LocksInv, LocksTypeOK
  <2>4. ASSUME NEW j \in Keys PROVE entry'[j].users = Cardinality(Referrers(j)')
    BY <2>1, <2>2, <2>3 DEF Counted, LocksInv
  <2> QED
    BY <2>4 DEF Counted
<1>11. EntriesFit'
  BY <1>4, <1>6, <1>7, LocksAssumption DEF LocksInv, LocksTypeOK, EntriesFit, NoEntry
<1>12. CallersFit'
  BY <1>1, <1>2, <1>5, LocksAssumption DEF LocksInv, LocksTypeOK, CallersFit, NoEntry, Referrers
<1>13. OwnersFit'
  BY <1>2, LocksAssumption DEF LocksInv, LocksTypeOK, CallersFit, OwnersFit
<1> QED
  BY <1>9, <1>10, <1>11, <1>12, <1>13 DEF LocksInv

\* A restart is the beginning.
LEMMA LocksAfresh == ASSUME LocksInv, LocksRestart PROVE LocksInv'
<1>1. \A k \in Keys : Referrers(k)' = {}
  BY LocksAssumption DEF LocksRestart, Referrers
<1>2. Counted'
  BY <1>1, FS_EmptySet DEF LocksRestart, Counted, NoEntry
<1> QED
  BY <1>2, LocksAssumption DEF LocksRestart, LocksInv, LocksTypeOK, EntriesFit, CallersFit,
     OwnersFit, NoEntry, Places

\* Every step of the locks keeps the invariant.
LEMMA LocksStep == ASSUME LocksInv, [LocksNext]_lockVars PROVE LocksInv'
<1>1. CASE UNCHANGED lockVars
  BY <1>1 DEF lockVars, LocksInv, LocksTypeOK, Counted, Referrers, EntriesFit, CallersFit,
     OwnersFit
<1> QED
  BY <1>1, LocksRegister, LocksAcquire, LocksRefuse, LocksRelease, LocksUnregister, LocksAfresh
  DEF LocksNext

\* Who is inside for a key has its lock object, and an object has one owner.
LEMMA LocksExclude == LocksInv => OneInside
  BY DEF LocksInv, LocksTypeOK, CallersFit, OwnersFit, OneInside

-----------------------------------------------------------------------------
(* Dictionary, counters and lock objects are one lock per key.              *)

\* The caller inside is the holder.
LEMMA HolderIs ==
  ASSUME LocksInv, NEW k \in Keys
  PROVE  /\ \A c \in Callers : Holder[k] = c <=> c \in Inside(k)
         /\ Holder[k] = NoCaller <=> Inside(k) = {}
<1>1. Inside(k) # {} => (CHOOSE c \in Inside(k) : TRUE) \in Inside(k)
  OBVIOUS
<1>2. \A c, d \in Inside(k) : c = d
  BY LocksExclude DEF Inside, OneInside
<1> QED
  BY <1>1, <1>2, LocksAssumption DEF Holder, OneOf, Inside

\* A step that nobody enters or leaves by does not show.
LEMMA HolderStays ==
  ASSUME \A k \in Keys : Inside(k)' = Inside(k) PROVE Holder' = Holder
  BY DEF Holder

\* Every step of the locks is a step of TryLock or does not show.
LEMMA LocksRefine ==
  ASSUME LocksInv, LocksInv', [LocksNext]_lockVars PROVE [Promise!LockNext]_Holder
<1>1. ASSUME NEW c \in Callers, NEW works \in BOOLEAN, Acquire(c, works)
      PROVE  Promise!LockNext
  <2>1. PICK k \in Keys : k = wanted[c]
    BY <1>1 DEF Acquire, LocksInv, CallersFit
  <2>2. place' = [place EXCEPT ![c] = "inside"] /\ wanted' = wanted /\ place[c] = "registered"
    BY <1>1 DEF Acquire
  <2>3. Inside(k) = {} /\ \A j \in Keys : c \notin Inside(j)
    BY <1>1, <2>1, LocksAssumption DEF Acquire, LocksInv, CallersFit, OwnersFit, Inside, LocksTypeOK
  <2>4. Inside(k)' = {c} /\ \A j \in Keys \ {k} : Inside(j)' = Inside(j)
    BY <2>1, <2>2, <2>3 DEF Inside, LocksInv, LocksTypeOK
  <2>5. Holder' = [Holder EXCEPT ![k] = c]
    <3>1. OneOf({c}) = c
      BY DEF OneOf
    <3> QED
      BY <2>4, <3>1 DEF Holder
  <2>6. Promise!Take(c, k)
    BY <2>3, <2>5, HolderIs DEF Promise!Take
  <2> QED
    BY <2>6 DEF Promise!LockNext
<1>2. ASSUME NEW c \in Callers, Release(c) PROVE Promise!LockNext
  <2>1. PICK k \in Keys : k = wanted[c]
    BY <1>2 DEF Release, LocksInv, CallersFit
  <2>2. place' = [place EXCEPT ![c] = "leaving"] /\ wanted' = wanted /\ c \in Inside(k)
    BY <1>2, <2>1 DEF Release, Inside
  <2>3. \A d \in Inside(k) : d = c
    BY <2>2, LocksExclude DEF Inside, OneInside
  <2>4. Inside(k)' = {} /\ \A j \in Keys \ {k} : Inside(j)' = Inside(j)
    BY <2>1, <2>2, <2>3 DEF Inside, LocksInv, LocksTypeOK
  <2>5. Holder' = [Holder EXCEPT ![k] = NoCaller]
    <3>1. OneOf({}) = NoCaller
      BY DEF OneOf
    <3> QED
      BY <2>4, <3>1 DEF Holder
  <2>6. Promise!Give(c, k)
    BY <2>2, <2>5, HolderIs DEF Promise!Give
  <2> QED
    BY <2>6 DEF Promise!LockNext
<1>3. ASSUME NEW c \in Callers, Refuse(c) \/ Unregister(c) \/ \E k \in Keys : Register(c, k)
      PROVE  Holder' = Holder
  <2>1. place[c] # "inside" /\ place'[c] # "inside"
        /\ \A d \in Callers \ {c} : place'[d] = place[d] /\ wanted'[d] = wanted[d]
    BY <1>3 DEF Refuse, Unregister, Register, LocksInv, LocksTypeOK
  <2> QED
    BY <2>1, HolderStays DEF Inside
<1>4. ASSUME LocksRestart PROVE Promise!LockNext
  <2>1. \A k \in Keys : Inside(k)' = {}
    BY <1>4 DEF LocksRestart, Inside
  <2> QED
    BY <2>1 DEF Holder, OneOf, Promise!LockNext, Promise!LockCrash, Promise!LockFree
<1>5. CASE UNCHANGED lockVars
  BY <1>5, HolderStays DEF lockVars, Inside
<1> QED
  BY <1>1, <1>2, <1>3, <1>4, <1>5 DEF LocksNext

\* The locks keep their types.
THEOREM LocksTypeCorrect == LocksSpec => []LocksTypeOK
<1>1. LocksInv => LocksTypeOK
  BY DEF LocksInv
<1> QED
  BY <1>1, LocksBegin, LocksStep, PTL DEF LocksSpec

\* At most one caller works on a key, whatever lock objects come and go.
THEOREM NobodyElseInside == LocksSpec => []OneInside
  BY LocksBegin, LocksStep, LocksExclude, PTL DEF LocksSpec

\* The locks implement TryLock.
THEOREM LocksImplementPromise == LocksSpec => LocksPromise
<1>1. LocksInit => Promise!LockInit
  <2>1. LocksInit => \A k \in Keys : Inside(k) = {}
    BY DEF LocksInit, Inside
  <2> QED
    BY <2>1 DEF Holder, OneOf, Promise!LockInit, Promise!LockFree
<1> QED
  BY <1>1, LocksBegin, LocksStep, LocksRefine, PTL
  DEF LocksSpec, LocksPromise, Promise!LockSpec

-----------------------------------------------------------------------------
(* Conversations: each action keeps ChatInv. *)

\* A new conversation was nobody's.
LEMMA ChatCreateConversation ==
  ASSUME ChatInv, LocksInv, LocksInv', NEW k \in Keys, CreateConversation(k)
  PROVE  ChatInv'
<1>3. TypeOK'
  BY DEF CreateConversation, ChatInv, LocksInv, TypeOK, graphState, request, history, bounds,
     lockVars
<1>4. StepsInside'
  BY DEF CreateConversation, ChatInv, StepsInside, request, lockVars
<1>5. OpenWhileServed'
  BY DEF CreateConversation, ChatInv, OpenWhileServed, request, lockVars
<1>6. RankingWaits'
  BY DEF CreateConversation, ChatInv, RankingWaits, graphState, request, history, lockVars
<1>7. WaitingUnranked'
  BY DEF CreateConversation, ChatInv, WaitingUnranked, graphState, history, lockVars
<1>8. RankedAsConfirmed'
  BY DEF CreateConversation, ChatInv, RankedAsConfirmed, history, lockVars
<1>9. DeletedLeavesNothing'
  BY DEF CreateConversation, ChatInv, DeletedLeavesNothing, graphState, history, lockVars
<1> QED
  BY <1>3, <1>4, <1>5, <1>6, <1>7, <1>8, <1>9 DEF ChatInv

\* Reading changes only what a tab shows.
LEMMA ChatReadHistory ==
  ASSUME ChatInv, LocksInv, LocksInv', NEW c \in Callers, NEW k \in Keys, ReadHistory(c, k)
  PROVE  ChatInv'
<1>3. TypeOK'
  BY DEF ReadHistory, ChatInv, LocksInv, TypeOK, rows, graphState, request, history, bounds,
     lockVars
<1>4. StepsInside'
  BY DEF ReadHistory, ChatInv, StepsInside, request, lockVars
<1>5. OpenWhileServed'
  BY DEF ReadHistory, ChatInv, OpenWhileServed, rows, request, lockVars
<1>6. RankingWaits'
  BY DEF ReadHistory, ChatInv, RankingWaits, graphState, request, history, lockVars
<1>7. WaitingUnranked'
  BY DEF ReadHistory, ChatInv, WaitingUnranked, graphState, history, lockVars
<1>8. RankedAsConfirmed'
  BY DEF ReadHistory, ChatInv, RankedAsConfirmed, history, lockVars
<1>9. DeletedLeavesNothing'
  BY DEF ReadHistory, ChatInv, DeletedLeavesNothing, rows, graphState, history, lockVars
<1> QED
  BY <1>3, <1>4, <1>5, <1>6, <1>7, <1>8, <1>9 DEF ChatInv

\* A request waits outside the lock.
LEMMA ChatRequest ==
  ASSUME ChatInv, LocksInv, LocksInv', NEW c \in Callers, NEW k \in Keys,
         NEW o \in Operations, Request(c, k, o)
  PROVE  ChatInv'
<1>1. /\ place[c] # "outside" => wanted[c] \in Keys
      /\ step[c] # "none" => place[c] = "inside" /\ wanted[c] \in Keys
  BY DEF ChatInv, StepsInside, LocksInv, CallersFit
<1>3. TypeOK'
  BY DEF Request, Call, ChatInv, LocksInv, TypeOK, rows, graphState, history, lockVars
<1>4. StepsInside'
  BY DEF Request, Call, Register, ChatInv, StepsInside, bounds, lockVars
<1>5. OpenWhileServed'
  BY <1>1 DEF Request, Call, Register, ChatInv, OpenWhileServed, rows, bounds, lockVars
<1>6. RankingWaits'
  BY <1>1 DEF Request, Call, Register, ChatInv, RankingWaits, graphState, request, history,
     bounds, lockVars
<1>7. WaitingUnranked'
  BY DEF Request, Call, ChatInv, WaitingUnranked, graphState, request, history, bounds,
     lockVars
<1>8. RankedAsConfirmed'
  BY DEF Request, Call, ChatInv, RankedAsConfirmed, request, history, bounds, lockVars
<1>9. DeletedLeavesNothing'
  BY DEF Request, Call, ChatInv, DeletedLeavesNothing, rows, graphState, request, history,
     bounds, lockVars
<1> QED
  BY <1>3, <1>4, <1>5, <1>6, <1>7, <1>8, <1>9 DEF ChatInv

\* So does an answer to a confirmation.
LEMMA ChatRequestResume ==
  ASSUME ChatInv, LocksInv, LocksInv', NEW c \in Callers, NEW k \in Keys, NEW n \in Confirmations,
         NEW yes \in BOOLEAN, RequestResume(c, k, n, yes)
  PROVE  ChatInv'
<1>1. /\ place[c] # "outside" => wanted[c] \in Keys
      /\ step[c] # "none" => place[c] = "inside" /\ wanted[c] \in Keys
  BY DEF ChatInv, StepsInside, LocksInv, CallersFit
<1>3. TypeOK'
  BY DEF RequestResume, Call, Operations, ChatInv, LocksInv, TypeOK, rows, graphState,
     history, lockVars
<1>4. StepsInside'
  BY DEF RequestResume, Call, Register, ChatInv, StepsInside, bounds, lockVars
<1>5. OpenWhileServed'
  BY <1>1 DEF RequestResume, Call, Register, ChatInv, OpenWhileServed, rows, bounds, lockVars
<1>6. RankingWaits'
  BY <1>1 DEF RequestResume, Call, Register, ChatInv, RankingWaits, graphState, request,
     history, bounds, lockVars
<1>7. WaitingUnranked'
  BY DEF RequestResume, Call, ChatInv, WaitingUnranked, graphState, request, history, bounds,
     lockVars
<1>8. RankedAsConfirmed'
  BY DEF RequestResume, Call, ChatInv, RankedAsConfirmed, request, history, bounds, lockVars
<1>9. DeletedLeavesNothing'
  BY DEF RequestResume, Call, ChatInv, DeletedLeavesNothing, rows, graphState, request,
     history, bounds, lockVars
<1> QED
  BY <1>3, <1>4, <1>5, <1>6, <1>7, <1>8, <1>9 DEF ChatInv

\* Whoever enters has done nothing yet.
LEMMA ChatEnter ==
  ASSUME ChatInv, LocksInv, LocksInv', NEW c \in Callers, Enter(c)
  PROVE  ChatInv'
<1>3. TypeOK'
  BY DEF Enter, Goto, ChatInv, LocksInv, TypeOK, rows, graphState, history, bounds, Steps,
     lockVars
<1>4. StepsInside'
  BY DEF Enter, Acquire, Goto, ChatInv, StepsInside, TypeOK, LocksTypeOK, lockVars
<1>5. OpenWhileServed'
  BY DEF Enter, Acquire, Goto, ChatInv, OpenWhileServed, rows, lockVars
<1>6. RankingWaits'
  BY DEF Enter, Acquire, Goto, ChatInv, RankingWaits, graphState, history, lockVars
<1>7. WaitingUnranked'
  BY DEF Enter, ChatInv, WaitingUnranked, graphState, history, lockVars
<1>8. RankedAsConfirmed'
  BY DEF Enter, ChatInv, RankedAsConfirmed, history, lockVars
<1>9. DeletedLeavesNothing'
  BY DEF Enter, ChatInv, DeletedLeavesNothing, rows, graphState, history, lockVars
<1> QED
  BY <1>3, <1>4, <1>5, <1>6, <1>7, <1>8, <1>9 DEF ChatInv

\* Whoever is turned away was not inside.
LEMMA ChatTurnAway ==
  ASSUME ChatInv, LocksInv, LocksInv', NEW c \in Callers, TurnAway(c)
  PROVE  ChatInv'
<1>3. TypeOK'
  BY DEF TurnAway, ChatInv, LocksInv, TypeOK, rows, graphState, request, history, bounds,
     lockVars
<1>4. StepsInside'
  BY DEF TurnAway, Refuse, ChatInv, StepsInside, request, lockVars
<1>5. OpenWhileServed'
  BY DEF TurnAway, Refuse, ChatInv, OpenWhileServed, rows, request, lockVars
<1>6. RankingWaits'
  BY DEF TurnAway, Refuse, ChatInv, RankingWaits, graphState, request, history, lockVars
<1>7. WaitingUnranked'
  BY DEF TurnAway, ChatInv, WaitingUnranked, graphState, history, lockVars
<1>8. RankedAsConfirmed'
  BY DEF TurnAway, ChatInv, RankedAsConfirmed, history, lockVars
<1>9. DeletedLeavesNothing'
  BY DEF TurnAway, ChatInv, DeletedLeavesNothing, rows, graphState, history, lockVars
<1> QED
  BY <1>3, <1>4, <1>5, <1>6, <1>7, <1>8, <1>9 DEF ChatInv

\* Giving up changes nothing.
LEMMA ChatGiveUp ==
  ASSUME ChatInv, LocksInv, LocksInv', NEW c \in Callers, GiveUp(c)
  PROVE  ChatInv'
<1>3. TypeOK'
  BY DEF GiveUp, Goto, ChatInv, LocksInv, TypeOK, rows, graphState, history, bounds, Steps,
     lockVars
<1>4. StepsInside'
  BY DEF GiveUp, Goto, ChatInv, StepsInside, lockVars
<1>5. OpenWhileServed'
  BY DEF GiveUp, Goto, ChatInv, OpenWhileServed, rows, lockVars
<1>6. RankingWaits'
  BY DEF GiveUp, Goto, ChatInv, RankingWaits, graphState, history, lockVars
<1>7. WaitingUnranked'
  BY DEF GiveUp, ChatInv, WaitingUnranked, graphState, history, lockVars
<1>8. RankedAsConfirmed'
  BY DEF GiveUp, ChatInv, RankedAsConfirmed, history, lockVars
<1>9. DeletedLeavesNothing'
  BY DEF GiveUp, ChatInv, DeletedLeavesNothing, rows, graphState, history, lockVars
<1> QED
  BY <1>3, <1>4, <1>5, <1>6, <1>7, <1>8, <1>9 DEF ChatInv

\* Leaving ends the steps under the lock.
LEMMA ChatLeave ==
  ASSUME ChatInv, LocksInv, LocksInv', NEW c \in Callers, Leave(c)
  PROVE  ChatInv'
<1>3. TypeOK'
  BY DEF Leave, Goto, ChatInv, LocksInv, TypeOK, rows, graphState, history, bounds, Steps,
     lockVars
<1>4. StepsInside'
  BY DEF Leave, Release, Goto, ChatInv, StepsInside, TypeOK, LocksTypeOK, lockVars
<1>5. OpenWhileServed'
  BY DEF Leave, Release, Goto, ChatInv, OpenWhileServed, rows, lockVars
<1>6. RankingWaits'
  BY DEF Leave, Release, Goto, ChatInv, RankingWaits, graphState, history, lockVars
<1>7. WaitingUnranked'
  BY DEF Leave, ChatInv, WaitingUnranked, graphState, history, lockVars
<1>8. RankedAsConfirmed'
  BY DEF Leave, ChatInv, RankedAsConfirmed, history, lockVars
<1>9. DeletedLeavesNothing'
  BY DEF Leave, ChatInv, DeletedLeavesNothing, rows, graphState, history, lockVars
<1> QED
  BY <1>3, <1>4, <1>5, <1>6, <1>7, <1>8, <1>9 DEF ChatInv

\* A reply comes after the lock.
LEMMA ChatReply ==
  ASSUME ChatInv, LocksInv, LocksInv', NEW c \in Callers, Reply(c)
  PROVE  ChatInv'
<1>1. /\ place[c] # "outside" => wanted[c] \in Keys
      /\ step[c] # "none" => place[c] = "inside" /\ wanted[c] \in Keys
  BY DEF ChatInv, StepsInside, LocksInv, CallersFit
<1>3. TypeOK'
  BY DEF Reply, Operations, ChatInv, LocksInv, TypeOK, rows, graphState, history, bounds,
     lockVars
<1>4. StepsInside'
  BY DEF Reply, Unregister, ChatInv, StepsInside, lockVars
<1>5. OpenWhileServed'
  BY <1>1 DEF Reply, Unregister, ChatInv, OpenWhileServed, rows, lockVars
<1>6. RankingWaits'
  BY <1>1 DEF Reply, Unregister, ChatInv, RankingWaits, graphState, history, lockVars
<1>7. WaitingUnranked'
  BY DEF Reply, ChatInv, WaitingUnranked, graphState, history, lockVars
<1>8. RankedAsConfirmed'
  BY DEF Reply, ChatInv, RankedAsConfirmed, history, lockVars
<1>9. DeletedLeavesNothing'
  BY DEF Reply, ChatInv, DeletedLeavesNothing, rows, graphState, history, lockVars
<1> QED
  BY <1>3, <1>4, <1>5, <1>6, <1>7, <1>8, <1>9 DEF ChatInv

\* A turn starts in an open conversation.
LEMMA ChatStartAsk ==
  ASSUME ChatInv, LocksInv, LocksInv', NEW c \in Callers, StartAsk(c)
  PROVE  ChatInv'
<1>3. TypeOK'
  BY DEF StartAsk, Goto, ChatInv, LocksInv, TypeOK, rows, history, bounds, Steps, lockVars
<1>4. StepsInside'
  BY DEF StartAsk, Serves, Goto, ChatInv, StepsInside, lockVars
<1>5. OpenWhileServed'
  BY DEF StartAsk, Serves, Goto, ChatInv, OpenWhileServed, rows, lockVars
<1>6. RankingWaits'
  BY DEF StartAsk, Goto, ChatInv, RankingWaits, history, lockVars
<1>7. WaitingUnranked'
  BY DEF StartAsk, ChatInv, WaitingUnranked, history, lockVars
<1>8. RankedAsConfirmed'
  BY DEF StartAsk, ChatInv, RankedAsConfirmed, history, lockVars
<1>9. DeletedLeavesNothing'
  BY DEF StartAsk, Serves, ChatInv, DeletedLeavesNothing, rows, history, lockVars
<1> QED
  BY <1>3, <1>4, <1>5, <1>6, <1>7, <1>8, <1>9 DEF ChatInv

\* The conversation of a turn is still open.
LEMMA ChatAnswer ==
  ASSUME ChatInv, LocksInv, LocksInv', NEW c \in Callers, Answer(c)
  PROVE  ChatInv'
<1>1. /\ place[c] # "outside" => wanted[c] \in Keys
      /\ step[c] # "none" => place[c] = "inside" /\ wanted[c] \in Keys
  BY DEF ChatInv, StepsInside, LocksInv, CallersFit
<1>3. TypeOK'
  BY <1>1 DEF Answer, Goto, ChatInv, LocksInv, TypeOK, rows, history, bounds, Steps, lockVars
<1>4. StepsInside'
  BY DEF Answer, Goto, ChatInv, StepsInside, lockVars
<1>5. OpenWhileServed'
  BY DEF Answer, Goto, ChatInv, OpenWhileServed, rows, lockVars
<1>6. RankingWaits'
  BY DEF Answer, Goto, ChatInv, RankingWaits, history, lockVars
<1>7. WaitingUnranked'
  BY DEF Answer, ChatInv, WaitingUnranked, history, lockVars
<1>8. RankedAsConfirmed'
  BY DEF Answer, ChatInv, RankedAsConfirmed, history, lockVars
<1>9. DeletedLeavesNothing'
  BY DEF Answer, ChatInv, DeletedLeavesNothing, OpenWhileServed, rows, history, lockVars
<1> QED
  BY <1>3, <1>4, <1>5, <1>6, <1>7, <1>8, <1>9 DEF ChatInv

\* What is raised is new, so it was never ranked.
LEMMA ChatAskConfirmation ==
  ASSUME ChatInv, LocksInv, LocksInv', NEW c \in Callers, AskConfirmation(c)
  PROVE  ChatInv'
<1>1. /\ place[c] # "outside" => wanted[c] \in Keys
      /\ step[c] # "none" => place[c] = "inside" /\ wanted[c] \in Keys
  BY DEF ChatInv, StepsInside, LocksInv, CallersFit
<1>2. \A d \in Callers :
        place[c] = "inside" /\ place[d] = "inside" /\ wanted[c] = wanted[d] => c = d
  BY LocksExclude DEF OneInside
<1>3. TypeOK'
  BY <1>1 DEF AskConfirmation, Goto, ChatInv, LocksInv, TypeOK, rows, history, bounds, Steps,
     lockVars
<1>4. StepsInside'
  BY DEF AskConfirmation, Goto, ChatInv, StepsInside, lockVars
<1>5. OpenWhileServed'
  BY DEF AskConfirmation, Goto, ChatInv, OpenWhileServed, rows, lockVars
<1>6. RankingWaits'
  BY <1>2 DEF AskConfirmation, Goto, ChatInv, RankingWaits, StepsInside, history, lockVars
<1>7. WaitingUnranked'
  BY DEF AskConfirmation, ChatInv, WaitingUnranked, history, lockVars
<1>8. RankedAsConfirmed'
  BY DEF AskConfirmation, ChatInv, RankedAsConfirmed, history, lockVars
<1>9. DeletedLeavesNothing'
  BY DEF AskConfirmation, ChatInv, DeletedLeavesNothing, OpenWhileServed, rows, history,
     lockVars
<1> QED
  BY <1>3, <1>4, <1>5, <1>6, <1>7, <1>8, <1>9 DEF ChatInv

\* A ranking starts for a confirmation that waits.
LEMMA ChatStartResume ==
  ASSUME ChatInv, LocksInv, LocksInv', NEW c \in Callers, StartResume(c)
  PROVE  ChatInv'
<1>1. /\ place[c] # "outside" => wanted[c] \in Keys
      /\ step[c] # "none" => place[c] = "inside" /\ wanted[c] \in Keys
  BY DEF ChatInv, StepsInside, LocksInv, CallersFit
<1>3. TypeOK'
  BY <1>1 DEF StartResume, Serves, Accept, Goto, ChatInv, LocksInv, TypeOK, rows, graphState,
     bounds, Steps, lockVars
<1>4. StepsInside'
  BY DEF StartResume, Serves, Goto, ChatInv, StepsInside, lockVars
<1>5. OpenWhileServed'
  BY DEF StartResume, Serves, Goto, ChatInv, OpenWhileServed, rows, lockVars
<1>6. RankingWaits'
  BY DEF StartResume, Accept, Goto, ChatInv, RankingWaits, graphState, lockVars
<1>7. WaitingUnranked'
  BY DEF StartResume, ChatInv, WaitingUnranked, graphState, lockVars
<1>8. RankedAsConfirmed'
  BY DEF StartResume, Accept, ChatInv, RankedAsConfirmed, lockVars
<1>9. DeletedLeavesNothing'
  BY DEF StartResume, ChatInv, DeletedLeavesNothing, rows, graphState, lockVars
<1> QED
  BY <1>3, <1>4, <1>5, <1>6, <1>7, <1>8, <1>9 DEF ChatInv

\* It still waits when its result is recorded: nobody else was inside.
LEMMA ChatRank ==
  ASSUME ChatInv, LocksInv, LocksInv', NEW c \in Callers, Rank(c)
  PROVE  ChatInv'
<1>1. /\ place[c] # "outside" => wanted[c] \in Keys
      /\ step[c] # "none" => place[c] = "inside" /\ wanted[c] \in Keys
  BY DEF ChatInv, StepsInside, LocksInv, CallersFit
<1>2. \A d \in Callers :
        place[c] = "inside" /\ place[d] = "inside" /\ wanted[c] = wanted[d] => c = d
  BY LocksExclude DEF OneInside
<1>10. /\ chosen[c] \in Confirmations /\ chosen[c] \in waiting[wanted[c]]
       /\ chosen[c] \in raised /\ ranked[chosen[c]] = 0
  BY <1>1 DEF Rank, ChatInv, TypeOK, RankingWaits, WaitingUnranked
<1>12. PICK yes \in {verdict[c], chosen[c] \in consented} :
         ranked' = IF yes THEN [ranked EXCEPT ![chosen[c]] = @ + 1] ELSE ranked
  BY DEF Rank
<1>13. step[c] = "ranking" /\ verdict[c] \in BOOLEAN
  BY DEF Rank, ChatInv, TypeOK
<1>14. yes => chosen[c] \in consented
  BY <1>13 DEF ChatInv, RankingWaits
<1>11. \/ ranked' = ranked
       \/ chosen[c] \in consented /\ ranked' = [ranked EXCEPT ![chosen[c]] = 1]
  BY <1>10, <1>12, <1>14
<1>3. TypeOK'
  BY <1>1, <1>10 DEF Rank, Goto, ChatInv, LocksInv, TypeOK, rows, bounds, Steps, lockVars
<1>4. StepsInside'
  BY DEF Rank, Goto, ChatInv, StepsInside, lockVars
<1>5. OpenWhileServed'
  BY DEF Rank, Goto, ChatInv, OpenWhileServed, rows, lockVars
<1>6. RankingWaits'
  BY <1>2 DEF Rank, Goto, ChatInv, RankingWaits, TypeOK, StepsInside, lockVars
<1>7. WaitingUnranked'
  BY <1>1, <1>10 DEF Rank, ChatInv, WaitingUnranked, TypeOK, lockVars
<1>8. RankedAsConfirmed'
  BY <1>11 DEF Rank, ChatInv, RankedAsConfirmed, lockVars
<1>9. DeletedLeavesNothing'
  BY DEF Rank, ChatInv, DeletedLeavesNothing, rows, lockVars
<1> QED
  BY <1>3, <1>4, <1>5, <1>6, <1>7, <1>8, <1>9 DEF ChatInv

\* A failed turn ranks nothing.
LEMMA ChatBreak ==
  ASSUME ChatInv, LocksInv, LocksInv', NEW c \in Callers, Break(c)
  PROVE  ChatInv'
<1>2. \A d \in Callers :
        place[c] = "inside" /\ place[d] = "inside" /\ wanted[c] = wanted[d] => c = d
  BY LocksExclude DEF OneInside
<1>10. \A d \in Callers \ {c} : step[d] = "ranking" => wanted[d] # wanted[c]
  BY <1>2 DEF Break, ChatInv, StepsInside
<1>3. TypeOK'
  BY DEF Break, Goto, ChatInv, LocksInv, TypeOK, rows, history, bounds, Steps, lockVars
<1>4. StepsInside'
  BY DEF Break, Goto, ChatInv, StepsInside, lockVars
<1>5. OpenWhileServed'
  BY DEF Break, Goto, ChatInv, OpenWhileServed, rows, lockVars
<1>6. RankingWaits'
  <2>1. \A d \in Callers : step'[d] = "ranking" => d # c /\ step[d] = "ranking"
    BY DEF Break, Goto, ChatInv, TypeOK
  <2>2. \A k \in Keys \ {wanted[c]} : waiting'[k] = waiting[k]
    BY DEF Break, ChatInv, TypeOK
  <2>3. \A d \in Callers : step[d] = "ranking" => wanted[d] \in Keys
    BY DEF ChatInv, StepsInside, LocksInv, CallersFit
  <2> QED
    BY <1>10, <2>1, <2>2, <2>3 DEF Break, ChatInv, RankingWaits, history, lockVars
<1>7. WaitingUnranked'
  BY DEF Break, ChatInv, WaitingUnranked, TypeOK, history, lockVars
<1>8. RankedAsConfirmed'
  BY DEF Break, ChatInv, RankedAsConfirmed, history, lockVars
<1>9. DeletedLeavesNothing'
  BY DEF Break, ChatInv, DeletedLeavesNothing, TypeOK, rows, history, lockVars
<1> QED
  BY <1>3, <1>4, <1>5, <1>6, <1>7, <1>8, <1>9 DEF ChatInv

\* Feedback is for an open conversation.
LEMMA ChatStartFeedback ==
  ASSUME ChatInv, LocksInv, LocksInv', NEW c \in Callers, StartFeedback(c)
  PROVE  ChatInv'
<1>3. TypeOK'
  BY DEF StartFeedback, Goto, ChatInv, LocksInv, TypeOK, rows, graphState, history, bounds,
     Steps, lockVars
<1>4. StepsInside'
  BY DEF StartFeedback, Serves, Goto, ChatInv, StepsInside, lockVars
<1>5. OpenWhileServed'
  BY DEF StartFeedback, Serves, Goto, ChatInv, OpenWhileServed, rows, lockVars
<1>6. RankingWaits'
  BY DEF StartFeedback, Goto, ChatInv, RankingWaits, graphState, history, lockVars
<1>7. WaitingUnranked'
  BY DEF StartFeedback, ChatInv, WaitingUnranked, graphState, history, lockVars
<1>8. RankedAsConfirmed'
  BY DEF StartFeedback, ChatInv, RankedAsConfirmed, history, lockVars
<1>9. DeletedLeavesNothing'
  BY DEF StartFeedback, ChatInv, DeletedLeavesNothing, rows, graphState, history, lockVars
<1> QED
  BY <1>3, <1>4, <1>5, <1>6, <1>7, <1>8, <1>9 DEF ChatInv

\* The conversation is still open: a deletion waits for the lock.
LEMMA ChatSaveFeedback ==
  ASSUME ChatInv, LocksInv, LocksInv', NEW c \in Callers, SaveFeedback(c)
  PROVE  ChatInv'
<1>1. /\ place[c] # "outside" => wanted[c] \in Keys
      /\ step[c] # "none" => place[c] = "inside" /\ wanted[c] \in Keys
  BY DEF ChatInv, StepsInside, LocksInv, CallersFit
<1>3. TypeOK'
  BY <1>1 DEF SaveFeedback, Goto, ChatInv, LocksInv, TypeOK, graphState, history, bounds,
     Steps, lockVars
<1>4. StepsInside'
  BY DEF SaveFeedback, Goto, ChatInv, StepsInside, lockVars
<1>5. OpenWhileServed'
  BY DEF SaveFeedback, Goto, ChatInv, OpenWhileServed, lockVars
<1>6. RankingWaits'
  BY DEF SaveFeedback, Goto, ChatInv, RankingWaits, graphState, history, lockVars
<1>7. WaitingUnranked'
  BY DEF SaveFeedback, ChatInv, WaitingUnranked, graphState, history, lockVars
<1>8. RankedAsConfirmed'
  BY DEF SaveFeedback, ChatInv, RankedAsConfirmed, history, lockVars
<1>9. DeletedLeavesNothing'
  BY DEF SaveFeedback, ChatInv, DeletedLeavesNothing, OpenWhileServed, graphState, history,
     lockVars
<1> QED
  BY <1>3, <1>4, <1>5, <1>6, <1>7, <1>8, <1>9 DEF ChatInv

\* Nobody else serves a conversation that is deleted.
LEMMA ChatStartDelete ==
  ASSUME ChatInv, LocksInv, LocksInv', NEW c \in Callers, StartDelete(c)
  PROVE  ChatInv'
<1>1. /\ place[c] # "outside" => wanted[c] \in Keys
      /\ step[c] # "none" => place[c] = "inside" /\ wanted[c] \in Keys
  BY DEF ChatInv, StepsInside, LocksInv, CallersFit
<1>2. \A d \in Callers :
        place[c] = "inside" /\ place[d] = "inside" /\ wanted[c] = wanted[d] => c = d
  BY LocksExclude DEF OneInside
<1>3. TypeOK'
  BY DEF StartDelete, Goto, ChatInv, LocksInv, TypeOK, graphState, history, bounds, Steps,
     lockVars
<1>4. StepsInside'
  BY DEF StartDelete, Goto, ChatInv, StepsInside, lockVars
<1>5. OpenWhileServed'
  BY <1>1, <1>2 DEF StartDelete, Goto, ChatInv, OpenWhileServed, TypeOK, StepsInside, lockVars
<1>6. RankingWaits'
  BY DEF StartDelete, Goto, ChatInv, RankingWaits, graphState, history, lockVars
<1>7. WaitingUnranked'
  BY DEF StartDelete, ChatInv, WaitingUnranked, graphState, history, lockVars
<1>8. RankedAsConfirmed'
  BY DEF StartDelete, ChatInv, RankedAsConfirmed, history, lockVars
<1>9. DeletedLeavesNothing'
  BY DEF StartDelete, ChatInv, DeletedLeavesNothing, graphState, history, lockVars
<1> QED
  BY <1>3, <1>4, <1>5, <1>6, <1>7, <1>8, <1>9 DEF ChatInv

\* Only the caller that deleted it is at work on it.
LEMMA ChatDeleteCheckpoints ==
  ASSUME ChatInv, LocksInv, LocksInv', NEW c \in Callers, DeleteCheckpoints(c)
  PROVE  ChatInv'
<1>1. /\ place[c] # "outside" => wanted[c] \in Keys
      /\ step[c] # "none" => place[c] = "inside" /\ wanted[c] \in Keys
  BY DEF ChatInv, StepsInside, LocksInv, CallersFit
<1>2. \A d \in Callers :
        place[c] = "inside" /\ place[d] = "inside" /\ wanted[c] = wanted[d] => c = d
  BY LocksExclude DEF OneInside
<1>3. TypeOK'
  BY <1>1 DEF DeleteCheckpoints, Goto, ChatInv, LocksInv, TypeOK, rows, bounds, Steps,
     lockVars
<1>4. StepsInside'
  BY DEF DeleteCheckpoints, Goto, ChatInv, StepsInside, lockVars
<1>5. OpenWhileServed'
  BY DEF DeleteCheckpoints, Goto, ChatInv, OpenWhileServed, rows, lockVars
<1>6. RankingWaits'
  BY <1>2 DEF DeleteCheckpoints, Goto, ChatInv, RankingWaits, StepsInside, lockVars
<1>7. WaitingUnranked'
  BY DEF DeleteCheckpoints, ChatInv, WaitingUnranked, lockVars
<1>8. RankedAsConfirmed'
  BY DEF DeleteCheckpoints, ChatInv, RankedAsConfirmed, lockVars
<1>9. DeletedLeavesNothing'
  BY DEF DeleteCheckpoints, ChatInv, DeletedLeavesNothing, TypeOK, OpenWhileServed, rows,
     lockVars
<1> QED
  BY <1>3, <1>4, <1>5, <1>6, <1>7, <1>8, <1>9 DEF ChatInv

\* A failed cleanup claims nothing.
LEMMA ChatCleanupFails ==
  ASSUME ChatInv, LocksInv, LocksInv', NEW c \in Callers, CleanupFails(c)
  PROVE  ChatInv'
<1>3. TypeOK'
  BY DEF CleanupFails, Goto, ChatInv, LocksInv, TypeOK, rows, graphState, history, bounds,
     Steps, lockVars
<1>4. StepsInside'
  BY DEF CleanupFails, Goto, ChatInv, StepsInside, lockVars
<1>5. OpenWhileServed'
  BY DEF CleanupFails, Goto, ChatInv, OpenWhileServed, rows, lockVars
<1>6. RankingWaits'
  BY DEF CleanupFails, Goto, ChatInv, RankingWaits, graphState, history, lockVars
<1>7. WaitingUnranked'
  BY DEF CleanupFails, ChatInv, WaitingUnranked, graphState, history, lockVars
<1>8. RankedAsConfirmed'
  BY DEF CleanupFails, ChatInv, RankedAsConfirmed, history, lockVars
<1>9. DeletedLeavesNothing'
  BY DEF CleanupFails, ChatInv, DeletedLeavesNothing, rows, graphState, history, lockVars
<1> QED
  BY <1>3, <1>4, <1>5, <1>6, <1>7, <1>8, <1>9 DEF ChatInv

\* After a restart nobody is at work.
LEMMA ChatRestart ==
  ASSUME ChatInv, LocksInv, LocksInv', Restart
  PROVE  ChatInv'
<1>3. TypeOK'
  BY DEF Restart, ChatInv, LocksInv, TypeOK, rows, graphState, request, history, bounds,
     Operations, Steps, lockVars
<1>4. StepsInside'
  BY DEF Restart, LocksRestart, StepsInside, bounds, lockVars
<1>5. OpenWhileServed'
  BY DEF Restart, OpenWhileServed, bounds, lockVars
<1>6. RankingWaits'
  BY DEF Restart, RankingWaits, bounds, lockVars
<1>7. WaitingUnranked'
  BY DEF Restart, ChatInv, WaitingUnranked, graphState, request, history, bounds, lockVars
<1>8. RankedAsConfirmed'
  BY DEF Restart, ChatInv, RankedAsConfirmed, request, history, bounds, lockVars
<1>9. DeletedLeavesNothing'
  BY DEF Restart, ChatInv, DeletedLeavesNothing, rows, graphState, request, history, bounds,
     lockVars
<1> QED
  BY <1>3, <1>4, <1>5, <1>6, <1>7, <1>8, <1>9 DEF ChatInv

\* Initially there is nothing to break.
LEMMA ChatBegin == Init => LocksInv /\ ChatInv
<1>1. Init => ChatInv
  BY DEF Init, LocksInit, ChatInv, TypeOK, LocksTypeOK, StepsInside, OpenWhileServed,
     RankingWaits, WaitingUnranked, RankedAsConfirmed, DeletedLeavesNothing, NoEntry, Places,
     Operations, Steps
<1> QED
  BY <1>1, LocksBegin DEF Init

\* A conversation's step is a step of the locks, or leaves them alone.
LEMMA ChatUsesLocks == ASSUME [Next]_vars PROVE [LocksNext]_lockVars
<1>1. ASSUME NEW c \in Callers, CallerStep(c) PROVE [LocksNext]_lockVars
  <2>1. CASE Enter(c)
    <3>1. (op[c] \in {"ask", "resume"}) \in BOOLEAN
      OBVIOUS
    <3> QED
      BY <2>1, <3>1 DEF Enter, LocksNext
  <2>2. CASE TurnAway(c) \/ Leave(c) \/ Reply(c)
    BY <2>2 DEF TurnAway, Leave, Reply, LocksNext
  <2>3. CASE \/ GiveUp(c) \/ StartAsk(c) \/ Answer(c) \/ AskConfirmation(c)
             \/ StartResume(c) \/ Rank(c) \/ Break(c)
    BY <2>3 DEF GiveUp, StartAsk, Answer, AskConfirmation, StartResume, Rank, Break
  <2>4. CASE \/ StartFeedback(c) \/ SaveFeedback(c)
             \/ StartDelete(c) \/ DeleteCheckpoints(c) \/ CleanupFails(c)
    BY <2>4 DEF StartFeedback, SaveFeedback, StartDelete, DeleteCheckpoints, CleanupFails
  <2> QED
    BY <1>1, <2>1, <2>2, <2>3, <2>4 DEF CallerStep
<1>2. ASSUME NEW c \in Callers, NEW k \in Keys, NEW o \in Operations, Request(c, k, o)
      PROVE  LocksNext
  BY <1>2 DEF Request, Call, LocksNext
<1>3. ASSUME NEW c \in Callers, NEW k \in Keys, NEW n \in Confirmations, NEW yes \in BOOLEAN,
             RequestResume(c, k, n, yes)
      PROVE  LocksNext
  BY <1>3 DEF RequestResume, Call, LocksNext
<1>4. ASSUME NEW k \in Keys, CreateConversation(k) \/ \E c \in Callers : ReadHistory(c, k)
      PROVE  UNCHANGED lockVars
  BY <1>4 DEF CreateConversation, ReadHistory
<1>5. CASE Restart
  BY <1>5 DEF Restart, LocksNext
<1>6. CASE UNCHANGED vars
  BY <1>6 DEF vars
<1> QED
  BY <1>1, <1>2, <1>3, <1>4, <1>5, <1>6 DEF Next

\* Every step keeps the locks' invariant and that of the conversations.
LEMMA ChatStep ==
  ASSUME LocksInv, ChatInv, [Next]_vars PROVE LocksInv' /\ ChatInv'
<1>1. LocksInv'
  BY ChatUsesLocks, LocksStep
<1>2. CASE UNCHANGED vars
  <2>1. TypeOK'
    BY <1>2 DEF vars, lockVars, rows, graphState, request, history, bounds, ChatInv, TypeOK,
       LocksTypeOK
  <2>2. StepsInside' /\ OpenWhileServed' /\ RankingWaits'
    BY <1>2 DEF vars, lockVars, rows, graphState, request, history, ChatInv, StepsInside,
       OpenWhileServed, RankingWaits
  <2>3. WaitingUnranked' /\ RankedAsConfirmed' /\ DeletedLeavesNothing'
    BY <1>2 DEF vars, rows, graphState, history, ChatInv, WaitingUnranked, RankedAsConfirmed,
       DeletedLeavesNothing
  <2> QED
    BY <1>1, <2>1, <2>2, <2>3 DEF ChatInv
<1>3. ASSUME NEW c \in Callers, CallerStep(c) PROVE ChatInv'
  BY <1>1, <1>3, ChatEnter, ChatTurnAway, ChatGiveUp, ChatLeave, ChatReply, ChatStartAsk,
     ChatAnswer, ChatAskConfirmation, ChatStartResume, ChatRank, ChatBreak, ChatStartFeedback,
     ChatSaveFeedback, ChatStartDelete, ChatDeleteCheckpoints, ChatCleanupFails DEF CallerStep
<1>4. ASSUME NEW c \in Callers, NEW k \in Keys,
             \/ ReadHistory(c, k)
             \/ \E o \in Operations : Request(c, k, o)
             \/ \E n \in Confirmations, yes \in BOOLEAN : RequestResume(c, k, n, yes)
      PROVE  ChatInv'
  BY <1>1, <1>4, ChatReadHistory, ChatRequest, ChatRequestResume
<1> QED
  BY <1>1, <1>2, <1>3, <1>4, ChatCreateConversation, ChatRestart DEF Next

-----------------------------------------------------------------------------
(* The theorems about conversations.                                        *)

\* Conversations keep their types.
THEOREM TypeCorrect == Spec => []TypeOK
<1>1. ChatInv => TypeOK
  BY DEF ChatInv
<1> QED
  BY <1>1, ChatBegin, ChatStep, PTL DEF Spec

\* The ranking runs to its end only for a confirmation somebody gave, and once.
THEOREM RankingIsConfirmed == Spec => []RankedAsConfirmed
<1>1. ChatInv => RankedAsConfirmed
  BY DEF ChatInv
<1> QED
  BY <1>1, ChatBegin, ChatStep, PTL DEF Spec

\* Nothing of a deleted conversation stays or comes back.
THEOREM DeletionIsComplete == Spec => []DeletedLeavesNothing
<1>1. ChatInv => DeletedLeavesNothing
  BY DEF ChatInv
<1> QED
  BY <1>1, ChatBegin, ChatStep, PTL DEF Spec

\* Conversations use their locks as the locks allow, so they inherit their promise.
THEOREM ConversationsKeepPromise == Spec => LocksPromise
<1>1. Spec => LocksSpec
  <2>1. Init => LocksInit
    BY DEF Init
  <2> QED
    BY <2>1, ChatUsesLocks, PTL DEF Spec, LocksSpec
<1> QED
  BY <1>1, LocksImplementPromise, PTL

=============================================================================
