---------------------------- MODULE IntakeProofs ----------------------------
(***************************************************************************)
(* Theorems about the Gemini keys and the mailbox, for any number of keys  *)
(* and calls, any mails, contents and polls, and every bound.              *)
(***************************************************************************)
EXTENDS EmailIntake, KeyFailover, SequenceTheorems, FiniteSetTheorems, TLAPS

-----------------------------------------------------------------------------
(* Keys: the order in which a call meets them.                              *)

\* The index after the last one is the first one again.
LEMMA NextKey ==
  ASSUME NEW k \in ApiKeys
  PROVE  /\ (k + 1) % NumKeys = Wrapped(k + 1)
         /\ (k + 1) % NumKeys \in ApiKeys
<1>1. NumKeys \in Nat \ {0}
  BY FailoverAssumption
<1>2. CASE k + 1 = NumKeys
  <2>1. NumKeys % NumKeys = 0
    BY <1>1
  <2> QED
    BY <1>1, <1>2, <2>1 DEF ApiKeys, Wrapped
<1>3. CASE k + 1 < NumKeys
  <2>1. (k + 1) % NumKeys = k + 1
    BY <1>1, <1>3 DEF ApiKeys
  <2> QED
    BY <1>1, <1>3, <2>1 DEF ApiKeys, Wrapped
<1> QED
  BY <1>1, <1>2, <1>3 DEF ApiKeys

\* As many keys in a row as there are, from any start, are all of them.
LEMMA AllTheWayRound ==
  ASSUME NEW s \in ApiKeys
  PROVE  Stretch(s, NumKeys) = ApiKeys
<1>1. NumKeys \in Nat \ {0}
  BY FailoverAssumption
<1>2. ASSUME NEW k \in ApiKeys PROVE k \in Stretch(s, NumKeys)
  <2> DEFINE i == IF k >= s THEN k - s ELSE k - s + NumKeys
  <2>1. i \in 0..(NumKeys - 1) /\ Wrapped(s + i) = k
    BY <1>1 DEF ApiKeys, Wrapped
  <2> HIDE DEF i
  <2> QED
    BY <2>1 DEF Stretch
<1>3. ASSUME NEW k \in Stretch(s, NumKeys) PROVE k \in ApiKeys
  <2>1. PICK i \in 0..(NumKeys - 1) : k = Wrapped(s + i)
    BY DEF Stretch
  <2> QED
    BY <1>1, <2>1 DEF ApiKeys, Wrapped
<1> QED
  BY <1>2, <1>3

\* One key more.
LEMMA StretchGrows ==
  ASSUME NEW s \in ApiKeys, NEW n \in Nat
  PROVE  Stretch(s, n) \cup {Wrapped(s + n)} = Stretch(s, n + 1)
  BY FailoverAssumption DEF Stretch, ApiKeys

\* No key yet.
LEMMA StretchStarts ==
  ASSUME NEW s \in ApiKeys
  PROVE  /\ Stretch(s, 0) = {}
         /\ Wrapped(s) = s
  BY FailoverAssumption DEF Stretch, Wrapped, ApiKeys

-----------------------------------------------------------------------------
(* Each action keeps FailoverInv.                                           *)

\* Nobody has called yet.
LEMMA FailoverBegin == FailoverInit => FailoverInv
  BY FailoverAssumption DEF FailoverInit, FailoverInv, FailoverTypeOK, TriedInARow, AttemptLeft,
     ApiKeys

\* A quota that runs out or is renewed moves no index.
LEMMA FailoverSpendQuota ==
  ASSUME FailoverInv, NEW k \in ApiKeys, SpendQuota(k)
  PROVE  FailoverInv'
<1>1. FailoverTypeOK'
  BY DEF SpendQuota, FailoverInv, FailoverTypeOK
<1>2. TriedInARow'
  BY DEF SpendQuota, FailoverInv, TriedInARow, InARow, Turn
<1>3. AttemptLeft'
  BY DEF SpendQuota, FailoverInv, AttemptLeft
<1> QED
  BY <1>1, <1>2, <1>3 DEF FailoverInv

\* Whoever does not move the index leaves the others in their row.
LEMMA OthersInARow ==
  ASSUME FailoverInv, NEW c \in Models, UNCHANGED keyIndex,
         \A d \in Models \ {c} : call'[d] = call[d],
         call'[c] # NoCall /\ call'[c].alone => \E s \in ApiKeys : InARow(c, s)'
  PROVE  TriedInARow'
<1>1. ASSUME NEW d \in Models, d # c, call'[d] # NoCall, call'[d].alone
      PROVE  \E s \in ApiKeys : InARow(d, s)'
  <2>1. PICK s \in ApiKeys : InARow(d, s)
    BY <1>1 DEF FailoverInv, TriedInARow
  <2> QED
    BY <1>1, <2>1 DEF InARow, Turn
<1> QED
  BY <1>1 DEF TriedInARow

\* A call begins its row at the index.
LEMMA FailoverStartCall ==
  ASSUME FailoverInv, NEW c \in Models, NEW replays \in BOOLEAN, StartCall(c, replays)
  PROVE  FailoverInv'
<1>1. FailoverTypeOK'
  BY FailoverAssumption DEF StartCall, FailoverInv, FailoverTypeOK, Calls, ApiKeys
<1>2. TriedInARow'
  <2>1. InARow(c, keyIndex)'
    BY StretchStarts, FailoverAssumption
    DEF StartCall, InARow, Turn, FailoverInv, FailoverTypeOK, ApiKeys
  <2> QED
    BY <2>1, OthersInARow DEF StartCall, FailoverInv, FailoverTypeOK
<1>3. AttemptLeft'
  BY DEF StartCall, FailoverInv, FailoverTypeOK, AttemptLeft
<1> QED
  BY <1>1, <1>2, <1>3 DEF FailoverInv

\* It chooses the index, unless Redis fails.
LEMMA FailoverChooseKey ==
  ASSUME FailoverInv, NEW c \in Models, ChooseKey(c)
  PROVE  FailoverInv'
<1>1. call[c] \in Calls
  BY DEF ChooseKey, FailoverInv, FailoverTypeOK, NoCall
<1>2. PICK works \in BOOLEAN :
        call' = [call EXCEPT ![c].key = IndexRead(works), ![c].stage = "try",
                             ![c].alone = call[c].alone /\ works]
  BY DEF ChooseKey
<1>3. IndexRead(works) \in ApiKeys
  BY FailoverAssumption DEF IndexRead, FailoverInv, FailoverTypeOK, ApiKeys
<1>4. FailoverTypeOK'
  <2>1. [call[c] EXCEPT !.key = IndexRead(works), !.stage = "try",
                        !.alone = call[c].alone /\ works] \in Calls
    BY <1>1, <1>3 DEF Calls
  <2>2. call' = [call EXCEPT ![c] = [call[c] EXCEPT !.key = IndexRead(works), !.stage = "try",
                                                    !.alone = call[c].alone /\ works]]
    BY <1>2
  <2> QED
    BY <2>1, <2>2 DEF ChooseKey, FailoverInv, FailoverTypeOK
<1>5. TriedInARow'
  <2>1. ASSUME call'[c].alone PROVE \E s \in ApiKeys : InARow(c, s)'
    <3>1. call[c].alone /\ works
      BY <1>1, <1>2, <2>1 DEF FailoverInv, FailoverTypeOK, Calls
    <3>2. PICK s \in ApiKeys : InARow(c, s)
      BY <3>1 DEF ChooseKey, FailoverInv, TriedInARow, NoCall
    <3> QED
      BY <1>1, <1>2, <3>1, <3>2
      DEF ChooseKey, InARow, Turn, IndexRead, FailoverInv, FailoverTypeOK, Calls
  <2> QED
    BY <1>2, <2>1, OthersInARow DEF ChooseKey, FailoverInv, FailoverTypeOK
<1>6. AttemptLeft'
  BY <1>2 DEF ChooseKey, FailoverInv, FailoverTypeOK, AttemptLeft, NoCall
<1> QED
  BY <1>4, <1>5, <1>6 DEF FailoverInv

\* A call that ends has no row.
LEMMA FailoverCallEnds ==
  ASSUME FailoverInv, NEW c \in Models, CallEnds(c)
  PROVE  FailoverInv'
<1>1. FailoverTypeOK'
  BY DEF CallEnds, FailoverInv, FailoverTypeOK
<1>2. TriedInARow'
  BY OthersInARow DEF CallEnds, FailoverInv, FailoverTypeOK
<1>3. AttemptLeft'
  BY DEF CallEnds, FailoverInv, FailoverTypeOK, AttemptLeft
<1> QED
  BY <1>1, <1>2, <1>3 DEF FailoverInv

\* The exhausted key is the next of the row.
LEMMA FailoverQuotaError ==
  ASSUME FailoverInv, NEW c \in Models, QuotaError(c)
  PROVE  FailoverInv'
<1> DEFINE stage == IF call[c].replays /\ call[c].attempt >= NumKeys THEN "gaveUp" ELSE "mark"
<1>1. call[c] \in Calls
  BY DEF QuotaError, AfterQuotaError, FailoverInv, FailoverTypeOK, NoCall
<1>2. call' = [call EXCEPT ![c] = [call[c] EXCEPT !.tried = call[c].tried \cup {call[c].key},
                                                  !.stage = stage]]
  BY DEF QuotaError, AfterQuotaError
<1>3. stage \in {"gaveUp", "mark"} /\ (stage = "mark" /\ call[c].replays => call[c].attempt < NumKeys)
      /\ (stage = "gaveUp" => call[c].attempt >= NumKeys)
  BY <1>1, FailoverAssumption DEF Calls
<1> HIDE DEF stage
<1>4. FailoverTypeOK'
  <2>1. [call[c] EXCEPT !.tried = call[c].tried \cup {call[c].key}, !.stage = stage] \in Calls
    BY <1>1, <1>3 DEF Calls
  <2> QED
    BY <1>2, <2>1 DEF QuotaError, AfterQuotaError, FailoverInv, FailoverTypeOK
<1>5. TriedInARow'
  <2>1. ASSUME call'[c].alone PROVE \E s \in ApiKeys : InARow(c, s)'
    <3>1. call[c].alone
      BY <1>1, <1>2, <2>1 DEF FailoverInv, FailoverTypeOK, Calls
    <3>2. PICK s \in ApiKeys : InARow(c, s)
      BY <3>1 DEF QuotaError, AfterQuotaError, FailoverInv, TriedInARow, NoCall
    <3>3. /\ call[c].attempt \in 1..NumKeys
          /\ Stretch(s, call[c].attempt - 1) \cup {Wrapped(s + call[c].attempt - 1)}
                = Stretch(s, call[c].attempt)
      <4>1. call[c].attempt - 1 \in Nat /\ call[c].attempt \in 1..NumKeys
        BY <1>1 DEF Calls
      <4>2. Stretch(s, call[c].attempt - 1) \cup {Wrapped(s + (call[c].attempt - 1))}
                = Stretch(s, (call[c].attempt - 1) + 1)
        BY <4>1, StretchGrows
      <4>3. s + (call[c].attempt - 1) = s + call[c].attempt - 1
            /\ (call[c].attempt - 1) + 1 = call[c].attempt
        BY <4>1, FailoverAssumption DEF ApiKeys
      <4> QED
        BY <4>1, <4>2, <4>3
    <3>4. call'[c].tried = Stretch(s, call[c].attempt) /\ keyIndex = Turn(c, s)
      BY <1>1, <1>2, <3>2, <3>3
      DEF QuotaError, AfterQuotaError, InARow, Turn, FailoverInv, FailoverTypeOK, Calls
    <3>5. call'[c].stage = stage /\ call'[c].attempt = call[c].attempt /\ keyIndex' = keyIndex
      BY <1>1, <1>2 DEF QuotaError, AfterQuotaError, FailoverInv, FailoverTypeOK, Calls
    <3>6. stage = "gaveUp" => call[c].attempt = NumKeys
      BY <1>3, <3>3, FailoverAssumption
    <3> QED
      BY <1>3, <3>4, <3>5, <3>6 DEF InARow, Turn
  <2> QED
    BY <1>2, <2>1, OthersInARow DEF QuotaError, AfterQuotaError, FailoverInv, FailoverTypeOK
<1>6. AttemptLeft'
  BY <1>1, <1>2, <1>3 DEF FailoverInv, FailoverTypeOK, AttemptLeft, Calls
<1> QED
  BY <1>4, <1>5, <1>6 DEF FailoverInv

\* The index that is read again is the one that was tried.
LEMMA FailoverMarkExhausted ==
  ASSUME FailoverInv, NEW c \in Models, MarkExhausted(c)
  PROVE  FailoverInv'
<1>1. call[c] \in Calls
  BY DEF MarkExhausted, FailoverInv, FailoverTypeOK, NoCall
<1>2. PICK works \in BOOLEAN :
        call' = [call EXCEPT ![c].old = IndexRead(works), ![c].stage = "write",
                             ![c].alone = call[c].alone /\ works]
  BY DEF MarkExhausted
<1>3. IndexRead(works) \in ApiKeys
  BY FailoverAssumption DEF IndexRead, FailoverInv, FailoverTypeOK, ApiKeys
<1>4. FailoverTypeOK'
  <2>1. [call[c] EXCEPT !.old = IndexRead(works), !.stage = "write",
                        !.alone = call[c].alone /\ works] \in Calls
    BY <1>1, <1>3 DEF Calls
  <2>2. call' = [call EXCEPT ![c] = [call[c] EXCEPT !.old = IndexRead(works), !.stage = "write",
                                                    !.alone = call[c].alone /\ works]]
    BY <1>2
  <2> QED
    BY <2>1, <2>2 DEF MarkExhausted, FailoverInv, FailoverTypeOK
<1>5. TriedInARow'
  <2>1. ASSUME call'[c].alone PROVE \E s \in ApiKeys : InARow(c, s)'
    <3>1. call[c].alone /\ works
      BY <1>1, <1>2, <2>1 DEF FailoverInv, FailoverTypeOK, Calls
    <3>2. PICK s \in ApiKeys : InARow(c, s)
      BY <3>1 DEF MarkExhausted, FailoverInv, TriedInARow, NoCall
    <3> QED
      BY <1>1, <1>2, <3>1, <3>2
      DEF MarkExhausted, InARow, Turn, IndexRead, FailoverInv, FailoverTypeOK, Calls
  <2> QED
    BY <1>2, <2>1, OthersInARow DEF MarkExhausted, FailoverInv, FailoverTypeOK
<1>6. AttemptLeft'
  BY <1>1, <1>2 DEF MarkExhausted, FailoverInv, FailoverTypeOK, AttemptLeft, Calls
<1> QED
  BY <1>4, <1>5, <1>6 DEF FailoverInv

\* Writing moves the index to the next key of the row, and makes the others notice.
LEMMA FailoverWriteIndex ==
  ASSUME FailoverInv, NEW c \in Models, WriteIndex(c)
  PROVE  FailoverInv'
<1> DEFINE next == (call[c].old + 1) % NumKeys
<1>1. call[c] \in Calls
  BY DEF WriteIndex, WriteNext, FailoverInv, FailoverTypeOK, NoCall
<1>2. PICK works \in BOOLEAN :
        /\ keyIndex' = IF works THEN next ELSE keyIndex
        /\ call' = [d \in Models |->
             IF d = c THEN [call[c] EXCEPT
                              !.stage = IF call[c].replays THEN "choose" ELSE "raised",
                              !.attempt = IF call[c].replays THEN call[c].attempt + 1
                                                             ELSE call[c].attempt,
                              !.alone = call[c].alone /\ works]
             ELSE IF call[d] = NoCall THEN NoCall
             ELSE [call[d] EXCEPT !.alone = FALSE]]
  BY DEF WriteIndex, WriteNext
<1>3. next \in ApiKeys /\ next = Wrapped(call[c].old + 1)
  BY <1>1, NextKey DEF Calls
<1>4. call[c].attempt \in 1..NumKeys /\ (call[c].replays => call[c].attempt < NumKeys)
  BY <1>1 DEF Calls, WriteIndex, WriteNext, FailoverInv, AttemptLeft, NoCall
<1> HIDE DEF next
<1>5. FailoverTypeOK'
  <2>1. ASSUME NEW d \in Models PROVE call'[d] \in Calls \cup {NoCall}
    <3>1. CASE d = c
      <4>1. CASE call[c].replays
        <5>1. call[c].attempt + 1 \in 1..NumKeys
          BY <1>4, <4>1, FailoverAssumption
        <5> QED
          BY <1>1, <1>2, <3>1, <4>1, <5>1 DEF Calls
      <4>2. CASE ~call[c].replays
        BY <1>1, <1>2, <3>1, <4>2 DEF Calls
      <4> QED
        BY <4>1, <4>2
    <3>2. CASE d # c /\ call[d] # NoCall
      <4>1. call[d] \in Calls
        BY <3>2 DEF FailoverInv, FailoverTypeOK
      <4> QED
        BY <1>2, <3>2, <4>1 DEF Calls
    <3>3. CASE d # c /\ call[d] = NoCall
      BY <1>2, <3>3
    <3> QED
      BY <3>1, <3>2, <3>3
  <2> QED
    BY <1>2, <1>3, <2>1 DEF WriteIndex, WriteNext, FailoverInv, FailoverTypeOK
<1>6. TriedInARow'
  <2>1. ASSUME NEW d \in Models, d # c, call'[d] # NoCall PROVE ~call'[d].alone
    <3>1. call[d] \in Calls
      BY <1>2, <2>1 DEF FailoverInv, FailoverTypeOK
    <3> QED
      BY <1>2, <2>1, <3>1 DEF Calls
  <2>2. ASSUME call'[c].alone PROVE \E s \in ApiKeys : InARow(c, s)'
    <3>1. call[c].alone /\ works
      BY <1>1, <1>2, <2>2 DEF Calls
    <3>2. PICK s \in ApiKeys : InARow(c, s)
      BY <3>1 DEF WriteIndex, WriteNext, FailoverInv, TriedInARow, NoCall
    <3>3. CASE ~call[c].replays
      <4>1. call'[c].stage = "raised"
        BY <1>1, <1>2, <3>3 DEF Calls
      <4> QED
        BY <4>1, <3>2 DEF InARow
    <3>4. CASE call[c].replays
      <4>1. /\ call'[c].stage = "choose" /\ call'[c].attempt = call[c].attempt + 1
            /\ call'[c].tried = call[c].tried /\ keyIndex' = next
        BY <1>1, <1>2, <3>1, <3>4 DEF Calls
      <4>2. call[c].tried = Stretch(s, call[c].attempt)
            /\ call[c].old = Wrapped(s + call[c].attempt - 1)
        BY <3>2 DEF WriteIndex, WriteNext, InARow, Turn
      <4>3. next = Wrapped(s + call[c].attempt)
        BY <1>3, <1>4, <3>4, <4>2, FailoverAssumption DEF Wrapped, ApiKeys
      <4>4. Turn(c, s)' = Wrapped(s + call[c].attempt) /\ call'[c].attempt - 1 = call[c].attempt
        <5>1. s + (call[c].attempt + 1) - 1 = s + call[c].attempt
              /\ call[c].attempt + 1 - 1 = call[c].attempt
          BY <1>4, FailoverAssumption DEF ApiKeys
        <5> QED
          BY <1>4, <4>1, <5>1, FailoverAssumption DEF Turn, Wrapped, ApiKeys
      <4> QED
        BY <4>1, <4>2, <4>3, <4>4 DEF InARow
    <3> QED
      BY <3>3, <3>4
  <2> QED
    BY <2>1, <2>2 DEF TriedInARow
<1>7. AttemptLeft'
  <2>1. ASSUME NEW d \in Models, d # c, call[d] # NoCall
        PROVE  call'[d].stage = call[d].stage /\ call'[d].replays = call[d].replays
               /\ call'[d].attempt = call[d].attempt
    <3>1. call[d] \in Calls
      BY <2>1 DEF FailoverInv, FailoverTypeOK
    <3> QED
      BY <1>2, <2>1, <3>1 DEF Calls
  <2>2. call'[c].stage \in {"choose", "raised"}
    BY <1>1, <1>2 DEF Calls
  <2>3. ASSUME NEW d \in Models, d # c, call[d] = NoCall PROVE call'[d] = NoCall
    BY <1>2, <2>3
  <2> QED
    BY <2>1, <2>2, <2>3 DEF FailoverInv, AttemptLeft
<1> QED
  BY <1>5, <1>6, <1>7 DEF FailoverInv

\* Every step keeps the invariant.
LEMMA FailoverStep == ASSUME FailoverInv, [FailoverNext]_failoverVars PROVE FailoverInv'
<1>1. CASE UNCHANGED failoverVars
  BY <1>1 DEF failoverVars, FailoverInv, FailoverTypeOK, TriedInARow, InARow, Turn, AttemptLeft
<1> QED
  BY <1>1, FailoverSpendQuota, FailoverStartCall, FailoverChooseKey, FailoverCallEnds,
     FailoverQuotaError, FailoverMarkExhausted, FailoverWriteIndex DEF FailoverNext

-----------------------------------------------------------------------------
(* The theorems about keys.                                                *)

\* The index is always that of a key, whatever calls write and Redis forgets.
THEOREM FailoverTypeCorrect == FailoverSpec => []FailoverTypeOK
<1>1. FailoverInv => FailoverTypeOK
  BY DEF FailoverInv
<1> QED
  BY <1>1, FailoverBegin, FailoverStep, PTL DEF FailoverSpec

\* A call that gives up without having been disturbed has tried every key.
THEOREM EveryKeyIsTried == FailoverSpec => []GivesUpInformed
<1>1. FailoverInv => GivesUpInformed
  <2>1. ASSUME FailoverInv, NEW c \in Models, call[c].stage = "gaveUp", call[c].alone
        PROVE  call[c].tried = ApiKeys
    <3>1. PICK s \in ApiKeys : InARow(c, s)
      BY <2>1 DEF FailoverInv, TriedInARow, NoCall
    <3> QED
      BY <2>1, <3>1, AllTheWayRound DEF InARow
  <2> QED
    BY <2>1 DEF GivesUpInformed
<1> QED
  BY <1>1, FailoverBegin, FailoverStep, PTL DEF FailoverSpec

-----------------------------------------------------------------------------
(* The mailbox: types of lists and counts.                                  *)

\* Lists of at most n members of S.
LEMMA ShortLists ==
  ASSUME NEW n \in Nat, NEW S, NEW t
  PROVE  t \in UNION {[1..k -> S] : k \in 0..n} <=> t \in Seq(S) /\ Len(t) <= n
<1>1. ASSUME t \in UNION {[1..k -> S] : k \in 0..n} PROVE t \in Seq(S) /\ Len(t) <= n
  <2>1. PICK k \in 0..n : t \in [1..k -> S]
    BY <1>1
  <2>2. t \in Seq(S) /\ Len(t) = k
    BY <2>1
  <2> QED
    BY <2>1, <2>2
<1>2. ASSUME t \in Seq(S), Len(t) <= n PROVE t \in UNION {[1..k -> S] : k \in 0..n}
  <2>1. Len(t) \in 0..n /\ t \in [1..Len(t) -> S]
    BY <1>2
  <2> QED
    BY <2>1
<1> QED
  BY <1>1, <1>2

\* A mail has at most MaxParts PDFs.
LEMMA FewParts ==
  ASSUME IntakeTypeOK, NEW m \in Mails
  PROVE  Len(parts[m]) \in Nat /\ Len(parts[m]) <= MaxParts
<1>1. parts[m] \in Seq(Contents) /\ Len(parts[m]) <= MaxParts
  BY ShortLists, IntakeAssumption DEF IntakeTypeOK, PDFs
<1> QED
  BY <1>1

\* A poll that works has the fields of one.
LEMMA PollsAreRecords ==
  ASSUME IntakeTypeOK, NEW p \in Pollers, poll[p] # Idle
  PROVE  poll[p] \in Polls
  BY DEF IntakeTypeOK

\* The counts are numbers.
LEMMA CountsAreNumbers ==
  ASSUME IntakeTypeOK, NEW m \in Mails, NEW i \in 1..MaxParts
  PROVE  /\ jobs[m][i] \in [rejected : Nat, pending : Nat, sent : Nat]
         /\ jobs[m][i].rejected \in Nat /\ jobs[m][i].pending \in Nat /\ jobs[m][i].sent \in Nat
         /\ Recorded(m, i) \in Nat /\ Settled(m, i) \in Nat
         /\ takes[m] \in Nat /\ spoilt[m] \in Nat
<1>1. /\ jobs[m][i] \in [rejected : Nat, pending : Nat, sent : Nat]
      /\ takes[m] \in Nat /\ spoilt[m] \in Nat
  BY DEF IntakeTypeOK
<1> QED
  BY <1>1 DEF Recorded, Settled

\* A count that goes up.
LEMMA CountTypes ==
  ASSUME IntakeTypeOK, NEW m \in Mails, NEW i \in 1..MaxParts,
         NEW f \in {"rejected", "pending", "sent"}, jobs' = [jobs EXCEPT ![m][i][f] = @ + 1]
  PROVE  /\ jobs' \in [Mails -> [1..MaxParts -> [rejected : Nat, pending : Nat, sent : Nat]]]
         /\ jobs'[m][i] = [jobs[m][i] EXCEPT ![f] = @ + 1]
         /\ \A n \in Mails, j \in 1..MaxParts : n # m \/ j # i => jobs'[n][j] = jobs[n][j]
<1>1. jobs[m][i] \in [rejected : Nat, pending : Nat, sent : Nat]
  BY DEF IntakeTypeOK
<1>2. [jobs[m][i] EXCEPT ![f] = @ + 1] \in [rejected : Nat, pending : Nat, sent : Nat]
  BY <1>1
<1> QED
  BY <1>1, <1>2 DEF IntakeTypeOK

\* A PDF of a mail is one that is counted.
LEMMA PartsAreCounted ==
  ASSUME IntakeTypeOK, NEW m \in Mails, NEW i \in 1..Len(parts[m])
  PROVE  i \in 1..MaxParts
  BY FewParts, IntakeAssumption

\* One element more is at most one more to count.
LEMMA OneMoreStuck ==
  ASSUME NEW S \in SUBSET (1..MaxParts), NEW T \in SUBSET (1..MaxParts), NEW x,
         T \subseteq S \cup {x}
  PROVE  /\ Cardinality(S) \in Nat /\ Cardinality(T) \in Nat
         /\ Cardinality(T) <= Cardinality(S) + 1
<1>1. IsFiniteSet(1..MaxParts)
  BY IntakeAssumption, FS_Interval
<1>2. IsFiniteSet(S) /\ IsFiniteSet(T)
  BY <1>1, FS_Subset
<1>3. Cardinality(S) \in Nat /\ Cardinality(T) \in Nat
  BY <1>2, FS_CardinalityType
<1>4. IsFiniteSet(S \cup {x}) /\ Cardinality(S \cup {x}) \in Nat
      /\ Cardinality(S \cup {x}) <= Cardinality(S) + 1
  <2>1. CASE x \in S
    <3>1. S \cup {x} = S
      BY <2>1
    <3>2. IsFiniteSet(S \cup {x}) /\ Cardinality(S \cup {x}) = Cardinality(S)
      BY Zenon, <1>2, <3>1
    <3> QED
      BY <1>3, <3>2
  <2>2. CASE x \notin S
    BY <1>2, <1>3, <2>2, FS_AddElement
  <2> QED
    BY <2>1, <2>2
<1>5. Cardinality(T) <= Cardinality(S \cup {x})
  BY <1>2, <1>4, FS_Subset
<1> QED
  BY <1>3, <1>4, <1>5

-----------------------------------------------------------------------------
(* Steps that concern no mail a poll works on.                              *)

\* Lists, and what is known of contents, do not matter to the counts.
LEMMA SameWork ==
  ASSUME IntakeInv, IntakeTypeOK', UNCHANGED <<parts, keyed, jobs, takes, spoilt, lapses>>,
         \A p \in Pollers :
            /\ Working(p)' = Working(p)
            /\ Working(p) => /\ poll'[p].stage = poll[p].stage /\ poll'[p].mail = poll[p].mail
                             /\ poll'[p].next = poll[p].next
                             /\ poll'[p].rehearses = poll[p].rehearses
  PROVE  IntakeInv'
<1>1. KeysCounted' /\ PollsFit' /\ OnePollPerMail'
  BY DEF IntakeInv, KeysCounted, PollsFit, OnePollPerMail
<1>2. \A p \in Pollers : poll'[p].stage = "committed" =>
        Working(p) /\ poll[p].stage = "committed"
  BY DEF Working
<1>3. JobsCounted' /\ JobsSent'
  BY <1>2 DEF IntakeInv, JobsCounted, JobsSent, Recorded, Ahead
<1>4. PendingPass'
  BY DEF IntakeInv, PendingPass
<1>5. PartsSettled'
  <2>1. \A m \in Mails : \A i \in 1..Len(parts[m]) :
          \A p \in Pollers : Owes(p, m, i) => Owes(p, m, i)'
    BY DEF Owes
  <2> QED
    BY <2>1 DEF IntakeInv, PartsSettled, Settled
<1>6. FewStuck'
  <2>1. ASSUME NEW m \in Mails
        PROVE  Stuck(m)' = Stuck(m)
    <3>1. \A i \in 1..MaxParts : InHand(m, i)' <=> InHand(m, i)
      BY <1>2 DEF InHand, Working
    <3> QED
      BY <3>1 DEF Stuck
  <2> QED
    BY <2>1 DEF IntakeInv, FewStuck
<1> QED
  BY <1>1, <1>3, <1>4, <1>5, <1>6 DEF IntakeInv

\* Whoever leaves a mail has settled all of it, or this taking is spoilt.
LEMMA LeavesMail ==
  ASSUME IntakeInv, IntakeTypeOK', UNCHANGED <<parts, keyed, jobs, takes, lapses>>,
         NEW p \in Pollers, Working(p), ~Working(p)',
         \A q \in Pollers \ {p} : poll'[q] = poll[q],
         \/ Spoil(p)
         \/ UNCHANGED spoilt /\ poll[p].stage = "part" /\ poll[p].next > Len(parts[poll[p].mail])
  PROVE  IntakeInv'
<1> DEFINE m == poll[p].mail
<1>1. \A q \in Pollers : Working(q)' => q # p /\ Working(q) /\ poll'[q] = poll[q]
  BY DEF Working
<1>2. KeysCounted' /\ PollsFit' /\ OnePollPerMail'
  BY <1>1 DEF IntakeInv, KeysCounted, PollsFit, OnePollPerMail
<1>3. \A q \in Pollers : poll'[q].stage = "committed" => q # p /\ poll'[q] = poll[q]
  BY DEF Working
<1>4. JobsCounted' /\ JobsSent'
  BY <1>1, <1>3 DEF IntakeInv, JobsCounted, JobsSent, Recorded, Ahead
<1>6. PendingPass'
  BY DEF IntakeInv, PendingPass
<1>7. /\ m \in Mails /\ poll[p] \in Polls
      /\ \A q \in Pollers \ {p} : Working(q) => poll[q].mail # m
  BY PollsAreRecords DEF IntakeInv, IntakeTypeOK, PollsFit, OnePollPerMail, Working, Idle
<1>8. poll[p].rehearses \in BOOLEAN /\ poll[p].next \in Nat
  BY <1>7, IntakeAssumption DEF Polls
<1>9. /\ \A n \in Mails : spoilt[n] \in Nat
      /\ \A n \in Mails \ {m} : spoilt'[n] = spoilt[n]
      /\ \/ spoilt'[m] = spoilt[m] + 1
         \/ /\ spoilt' = spoilt /\ poll[p].stage = "part"
            /\ poll[p].rehearses \/ poll[p].next > Len(parts[m])
  BY <1>7, <1>8 DEF Spoil, IntakeInv, IntakeTypeOK, PollsFit
<1> HIDE DEF m
<1>5. PartsSettled'
  <2> SUFFICES ASSUME NEW n \in Mails, NEW i \in 1..Len(parts[n])
               PROVE  \/ takes[n] <= Settled(n, i) + spoilt'[n]
                      \/ /\ takes[n] <= Settled(n, i) + spoilt'[n] + 1
                         /\ \E q \in Pollers : Owes(q, n, i)'
    BY DEF PartsSettled, Settled
  <2>1. takes[n] \in Nat /\ Settled(n, i) \in Nat /\ spoilt[n] \in Nat
    BY CountsAreNumbers, PartsAreCounted DEF IntakeInv
  <2>2. \/ takes[n] <= Settled(n, i) + spoilt[n]
        \/ takes[n] <= Settled(n, i) + spoilt[n] + 1 /\ \E q \in Pollers : Owes(q, n, i)
    BY DEF IntakeInv, PartsSettled
  <2>3. \A q \in Pollers \ {p} : Owes(q, n, i) => Owes(q, n, i)'
    BY DEF Owes, Working
  <2>4. CASE n = m /\ spoilt'[m] = spoilt[m] + 1
    BY <2>1, <2>2, <2>4
  <2>5. CASE spoilt'[n] = spoilt[n] /\ ~Owes(p, n, i)
    BY <2>2, <2>3, <2>5
  <2>6. ASSUME n # m \/ spoilt'[m] # spoilt[m] + 1
        PROVE  spoilt'[n] = spoilt[n] /\ ~Owes(p, n, i)
    <3>1. CASE n # m
      BY <1>9, <3>1 DEF Owes, m
    <3>2. CASE n = m /\ spoilt'[m] # spoilt[m] + 1
      <4>1. spoilt' = spoilt /\ (poll[p].rehearses \/ poll[p].next > Len(parts[m]))
        BY <1>9, <3>2
      <4>2. Len(parts[m]) \in Nat
        BY <1>7, FewParts DEF IntakeInv, m
      <4>3. ~(~poll[p].rehearses /\ poll[p].next <= i)
        BY <1>8, <3>2, <4>1, <4>2
      <4> QED
        BY <4>1, <4>3 DEF Owes
    <3> QED
      BY <2>6, <3>1, <3>2
  <2> QED
    BY <2>4, <2>5, <2>6
<1>10. FewStuck'
  <2> SUFFICES ASSUME NEW n \in Mails
               PROVE  Cardinality(Stuck(n)') <= spoilt'[n]
    BY DEF FewStuck
  <2>1. Stuck(n) \in SUBSET (1..MaxParts) /\ Stuck(n)' \in SUBSET (1..MaxParts)
    BY DEF Stuck
  <2>2. Cardinality(Stuck(n)) <= spoilt[n] /\ spoilt[n] \in Nat
    BY <1>9 DEF IntakeInv, FewStuck
  <2>3. ASSUME n # m \/ poll[p].stage = "part"
        PROVE  Stuck(n)' = Stuck(n)
    <3>1. \A i \in 1..MaxParts : InHand(n, i)' <=> InHand(n, i)
      BY <1>3, <2>3 DEF InHand, m
    <3> QED
      BY <3>1 DEF Stuck
  <2>4. CASE spoilt'[n] = spoilt[n]
    <3>1. n # m \/ poll[p].stage = "part"
      BY <1>9, <2>4
    <3> QED
      BY <2>2, <2>3, <2>4, <3>1
  <2>5. CASE spoilt'[n] = spoilt[n] + 1
    <3>1. \A i \in (1..MaxParts) \ {poll[p].next} : InHand(n, i)' <=> InHand(n, i)
      BY <1>3 DEF InHand
    <3>2. Stuck(n)' \subseteq Stuck(n) \cup {poll[p].next}
      BY <3>1 DEF Stuck
    <3>3. /\ Cardinality(Stuck(n)) \in Nat /\ Cardinality(Stuck(n)') \in Nat
          /\ Cardinality(Stuck(n)') <= Cardinality(Stuck(n)) + 1
      BY <2>1, <3>2, OneMoreStuck
    <3> QED
      BY <2>2, <2>5, <3>3
  <2> QED
    BY <1>9, <2>4, <2>5
<1> QED
  BY <1>2, <1>4, <1>5, <1>6, <1>10 DEF IntakeInv

-----------------------------------------------------------------------------
(* Each action keeps IntakeInv.                                             *)

\* Nothing has arrived.
LEMMA IntakeBegin == IntakeInit => IntakeInv
<1> SUFFICES ASSUME IntakeInit PROVE IntakeInv
  OBVIOUS
<1>1. IntakeTypeOK
  <2>1. <<>> \in PDFs
    <3>1. <<>> \in Seq(Contents) /\ Len(<<>>) <= MaxParts
      BY IntakeAssumption
    <3> QED
      BY <3>1, ShortLists, IntakeAssumption DEF PDFs
  <2> QED
    BY <2>1 DEF IntakeInit, IntakeTypeOK, NoJobs
<1>2. \A p \in Pollers : ~Working(p) /\ poll[p].stage # "committed"
  BY DEF IntakeInit, Working, Idle
<1>3. PartsSettled
  <2>1. ASSUME NEW m \in Mails, NEW i \in 1..Len(parts[m])
        PROVE  takes[m] <= Settled(m, i) + spoilt[m]
    <3>1. Settled(m, i) \in Nat /\ spoilt[m] = 0 /\ takes[m] = 0
      BY <1>1, CountsAreNumbers, PartsAreCounted DEF IntakeInit
    <3> QED
      BY <3>1
  <2> QED
    BY <2>1 DEF PartsSettled
<1>4. FewStuck
  <2>1. \A m \in Mails : Stuck(m) = {} /\ spoilt[m] = 0
    BY <1>2 DEF IntakeInit, Stuck, InHand, NoJobs
  <2> QED
    BY <2>1, FS_EmptySet DEF FewStuck
<1> QED
  BY <1>1, <1>2, <1>3, <1>4 DEF IntakeInit, IntakeInv, KeysCounted, PollsFit, OnePollPerMail,
     JobsCounted, JobsSent, PendingPass, Recorded, NoJobs

\* A mail that arrives was never taken, so no poll works on it.
LEMMA IntakeArrive ==
  ASSUME IntakeInv, NEW m \in Mails, NEW files \in PDFs, Arrive(m, files)
  PROVE  IntakeInv'
<1>1. IntakeTypeOK'
  <2>1. <<m>> \in Seq(Mails) /\ inbox \in Seq(Mails)
    BY DEF IntakeInv, IntakeTypeOK
  <2>2. <<m>> \o inbox \in Seq(Mails)
    BY <2>1, ConcatProperties
  <2> QED
    BY <2>2 DEF Arrive, IntakeInv, IntakeTypeOK
<1>2. KeysCounted' /\ PollsFit' /\ OnePollPerMail' /\ JobsCounted' /\ JobsSent'
  BY DEF Arrive, IntakeInv, KeysCounted, PollsFit, OnePollPerMail, JobsCounted, JobsSent, Working,
     Ahead, Recorded
<1>3. PartsSettled'
  <2> SUFFICES ASSUME NEW n \in Mails, NEW i \in 1..Len(parts'[n])
               PROVE  \/ takes[n] <= Settled(n, i) + spoilt[n]
                      \/ /\ takes[n] <= Settled(n, i) + spoilt[n] + 1
                         /\ \E q \in Pollers : Owes(q, n, i)
    BY DEF Arrive, PartsSettled, Settled, Owes, Working
  <2>1. n # m => parts'[n] = parts[n]
    BY DEF Arrive, IntakeInv, IntakeTypeOK
  <2>2. CASE n # m
    BY <2>1, <2>2 DEF IntakeInv, PartsSettled
  <2>3. CASE n = m
    <3>3. parts'[m] = files /\ files \in Seq(Contents) /\ Len(files) <= MaxParts
      BY ShortLists, IntakeAssumption DEF Arrive, IntakeInv, IntakeTypeOK, PDFs
    <3>1. i \in 1..MaxParts
      BY <2>3, <3>3, IntakeAssumption
    <3>2. Settled(n, i) \in Nat /\ spoilt[n] \in Nat /\ takes[n] = 0
      BY <2>3, <3>1, CountsAreNumbers DEF IntakeInv, Arrive
    <3> QED
      BY <3>2
  <2> QED
    BY <2>2, <2>3
<1>5. FewStuck'
  BY DEF Arrive, IntakeInv, FewStuck, Stuck, InHand
<1>4. PendingPass'
  <2>1. \A n \in Mails \ {m} : parts'[n] = parts[n]
    BY DEF Arrive, IntakeInv, IntakeTypeOK
  <2>2. \A i \in 1..MaxParts : jobs[m][i].pending = 0
    BY CountsAreNumbers DEF Arrive, IntakeInv, JobsCounted, Recorded
  <2> QED
    BY <2>1, <2>2 DEF Arrive, IntakeInv, PendingPass
<1> QED
  BY <1>1, <1>2, <1>3, <1>4, <1>5 DEF IntakeInv

\* A mail that is read leaves the list.
LEMMA IntakeReadByHand ==
  ASSUME IntakeInv, NEW m \in Mails, ReadByHand(m)
  PROVE  IntakeInv'
<1>1. PICK i \in 1..Len(inbox) :
        inbox' = SubSeq(inbox, 1, i - 1) \o SubSeq(inbox, i + 1, Len(inbox))
  BY DEF ReadByHand
<1>2. inbox \in Seq(Mails) /\ Len(inbox) \in Nat /\ i \in Int
  BY DEF IntakeInv, IntakeTypeOK
<1>3. SubSeq(inbox, 1, i - 1) \in Seq(Mails)
  <2>1. \A j \in 1..(i - 1) : inbox[j] \in Mails
    BY <1>2
  <2> QED
    BY <1>2, <2>1, SubSeqProperties
<1>4. SubSeq(inbox, i + 1, Len(inbox)) \in Seq(Mails)
  <2>1. \A j \in (i + 1)..Len(inbox) : inbox[j] \in Mails
    BY <1>2
  <2> QED
    BY <1>2, <2>1, SubSeqProperties
<1>5. inbox' \in Seq(Mails)
  BY <1>1, <1>3, <1>4, ConcatProperties
<1>6. IntakeTypeOK'
  BY <1>5 DEF ReadByHand, IntakeInv, IntakeTypeOK
<1> QED
  BY <1>6, SameWork DEF ReadByHand, Working

\* A poll starts with a list and no mail.
LEMMA IntakeStartPoll ==
  ASSUME IntakeInv, NEW p \in Pollers, NEW rehearses \in BOOLEAN, StartPoll(p, rehearses)
  PROVE  IntakeInv'
<1> DEFINE n == IF Len(inbox) < ListLimit THEN Len(inbox) ELSE ListLimit
<1>1. inbox \in Seq(Mails) /\ n \in Nat /\ n <= ListLimit /\ n <= Len(inbox)
  BY IntakeAssumption DEF IntakeInv, IntakeTypeOK
<1>2. poll' = [poll EXCEPT ![p] = [stage |-> "list", rehearses |-> rehearses, mail |-> NoMail,
                                   next |-> 1, todo |-> SubSeq(inbox, 1, n)]]
  BY DEF StartPoll
<1> HIDE DEF n
<1>3. SubSeq(inbox, 1, n) \in Seq(Mails) /\ Len(SubSeq(inbox, 1, n)) <= ListLimit
  <2>1. \A j \in 1..n : inbox[j] \in Mails
    BY <1>1
  <2>2. SubSeq(inbox, 1, n) \in Seq(Mails) /\ Len(SubSeq(inbox, 1, n)) = IF 1 <= n THEN n ELSE 0
    BY <1>1, <2>1, SubSeqProperties
  <2> QED
    BY <1>1, <2>2, IntakeAssumption
<1>4. SubSeq(inbox, 1, n) \in UNION {[1..k -> Mails] : k \in 0..ListLimit}
  BY <1>3, ShortLists, IntakeAssumption
<1>5. poll' \in [Pollers -> Polls \cup {Idle}]
  BY <1>2, <1>4, IntakeAssumption DEF IntakeInv, IntakeTypeOK, Polls
<1>6. IntakeTypeOK'
  BY <1>5 DEF StartPoll, IntakeInv, IntakeTypeOK
<1> QED
  BY <1>2, <1>6, SameWork DEF StartPoll, IntakeInv, IntakeTypeOK, Working, Idle

\* The rest of a list is one.
LEMMA RestOfList ==
  ASSUME IntakeTypeOK, NEW p \in Pollers, Ready(p)
  PROVE  /\ poll[p] \in Polls
         /\ Head(poll[p].todo) \in Mails
         /\ Tail(poll[p].todo) \in UNION {[1..n -> Mails] : n \in 0..ListLimit}
<1>1. poll[p] \in Polls
  BY PollsAreRecords DEF Ready, Idle
<1>2. poll[p].todo \in Seq(Mails) /\ Len(poll[p].todo) <= ListLimit /\ poll[p].todo # <<>>
  BY <1>1, ShortLists, IntakeAssumption DEF Polls, Ready
<1>3. /\ Head(poll[p].todo) \in Mails /\ Tail(poll[p].todo) \in Seq(Mails)
      /\ Len(Tail(poll[p].todo)) = Len(poll[p].todo) - 1 /\ Len(poll[p].todo) \in Nat
  BY <1>2, HeadTailProperties
<1>4. Len(Tail(poll[p].todo)) <= ListLimit
  BY <1>2, <1>3, IntakeAssumption
<1> QED
  BY <1>1, <1>3, <1>4, ShortLists, IntakeAssumption

\* A mail that has its key is somebody else's.
LEMMA IntakeSkipMail ==
  ASSUME IntakeInv, NEW p \in Pollers, SkipMail(p)
  PROVE  IntakeInv'
<1>1. /\ poll[p] \in Polls /\ poll[p].stage = "list"
      /\ Tail(poll[p].todo) \in UNION {[1..n -> Mails] : n \in 0..ListLimit}
  BY RestOfList DEF SkipMail, IntakeInv, Ready
<1>2. poll' = [poll EXCEPT ![p] = [poll[p] EXCEPT !.todo = Tail(poll[p].todo)]]
  BY DEF SkipMail
<1>3. [poll[p] EXCEPT !.todo = Tail(poll[p].todo)] \in Polls
  BY <1>1 DEF Polls
<1>4. IntakeTypeOK'
  BY <1>2, <1>3 DEF SkipMail, IntakeInv, IntakeTypeOK
<1>5. poll'[p].stage = "list"
  BY <1>1, <1>2 DEF IntakeInv, IntakeTypeOK, Polls
<1> QED
  BY <1>1, <1>2, <1>4, <1>5, SameWork DEF SkipMail, IntakeInv, IntakeTypeOK, Working

\* A poll at the end of its list works on nothing.
LEMMA IntakeEndPoll ==
  ASSUME IntakeInv, NEW p \in Pollers, EndPoll(p)
  PROVE  IntakeInv'
<1>1. IntakeTypeOK'
  BY DEF EndPoll, IntakeInv, IntakeTypeOK
<1> QED
  BY <1>1, SameWork DEF EndPoll, IntakeInv, IntakeTypeOK, Working, Idle

\* A candidate more is known: only CVs have jobs that can run.
LEMMA IntakeIndex ==
  ASSUME IntakeInv, NEW m \in Mails, NEW i \in 1..MaxParts, Index(m, i)
  PROVE  IntakeInv'
<1>2. parts[m][i] \in CVs
  BY DEF Index, IntakeInv, PendingPass
<1>3. IntakeTypeOK'
  BY <1>2 DEF Index, IntakeInv, IntakeTypeOK
<1> QED
  BY <1>3, SameWork DEF Index, Working

\* A mail whose key could be set is no other poll's: that one would have set it.
LEMMA IntakeTakeNewMail ==
  ASSUME IntakeInv, NEW p \in Pollers, TakeNewMail(p)
  PROVE  IntakeInv'
<1> DEFINE m == Head(poll[p].todo)
           q0 == [poll[p] EXCEPT !.stage = "part", !.mail = m, !.next = 1,
                                 !.todo = Tail(poll[p].todo)]
<1>1. /\ poll[p] \in Polls /\ m \in Mails /\ poll[p].stage = "list"
      /\ Tail(poll[p].todo) \in UNION {[1..n -> Mails] : n \in 0..ListLimit}
  BY RestOfList DEF TakeNewMail, IntakeInv, Ready
<1>2. /\ poll' = [poll EXCEPT ![p] = q0] /\ m \notin keyed /\ keyed' = keyed \cup {m}
      /\ takes' = [takes EXCEPT ![m] = @ + 1]
      /\ spoilt' = (IF poll[p].rehearses THEN [spoilt EXCEPT ![m] = @ + 1] ELSE spoilt)
      /\ UNCHANGED <<inbox, parts, jobs, known, lapses>>
  BY DEF TakeNewMail, TakeMail
<1>3. /\ q0 \in Polls /\ q0.stage = "part" /\ q0.mail = m /\ q0.next = 1
      /\ q0.rehearses = poll[p].rehearses
  <2>1. 1 \in 1..(MaxParts + 1)
    BY IntakeAssumption
  <2> QED
    BY <1>1, <2>1 DEF Polls
<1> HIDE DEF q0, m
<1>4. IntakeTypeOK'
  BY <1>1, <1>2, <1>3 DEF IntakeInv, IntakeTypeOK
<1>5. /\ poll'[p] = q0 /\ \A q \in Pollers \ {p} : poll'[q] = poll[q]
      /\ takes'[m] = takes[m] + 1 /\ \A n \in Mails \ {m} : takes'[n] = takes[n]
      /\ \A n \in Mails : takes[n] \in Nat /\ spoilt[n] \in Nat
      /\ spoilt'[m] = IF poll[p].rehearses THEN spoilt[m] + 1 ELSE spoilt[m]
      /\ \A n \in Mails \ {m} : spoilt'[n] = spoilt[n]
  BY <1>1, <1>2 DEF IntakeInv, IntakeTypeOK
<1>6. \A q \in Pollers : Working(q) => q # p /\ poll[q].mail # m /\ poll[q].mail \in Mails
  BY <1>1, <1>2 DEF IntakeInv, IntakeTypeOK, PollsFit, Working
<1>7. \A q \in Pollers : Working(q)' <=> q = p \/ Working(q)
  BY <1>1, <1>3, <1>5 DEF Working
<1>8. KeysCounted'
  BY <1>1, <1>2, <1>5 DEF IntakeInv, IntakeTypeOK, KeysCounted
<1>9. PollsFit' /\ OnePollPerMail'
  <2>1. ASSUME NEW q \in Pollers, Working(q)'
        PROVE  /\ poll'[q].mail \in keyed'
               /\ takes'[poll'[q].mail] > 0
               /\ poll'[q].rehearses => poll'[q].stage = "part"
               /\ poll'[q].stage = "committed" => poll'[q].next <= Len(parts'[poll'[q].mail])
    <3>1. CASE q = p
      BY <1>1, <1>2, <1>3, <1>5, <3>1
    <3>2. CASE q # p
      BY <1>2, <1>5, <1>6, <1>7, <2>1, <3>2 DEF IntakeInv, PollsFit
    <3> QED
      BY <3>1, <3>2
  <2> QED
    BY <1>3, <1>5, <1>6, <1>7, <2>1 DEF IntakeInv, PollsFit, OnePollPerMail
<1>10. JobsCounted'
  <2>1. \A n \in Mails, i \in 1..MaxParts : Recorded(n, i)' = Recorded(n, i) /\ Recorded(n, i) \in Nat
    BY <1>2, CountsAreNumbers DEF Recorded, IntakeInv
  <2>2. ASSUME NEW n \in Mails, NEW i \in 1..MaxParts
        PROVE  Recorded(n, i)' <= takes'[n]
    BY <1>5, <2>1 DEF IntakeInv, JobsCounted
  <2>3. ASSUME NEW n \in Mails, NEW i \in 1..MaxParts, NEW q \in Pollers, Working(q)',
               poll'[q].mail = n, Ahead(q, i)'
        PROVE  Recorded(n, i)' < takes'[n]
    <3>1. CASE q = p
      BY <1>3, <1>5, <2>1, <2>3, <3>1 DEF IntakeInv, JobsCounted
    <3>2. CASE q # p
      <4>1. Working(q) /\ poll'[q] = poll[q] /\ poll[q].mail = n /\ n # m /\ Ahead(q, i)
        BY <1>5, <1>6, <1>7, <2>3, <3>2 DEF Ahead
      <4> QED
        BY <1>5, <2>1, <4>1 DEF IntakeInv, JobsCounted
    <3> QED
      BY <3>1, <3>2
  <2> QED
    BY <2>2, <2>3 DEF JobsCounted
<1>11. JobsSent' /\ PendingPass'
  BY <1>2, <1>3, <1>5 DEF IntakeInv, JobsSent, PendingPass
<1>12. PartsSettled'
  <2> SUFFICES ASSUME NEW n \in Mails, NEW i \in 1..Len(parts[n])
               PROVE  \/ takes'[n] <= Settled(n, i) + spoilt'[n]
                      \/ /\ takes'[n] <= Settled(n, i) + spoilt'[n] + 1
                         /\ \E q \in Pollers : Owes(q, n, i)'
    BY <1>2 DEF PartsSettled, Settled
  <2>1. takes[n] \in Nat /\ Settled(n, i) \in Nat /\ spoilt[n] \in Nat
    BY CountsAreNumbers, PartsAreCounted DEF IntakeInv
  <2>2. \/ takes[n] <= Settled(n, i) + spoilt[n]
        \/ takes[n] <= Settled(n, i) + spoilt[n] + 1 /\ \E q \in Pollers : Owes(q, n, i)
    BY DEF IntakeInv, PartsSettled
  <2>3. CASE n # m
    <3>1. \A q \in Pollers : Owes(q, n, i) => Owes(q, n, i)'
      BY <1>5, <1>6, <1>7 DEF Owes
    <3> QED
      BY <1>5, <2>2, <2>3, <3>1
  <2>4. CASE n = m
    <3>1. takes[n] <= Settled(n, i) + spoilt[n]
      BY <1>6, <2>2, <2>4 DEF Owes
    <3>2. ~poll[p].rehearses => Owes(p, n, i)'
      BY <1>3, <1>5, <1>7, <2>4 DEF Owes
    <3>3. takes'[n] = takes[n] + 1
      BY <1>5, <2>4
    <3>4. CASE poll[p].rehearses
      BY <1>5, <2>1, <2>4, <3>1, <3>3, <3>4
    <3>5. CASE ~poll[p].rehearses
      BY <1>5, <2>1, <2>4, <3>1, <3>2, <3>3, <3>5
    <3> QED
      BY <3>4, <3>5
  <2> QED
    BY <2>3, <2>4
<1>13. FewStuck'
  <2> SUFFICES ASSUME NEW n \in Mails
               PROVE  Cardinality(Stuck(n)') <= spoilt'[n]
    BY DEF FewStuck
  <2>1. \A i \in 1..MaxParts : InHand(n, i)' <=> InHand(n, i)
    BY <1>1, <1>3, <1>5 DEF InHand
  <2>2. Stuck(n)' = Stuck(n)
    BY <1>2, <2>1 DEF Stuck
  <2>3. Stuck(n) \in SUBSET (1..MaxParts)
    BY DEF Stuck
  <2>4. Cardinality(Stuck(n)) \in Nat
    BY <2>3, OneMoreStuck
  <2>5. Cardinality(Stuck(n)) <= spoilt[n] /\ spoilt[n] <= spoilt'[n]
        /\ spoilt[n] \in Nat /\ spoilt'[n] \in Nat
    BY <1>5 DEF IntakeInv, FewStuck
  <2> QED
    BY <2>2, <2>4, <2>5
<1> QED
  BY <1>4, <1>8, <1>9, <1>10, <1>11, <1>12, <1>13 DEF IntakeInv

-----------------------------------------------------------------------------
(* A part is counted.                                                       *)

\* A poll at a PDF: what it is, and that nobody else works on its mail.
LEMMA AtOnePart ==
  ASSUME IntakeInv, NEW p \in Pollers, AtPart(p) \/ poll[p].stage = "committed"
  PROVE  /\ Working(p) /\ poll[p] \in Polls /\ poll[p].mail \in Mails
         /\ poll[p].next \in 1..MaxParts /\ poll[p].next \in 1..Len(parts[poll[p].mail])
         /\ poll[p].next + 1 \in 1..(MaxParts + 1)
         /\ Content(p) \in Contents
         /\ \A q \in Pollers \ {p} : Working(q) => poll[q].mail # poll[p].mail
<1>1. Working(p) /\ poll[p] \in Polls
  BY PollsAreRecords DEF AtPart, Working, Idle, IntakeInv
<1>2. poll[p].mail \in Mails
  BY <1>1 DEF IntakeInv, PollsFit, IntakeTypeOK
<1>3. poll[p].next \in Nat /\ poll[p].next >= 1 /\ poll[p].next <= Len(parts[poll[p].mail])
  BY <1>1, IntakeAssumption DEF AtPart, IntakeInv, PollsFit, Polls
<1>4. Len(parts[poll[p].mail]) \in Nat /\ Len(parts[poll[p].mail]) <= MaxParts
  BY <1>2, FewParts DEF IntakeInv
<1>5. parts[poll[p].mail] \in Seq(Contents)
  BY <1>2, ShortLists, IntakeAssumption DEF IntakeInv, IntakeTypeOK, PDFs
<1>6. Content(p) \in Contents
  BY <1>3, <1>4, <1>5 DEF Content
<1>7. \A q \in Pollers \ {p} : Working(q) => poll[q].mail # poll[p].mail
  BY <1>1 DEF IntakeInv, OnePollPerMail
<1> QED
  BY <1>1, <1>2, <1>3, <1>4, <1>6, <1>7, IntakeAssumption

\* A taking that is one short of a sum is within a larger one.
LEMMA OneShort ==
  ASSUME NEW t \in Nat, NEW a \in Nat, NEW b \in Nat, NEW k \in Nat, b >= a,
         t <= a + k + 1
  PROVE  /\ t <= b + k + 1
         /\ b = a + 1 => t <= b + k
         /\ t <= a + k => t <= b + k
  OBVIOUS

\* The poll counts its PDF and stays at it, committed, or goes on to the next.
LEMMA CountsPart ==
  ASSUME IntakeInv, NEW p \in Pollers, AtPart(p) \/ poll[p].stage = "committed",
         NEW m \in Mails, m = poll[p].mail, NEW i \in 1..MaxParts, i = poll[p].next,
         UNCHANGED <<inbox, parts, keyed, known, takes, spoilt, lapses>>,
         NEW q0 \in Polls, poll' = [poll EXCEPT ![p] = q0],
         q0.mail = m, q0.rehearses = poll[p].rehearses,
         \/ q0.stage = "part" /\ q0.next = i + 1
            /\ (poll[p].rehearses
                \/ jobs'[m][i].rejected + jobs'[m][i].sent = Settled(m, i) + 1)
         \/ q0.stage = "committed" /\ q0.next = i /\ ~poll[p].rehearses
            /\ jobs'[m][i].sent < jobs'[m][i].pending,
         jobs' \in [Mails -> [1..MaxParts -> [rejected : Nat, pending : Nat, sent : Nat]]],
         \A n \in Mails, j \in 1..MaxParts : n # m \/ j # i => jobs'[n][j] = jobs[n][j],
         jobs'[m][i].rejected + jobs'[m][i].pending <= takes[m],
         jobs'[m][i].sent <= jobs'[m][i].pending,
         jobs'[m][i].pending > 0 => parts[m][i] \in CVs,
         jobs'[m][i].rejected + jobs'[m][i].sent \in Nat,
         jobs'[m][i].rejected + jobs'[m][i].sent >= Settled(m, i),
         jobs'[m][i].sent + (IF q0.stage = "committed" THEN 1 ELSE 0) < jobs'[m][i].pending
            <=> jobs[m][i].sent + (IF poll[p].stage = "committed" THEN 1 ELSE 0)
                    < jobs[m][i].pending
  PROVE  IntakeInv'
<1>1. /\ Working(p) /\ i \in 1..Len(parts[m])
      /\ \A q \in Pollers \ {p} : Working(q) => poll[q].mail # m
  BY AtOnePart
<1>2. poll'[p] = q0 /\ \A q \in Pollers \ {p} : poll'[q] = poll[q]
  BY DEF IntakeInv, IntakeTypeOK
<1>3. \A q \in Pollers : Working(q)' <=> Working(q)
  BY <1>1, <1>2 DEF Working
<1>4. IntakeTypeOK'
  BY DEF IntakeInv, IntakeTypeOK
<1>5. KeysCounted' /\ OnePollPerMail'
  BY <1>2, <1>3 DEF IntakeInv, KeysCounted, OnePollPerMail
<1>6. PollsFit'
  BY <1>1, <1>2, <1>3 DEF IntakeInv, PollsFit
<1>7. JobsCounted'
  <2>1. \A n \in Mails, j \in 1..MaxParts :
          Recorded(n, j)' <= takes[n] /\ (n # m \/ j # i => Recorded(n, j)' = Recorded(n, j))
    BY DEF IntakeInv, JobsCounted, Recorded
  <2>2. ASSUME NEW n \in Mails, NEW j \in 1..MaxParts, NEW q \in Pollers, Working(q)',
               poll'[q].mail = n, Ahead(q, j)'
        PROVE  Recorded(n, j)' < takes'[n]
    <3>1. CASE q = p
      <4>1. n = m /\ j > i /\ Ahead(p, j)
        BY <1>2, <2>2, <3>1 DEF Ahead
      <4>2. Recorded(m, j) < takes[m]
        BY <1>1, <4>1 DEF IntakeInv, JobsCounted
      <4>3. j # i
        BY <4>1
      <4> QED
        BY <2>1, <4>1, <4>2, <4>3
    <3>2. CASE q # p
      <4>1. Working(q) /\ poll'[q] = poll[q] /\ n # m /\ Ahead(q, j)
        BY <1>1, <1>2, <1>3, <2>2, <3>2 DEF Ahead
      <4> QED
        BY <2>1, <2>2, <4>1 DEF IntakeInv, JobsCounted
    <3> QED
      BY <3>1, <3>2
  <2> QED
    BY <2>1, <2>2 DEF JobsCounted
<1>8. JobsSent'
  <2>1. ASSUME NEW n \in Mails, NEW j \in 1..MaxParts, NEW q \in Pollers,
               poll'[q].stage = "committed", poll'[q].mail = n, poll'[q].next = j
        PROVE  jobs'[n][j].sent < jobs'[n][j].pending
    <3>1. CASE q = p
      BY <1>2, <2>1, <3>1
    <3>2. CASE q # p
      <4>1. poll'[q] = poll[q] /\ n # m
        BY <1>1, <1>2, <2>1, <3>2 DEF Working
      <4>2. jobs[n][j].sent < jobs[n][j].pending
        BY <2>1, <4>1 DEF IntakeInv, JobsSent
      <4> QED
        BY <4>1, <4>2
    <3> QED
      BY <3>1, <3>2
  <2>2. \A n \in Mails, j \in 1..MaxParts : jobs'[n][j].sent <= jobs'[n][j].pending
    BY DEF IntakeInv, JobsSent
  <2> QED
    BY <2>1, <2>2 DEF JobsSent
<1>9. PendingPass'
  <2>1. ASSUME NEW n \in Mails, NEW j \in 1..MaxParts, jobs'[n][j].pending > 0
        PROVE  j <= Len(parts[n]) /\ parts[n][j] \in CVs
    <3>1. CASE n = m /\ j = i
      BY <1>1, <2>1, <3>1
    <3>2. CASE n # m \/ j # i
      <4>1. jobs[n][j].pending > 0
        BY <2>1, <3>2
      <4> QED
        BY <4>1 DEF IntakeInv, PendingPass
    <3> QED
      BY <3>1, <3>2
  <2> QED
    BY <2>1 DEF PendingPass
<1>10. PartsSettled'
  <2> SUFFICES ASSUME NEW n \in Mails, NEW j \in 1..Len(parts[n])
               PROVE  \/ takes[n] <= Settled(n, j)' + spoilt[n]
                      \/ /\ takes[n] <= Settled(n, j)' + spoilt[n] + 1
                         /\ \E q \in Pollers : Owes(q, n, j)'
    BY DEF PartsSettled
  <2>1. /\ takes[n] \in Nat /\ Settled(n, j) \in Nat /\ spoilt[n] \in Nat
        /\ j \in 1..MaxParts
    BY CountsAreNumbers, PartsAreCounted DEF IntakeInv
  <2>2. \/ takes[n] <= Settled(n, j) + spoilt[n]
        \/ takes[n] <= Settled(n, j) + spoilt[n] + 1 /\ \E q \in Pollers : Owes(q, n, j)
    BY DEF IntakeInv, PartsSettled
  <2>3. \A q \in Pollers \ {p} : Owes(q, n, j) => Owes(q, n, j)'
    BY <1>2 DEF Owes, Working
  <2>4. CASE n # m \/ j # i
    <3>1. Settled(n, j)' = Settled(n, j)
      BY <2>1, <2>4 DEF Settled
    <3>2. Owes(p, n, j) => Owes(p, n, j)'
      <4> SUFFICES ASSUME Owes(p, n, j) PROVE Owes(p, n, j)'
        OBVIOUS
      <4>1. n = m /\ i <= j /\ j # i /\ ~poll[p].rehearses /\ Working(p)
        BY <2>4 DEF Owes
      <4>2. q0.next <= j
        BY <4>1
      <4> QED
        BY <1>2, <1>3, <4>1, <4>2 DEF Owes
    <3> QED
      BY <2>2, <2>3, <3>1, <3>2
  <2>5. CASE n = m /\ j = i
    <3>1. ~Owes(p, n, j) => takes[n] <= Settled(n, j) + spoilt[n]
      BY <1>1, <2>2, <2>5 DEF Owes
    <3>2. Owes(p, n, j) => ~poll[p].rehearses
      BY DEF Owes
    <3>3. q0.stage = "committed" => Owes(p, n, j)'
      BY <1>1, <1>2, <1>3, <2>5 DEF Owes
    <3>4. /\ Settled(n, j)' \in Nat /\ Settled(n, j)' >= Settled(n, j)
          /\ \/ q0.stage = "committed" \/ poll[p].rehearses
             \/ Settled(n, j)' = Settled(n, j) + 1
      BY <2>5 DEF Settled
    <3>5. takes[n] <= Settled(n, j) + spoilt[n] + 1
      BY <2>1, <2>2
    <3>6. /\ takes[n] <= Settled(n, j)' + spoilt[n] + 1
          /\ Settled(n, j)' = Settled(n, j) + 1 => takes[n] <= Settled(n, j)' + spoilt[n]
          /\ takes[n] <= Settled(n, j) + spoilt[n] => takes[n] <= Settled(n, j)' + spoilt[n]
      BY Zenon, <2>1, <3>4, <3>5, OneShort
    <3> QED
      BY Zenon, <3>1, <3>2, <3>3, <3>4, <3>6
  <2> QED
    BY <2>4, <2>5
<1>11. FewStuck'
  <2>1. ASSUME NEW n \in Mails
        PROVE  Stuck(n)' = Stuck(n)
    <3>1. ASSUME NEW j \in 1..MaxParts, n # m \/ j # i
          PROVE  InHand(n, j)' <=> InHand(n, j)
      BY <1>2, <3>1 DEF InHand
    <3>2. ASSUME n = m
          PROVE  /\ InHand(n, i)' <=> q0.stage = "committed"
                 /\ InHand(n, i) <=> poll[p].stage = "committed"
      <4>1. \A q \in Pollers \ {p} : poll[q].stage = "committed" => poll[q].mail # m
        BY <1>1 DEF Working
      <4>2. \A q \in Pollers \ {p} : poll'[q].stage = "committed" => poll'[q].mail # m
        BY <1>2, <4>1
      <4>3. poll'[p].mail = m /\ (q0.stage = "committed" => poll'[p].next = i)
        BY <1>2
      <4> QED
        BY <1>2, <3>2, <4>1, <4>2, <4>3 DEF InHand
    <3>3. ASSUME NEW j \in 1..MaxParts
          PROVE  j \in Stuck(n)' <=> j \in Stuck(n)
      <4>1. CASE n # m \/ j # i
        BY <3>1, <4>1 DEF Stuck
      <4>2. CASE n = m /\ j = i
        BY <3>2, <4>2 DEF Stuck
      <4> QED
        BY <4>1, <4>2
    <3> QED
      BY <3>3 DEF Stuck
  <2> QED
    BY <2>1 DEF IntakeInv, FewStuck
<1> QED
  BY <1>4, <1>5, <1>6, <1>7, <1>8, <1>9, <1>10, <1>11 DEF IntakeInv

-----------------------------------------------------------------------------
(* The rest of the actions, and the theorems about the mailbox.             *)

\* A PDF that is rejected is counted, and the poll goes on to the next.
LEMMA IntakeRejectPart ==
  ASSUME IntakeInv, NEW p \in Pollers, RejectPart(p)
  PROVE  IntakeInv'
<1> DEFINE m == poll[p].mail
           i == poll[p].next
           q0 == [poll[p] EXCEPT !.next = i + 1]
<1>1. /\ AtPart(p) /\ poll[p].stage = "part" /\ Working(p)
      /\ poll[p] \in Polls /\ m \in Mails /\ i \in 1..MaxParts /\ i + 1 \in 1..(MaxParts + 1)
  BY AtOnePart DEF RejectPart, AtPart
<1>2. /\ q0 \in Polls /\ q0.mail = m /\ q0.rehearses = poll[p].rehearses
      /\ q0.stage = "part" /\ q0.next = i + 1
  BY <1>1 DEF Polls
<1>3. poll' = [poll EXCEPT ![p] = q0]
  BY DEF RejectPart
<1>4. jobs' = (IF poll[p].rehearses THEN jobs ELSE [jobs EXCEPT ![m][i]["rejected"] = @ + 1])
  BY DEF RejectPart, Count
<1>5. Recorded(m, i) < takes[m]
  BY <1>1 DEF IntakeInv, JobsCounted, Ahead
<1>6. UNCHANGED <<inbox, parts, keyed, known, takes, spoilt, lapses>>
  BY DEF RejectPart
<1>7. /\ jobs[m][i] \in [rejected : Nat, pending : Nat, sent : Nat] /\ takes[m] \in Nat
      /\ jobs[m][i].sent <= jobs[m][i].pending
      /\ jobs[m][i].pending > 0 => parts[m][i] \in CVs
  BY <1>1, CountsAreNumbers DEF IntakeInv, JobsSent, PendingPass
<1> HIDE DEF m, i, q0
<1>8. /\ jobs' \in [Mails -> [1..MaxParts -> [rejected : Nat, pending : Nat, sent : Nat]]]
      /\ poll[p].rehearses => jobs'[m][i] = jobs[m][i]
      /\ ~poll[p].rehearses =>
           jobs'[m][i] = [jobs[m][i] EXCEPT !["rejected"] = @ + 1]
      /\ \A n \in Mails, j \in 1..MaxParts : n # m \/ j # i => jobs'[n][j] = jobs[n][j]
  BY ZenonT(30), <1>1, <1>4, CountTypes DEF IntakeInv, IntakeTypeOK
<1>9. /\ jobs'[m][i].pending = jobs[m][i].pending /\ jobs'[m][i].sent = jobs[m][i].sent
      /\ jobs'[m][i].rejected \in Nat
      /\ \/ jobs'[m][i].rejected = jobs[m][i].rejected /\ poll[p].rehearses
         \/ jobs'[m][i].rejected = jobs[m][i].rejected + 1
  BY SMTT(30), <1>7, <1>8
<1>10. jobs'[m][i].rejected + jobs'[m][i].pending <= takes[m]
  BY <1>5, <1>7, <1>9 DEF Recorded
<1>11. jobs'[m][i].sent <= jobs'[m][i].pending /\ (jobs'[m][i].pending > 0 => parts[m][i] \in CVs)
  BY <1>7, <1>9
<1>12. /\ jobs'[m][i].rejected + jobs'[m][i].sent \in Nat
       /\ jobs'[m][i].rejected + jobs'[m][i].sent >= Settled(m, i)
       /\ poll[p].rehearses \/ jobs'[m][i].rejected + jobs'[m][i].sent = Settled(m, i) + 1
  BY <1>7, <1>9 DEF Settled
<1>13. jobs'[m][i].sent + (IF q0.stage = "committed" THEN 1 ELSE 0) < jobs'[m][i].pending
         <=> jobs[m][i].sent + (IF poll[p].stage = "committed" THEN 1 ELSE 0)
                 < jobs[m][i].pending
  BY <1>1, <1>2, <1>9
<1> QED
  BY <1>1, <1>2, <1>3, <1>6, <1>8, <1>10, <1>11, <1>12, <1>13, CountsPart DEF m, i

\* A job is committed; a rehearsal goes on.
LEMMA IntakeAcceptPart ==
  ASSUME IntakeInv, NEW p \in Pollers, AcceptPart(p)
  PROVE  IntakeInv'
<1> DEFINE m == poll[p].mail
           i == poll[p].next
           q0 == IF poll[p].rehearses THEN [poll[p] EXCEPT !.next = i + 1]
                                      ELSE [poll[p] EXCEPT !.stage = "committed"]
<1>1. /\ AtPart(p) /\ poll[p].stage = "part" /\ Working(p)
      /\ poll[p] \in Polls /\ m \in Mails /\ i \in 1..MaxParts /\ i + 1 \in 1..(MaxParts + 1)
      /\ Content(p) \in Contents
  BY AtOnePart DEF AcceptPart, AtPart
<1>2. /\ q0 \in Polls /\ q0.mail = m /\ q0.rehearses = poll[p].rehearses
      /\ poll[p].rehearses => q0.stage = "part" /\ q0.next = i + 1
      /\ ~poll[p].rehearses => q0.stage = "committed" /\ q0.next = i
  BY <1>1 DEF Polls
<1>3. poll' = [poll EXCEPT ![p] = q0]
  BY DEF AcceptPart
<1>4. jobs' = (IF poll[p].rehearses THEN jobs ELSE [jobs EXCEPT ![m][i]["pending"] = @ + 1])
  BY DEF AcceptPart, Count
<1>5. Recorded(m, i) < takes[m]
  BY <1>1 DEF IntakeInv, JobsCounted, Ahead
<1>6. UNCHANGED <<inbox, parts, keyed, known, takes, spoilt, lapses>>
  BY DEF AcceptPart
<1>7. /\ jobs[m][i] \in [rejected : Nat, pending : Nat, sent : Nat] /\ takes[m] \in Nat
      /\ jobs[m][i].sent <= jobs[m][i].pending
      /\ parts[m][i] \in CVs
  BY <1>1, CountsAreNumbers DEF IntakeInv, JobsSent, AcceptPart, Rejects, Content, Contents
<1> HIDE DEF m, i, q0
<1>8. /\ jobs' \in [Mails -> [1..MaxParts -> [rejected : Nat, pending : Nat, sent : Nat]]]
      /\ poll[p].rehearses => jobs'[m][i] = jobs[m][i]
      /\ ~poll[p].rehearses =>
           jobs'[m][i] = [jobs[m][i] EXCEPT !["pending"] = @ + 1]
      /\ \A n \in Mails, j \in 1..MaxParts : n # m \/ j # i => jobs'[n][j] = jobs[n][j]
  BY ZenonT(30), <1>1, <1>4, CountTypes DEF IntakeInv, IntakeTypeOK
<1>9. /\ jobs'[m][i].rejected = jobs[m][i].rejected /\ jobs'[m][i].sent = jobs[m][i].sent
      /\ jobs'[m][i].pending <= jobs[m][i].pending + 1 /\ jobs'[m][i].pending \in Nat
      /\ jobs'[m][i].sent <= jobs'[m][i].pending
      /\ \/ poll[p].rehearses /\ jobs'[m][i].pending = jobs[m][i].pending
         \/ ~poll[p].rehearses /\ jobs'[m][i].pending = jobs[m][i].pending + 1
  BY SMTT(30), <1>7, <1>8
<1>10. jobs'[m][i].rejected + jobs'[m][i].pending <= takes[m]
  BY <1>5, <1>7, <1>9 DEF Recorded
<1>11. poll[p].rehearses \in BOOLEAN
  BY <1>1 DEF Polls
<1>14. /\ jobs'[m][i].rejected + jobs'[m][i].sent \in Nat
       /\ jobs'[m][i].rejected + jobs'[m][i].sent >= Settled(m, i)
  BY <1>7, <1>9 DEF Settled
<1>15. jobs'[m][i].sent + (IF q0.stage = "committed" THEN 1 ELSE 0) < jobs'[m][i].pending
         <=> jobs[m][i].sent + (IF poll[p].stage = "committed" THEN 1 ELSE 0)
                 < jobs[m][i].pending
  BY <1>1, <1>2, <1>7, <1>9, <1>11
<1>12. jobs'[m][i].pending > 0 => parts[m][i] \in CVs
  BY <1>7
<1>13. \/ q0.stage = "part" /\ q0.next = i + 1
          /\ (poll[p].rehearses
              \/ jobs'[m][i].rejected + jobs'[m][i].sent = Settled(m, i) + 1)
       \/ q0.stage = "committed" /\ q0.next = i /\ ~poll[p].rehearses
          /\ jobs'[m][i].sent < jobs'[m][i].pending
  BY SMTT(30), <1>2, <1>7, <1>9, <1>11
<1>16. jobs'[m][i].sent <= jobs'[m][i].pending /\ q0 \in Polls /\ q0.mail = m
       /\ q0.rehearses = poll[p].rehearses
  BY <1>2, <1>9
<1> QED
  BY <1>1, <1>3, <1>6, <1>8, <1>10, <1>12, <1>13, <1>14, <1>15, <1>16, CountsPart DEF m, i

\* The message of a committed job is sent.
LEMMA IntakeSendJob ==
  ASSUME IntakeInv, NEW p \in Pollers, SendJob(p)
  PROVE  IntakeInv'
<1> DEFINE m == poll[p].mail
           i == poll[p].next
           q0 == [poll[p] EXCEPT !.stage = "part", !.next = i + 1]
<1>1. /\ poll[p].stage = "committed" /\ Working(p)
      /\ poll[p] \in Polls /\ m \in Mails /\ i \in 1..MaxParts /\ i + 1 \in 1..(MaxParts + 1)
  BY AtOnePart DEF SendJob
<1>2. /\ q0 \in Polls /\ q0.mail = m /\ q0.rehearses = poll[p].rehearses
      /\ q0.stage = "part" /\ q0.next = i + 1
  BY <1>1 DEF Polls
<1>3. poll' = [poll EXCEPT ![p] = q0]
  BY DEF SendJob
<1>4. jobs' = [jobs EXCEPT ![m][i]["sent"] = @ + 1]
  BY DEF SendJob, Count
<1>5. jobs[m][i].sent < jobs[m][i].pending /\ Recorded(m, i) <= takes[m]
  BY <1>1 DEF IntakeInv, JobsSent, JobsCounted
<1>6. UNCHANGED <<inbox, parts, keyed, known, takes, spoilt, lapses>>
  BY DEF SendJob
<1>7. /\ jobs[m][i] \in [rejected : Nat, pending : Nat, sent : Nat] /\ takes[m] \in Nat
      /\ jobs[m][i].pending > 0 => parts[m][i] \in CVs
  BY <1>1, CountsAreNumbers DEF IntakeInv, PendingPass
<1> HIDE DEF m, i, q0
<1>8. /\ jobs' \in [Mails -> [1..MaxParts -> [rejected : Nat, pending : Nat, sent : Nat]]]
      /\ jobs'[m][i] = [jobs[m][i] EXCEPT !["sent"] = @ + 1]
      /\ \A n \in Mails, j \in 1..MaxParts : n # m \/ j # i => jobs'[n][j] = jobs[n][j]
  BY ZenonT(30), <1>1, <1>4, CountTypes DEF IntakeInv
<1>9. /\ jobs'[m][i].rejected = jobs[m][i].rejected /\ jobs'[m][i].pending = jobs[m][i].pending
      /\ jobs'[m][i].sent <= jobs'[m][i].pending
      /\ jobs'[m][i].sent = jobs[m][i].sent + 1
  BY <1>5, <1>7, <1>8
<1>10. jobs'[m][i].rejected + jobs'[m][i].pending <= takes[m]
  BY <1>5, <1>9 DEF Recorded
<1>11. /\ jobs'[m][i].rejected + jobs'[m][i].sent \in Nat
       /\ jobs'[m][i].rejected + jobs'[m][i].sent >= Settled(m, i)
       /\ jobs'[m][i].rejected + jobs'[m][i].sent = Settled(m, i) + 1
  BY <1>7, <1>9 DEF Settled
<1>12. jobs'[m][i].sent + (IF q0.stage = "committed" THEN 1 ELSE 0) < jobs'[m][i].pending
         <=> jobs[m][i].sent + (IF poll[p].stage = "committed" THEN 1 ELSE 0)
                 < jobs[m][i].pending
  BY <1>1, <1>2, <1>7, <1>9
<1>13. jobs'[m][i].pending > 0 => parts[m][i] \in CVs
  BY <1>7, <1>9
<1> QED
  BY <1>1, <1>2, <1>3, <1>6, <1>8, <1>9, <1>10, <1>11, <1>12, <1>13, CountsPart DEF m, i

\* Leaving a mail is a step to the rest of the list, or the poll's end.
LEMMA LeaveMailTypes ==
  ASSUME IntakeInv, NEW p \in Pollers, Working(p),
         LeaveMail(p) \/ poll' = [poll EXCEPT ![p] = Idle],
         UNCHANGED <<inbox, parts, keyed, jobs, known, takes, lapses>>,
         spoilt' = spoilt \/ Spoil(p)
  PROVE  IntakeTypeOK' /\ ~Working(p)' /\ \A q \in Pollers \ {p} : poll'[q] = poll[q]
<1>1. poll[p] \in Polls /\ poll[p].mail \in Mails
  BY PollsAreRecords DEF IntakeInv, IntakeTypeOK, PollsFit, Working, Idle
<1> DEFINE q0 == [poll[p] EXCEPT !.stage = "list", !.mail = NoMail, !.next = 1]
<1>2. q0 \in Polls /\ q0.stage = "list"
  <2>1. 1 \in 1..(MaxParts + 1)
    BY IntakeAssumption
  <2> QED
    BY <1>1, <2>1 DEF Polls
<1>3. poll' = [poll EXCEPT ![p] = q0] \/ poll' = [poll EXCEPT ![p] = Idle]
  BY DEF LeaveMail
<1> HIDE DEF q0
<1>4. poll' \in [Pollers -> Polls \cup {Idle}]
  BY <1>2, <1>3 DEF IntakeInv, IntakeTypeOK
<1>5. IntakeTypeOK'
  <2>1. spoilt \in [Mails -> Nat] /\ spoilt[poll[p].mail] \in Nat
    BY <1>1 DEF IntakeInv, IntakeTypeOK
  <2>2. spoilt' = spoilt \/ spoilt' = [spoilt EXCEPT ![poll[p].mail] = @ + 1]
    BY DEF Spoil
  <2>3. spoilt' \in [Mails -> Nat]
    BY <1>1, <2>1, <2>2
  <2> QED
    BY <1>4, <2>3 DEF IntakeInv, IntakeTypeOK
<1>6. poll'[p].stage \in {"list", "idle"} /\ \A q \in Pollers \ {p} : poll'[q] = poll[q]
  BY <1>2, <1>3 DEF IntakeInv, IntakeTypeOK, Idle
<1> QED
  BY <1>5, <1>6 DEF Working

\* Every PDF has been counted.
LEMMA IntakeMailDone ==
  ASSUME IntakeInv, NEW p \in Pollers, MailDone(p)
  PROVE  IntakeInv'
<1>1. Working(p) /\ poll[p] \in Polls
  BY PollsAreRecords DEF MailDone, Working, Idle, IntakeInv
<1>4. IntakeTypeOK' /\ ~Working(p)' /\ \A q \in Pollers \ {p} : poll'[q] = poll[q]
  BY <1>1, LeaveMailTypes DEF MailDone
<1> QED
  BY <1>1, <1>4, LeavesMail DEF MailDone

\* The rest is dropped, and this taking is spoilt.
LEMMA IntakeMailFails ==
  ASSUME IntakeInv, NEW p \in Pollers, MailFails(p)
  PROVE  IntakeInv'
<1>1. IntakeTypeOK' /\ ~Working(p)' /\ \A q \in Pollers \ {p} : poll'[q] = poll[q]
  BY LeaveMailTypes DEF MailFails
<1> QED
  BY <1>1, LeavesMail DEF MailFails

\* A poll that dies spoils the mail it works on, if any.
LEMMA IntakePollDies ==
  ASSUME IntakeInv, NEW p \in Pollers, PollDies(p)
  PROVE  IntakeInv'
<1>1. CASE Working(p)
  <2>2. IntakeTypeOK' /\ ~Working(p)' /\ \A q \in Pollers \ {p} : poll'[q] = poll[q]
    BY <1>1, LeaveMailTypes DEF PollDies
  <2> QED
    BY <1>1, <2>2, LeavesMail DEF PollDies
<1>2. CASE ~Working(p)
  <2>1. IntakeTypeOK'
    BY <1>2 DEF PollDies, Spoil, IntakeInv, IntakeTypeOK
  <2> QED
    BY <1>2, <2>1, SameWork DEF PollDies, Spoil, IntakeInv, IntakeTypeOK, Working, Idle
<1> QED
  BY <1>1, <1>2

\* A key goes when no poll is at work, and pays for the take that may follow.
LEMMA IntakeKeyLapses ==
  ASSUME IntakeInv, NEW m \in Mails, KeyLapses(m)
  PROVE  IntakeInv'
<1>1. IntakeTypeOK'
  BY DEF KeyLapses, IntakeInv, IntakeTypeOK
<1>2. \A p \in Pollers : poll[p] = Idle /\ ~Working(p) /\ ~Working(p)' /\ poll'[p] = Idle
  BY DEF KeyLapses, Working, Idle
<1>3. KeysCounted'
  BY DEF KeyLapses, IntakeInv, IntakeTypeOK, KeysCounted
<1>4. PollsFit' /\ OnePollPerMail' /\ JobsCounted' /\ JobsSent' /\ PendingPass'
  BY <1>2 DEF KeyLapses, IntakeInv, PollsFit, OnePollPerMail, JobsCounted, JobsSent, PendingPass,
     Recorded, Idle
<1>5. UNCHANGED <<parts, poll, jobs, takes, spoilt>>
  BY DEF KeyLapses
<1>6. PartsSettled' /\ FewStuck'
  BY <1>5 DEF IntakeInv, PartsSettled, Settled, Owes, Working, FewStuck, Stuck, InHand
<1> QED
  BY <1>1, <1>3, <1>4, <1>6 DEF IntakeInv

\* Every step keeps IntakeInv.
LEMMA IntakeStep == IntakeInv /\ [IntakeNext]_intakeVars => IntakeInv'
<1> SUFFICES ASSUME IntakeInv, [IntakeNext]_intakeVars PROVE IntakeInv'
  OBVIOUS
<1>1. ASSUME NEW p \in Pollers, PollStep(p) PROVE IntakeInv'
  BY <1>1, IntakeStartPoll, IntakeTakeNewMail, IntakeSkipMail, IntakeEndPoll, IntakeRejectPart,
     IntakeAcceptPart, IntakeSendJob, IntakeMailDone, IntakeMailFails, IntakePollDies
  DEF PollStep
<1>2. ASSUME NEW m \in Mails, NEW files \in PDFs, Arrive(m, files) PROVE IntakeInv'
  BY <1>2, IntakeArrive
<1>3. ASSUME NEW m \in Mails, ReadByHand(m) \/ KeyLapses(m) PROVE IntakeInv'
  BY <1>3, IntakeReadByHand, IntakeKeyLapses
<1>4. ASSUME NEW m \in Mails, NEW i \in 1..MaxParts, Index(m, i) PROVE IntakeInv'
  BY <1>4, IntakeIndex
<1>5. CASE UNCHANGED intakeVars
  <2>1. IntakeTypeOK'
    BY <1>5 DEF intakeVars, IntakeInv, IntakeTypeOK
  <2> QED
    BY <1>5, <2>1, SameWork DEF intakeVars, Working
<1> QED
  BY <1>1, <1>2, <1>3, <1>4, <1>5 DEF IntakeNext

\* The inductive invariant of the intake.
THEOREM IntakeInvariant == IntakeSpec => []IntakeInv
  BY IntakeBegin, IntakeStep, PTL DEF IntakeSpec

\* The intake's variables keep their types.
THEOREM IntakeTypeCorrect == IntakeSpec => []IntakeTypeOK
<1>1. IntakeInv => IntakeTypeOK
  BY DEF IntakeInv
<1> QED
  BY <1>1, IntakeInvariant, PTL

\* However many polls overlap, a PDF has one job more only when a key lapsed.
THEOREM OneJobPerKey == IntakeSpec => []OncePerKey
<1>1. IntakeInv => OncePerKey
  <2>1. ASSUME IntakeInv, NEW m \in Mails
        PROVE  takes[m] <= 1 + lapses
    BY <2>1 DEF IntakeInv, KeysCounted, IntakeTypeOK
  <2> QED
    BY <2>1 DEF IntakeInv, JobsCounted, Recorded, OncePerKey
<1> QED
  BY <1>1, IntakeInvariant, PTL

\* Whatever fails, dies, overlaps or lapses, only a taking of a mail that was spoilt leaves
\* a PDF of it without its job, and at most one committed job without its message.
THEOREM TakenIsRecorded == IntakeSpec => []NothingDropped
<1>1. IntakeInv => NothingDropped
  <2> SUFFICES ASSUME IntakeInv, NEW m \in Mails
               PROVE  /\ \A i \in 1..MaxParts : jobs[m][i].sent <= jobs[m][i].pending
                      /\ (\A p \in Pollers : poll[p] # Idle => poll[p].mail # m) =>
                         /\ \A i \in 1..Len(parts[m]) :
                                takes[m] <= jobs[m][i].rejected + jobs[m][i].sent + spoilt[m]
                         /\ Cardinality({i \in 1..MaxParts :
                                jobs[m][i].sent < jobs[m][i].pending}) <= spoilt[m]
    BY DEF NothingDropped
  <2>1. \A i \in 1..MaxParts : jobs[m][i].sent <= jobs[m][i].pending
    BY DEF IntakeInv, JobsSent
  <2>2. ASSUME \A p \in Pollers : poll[p] # Idle => poll[p].mail # m
        PROVE  /\ \A i \in 1..Len(parts[m]) :
                    takes[m] <= jobs[m][i].rejected + jobs[m][i].sent + spoilt[m]
               /\ Cardinality({i \in 1..MaxParts :
                    jobs[m][i].sent < jobs[m][i].pending}) <= spoilt[m]
    <3>1. \A p \in Pollers : Working(p) \/ poll[p].stage = "committed" => poll[p].mail # m
      BY <2>2 DEF Working, Idle
    <3>2. ASSUME NEW i \in 1..Len(parts[m])
          PROVE  takes[m] <= jobs[m][i].rejected + jobs[m][i].sent + spoilt[m]
      BY <3>1 DEF IntakeInv, PartsSettled, Settled, Owes
    <3>3. Stuck(m) = {i \in 1..MaxParts : jobs[m][i].sent < jobs[m][i].pending}
      <4>1. \A i \in 1..MaxParts : ~InHand(m, i) /\ jobs[m][i].sent \in Nat
        BY <3>1, CountsAreNumbers DEF InHand, IntakeInv
      <4> QED
        BY <4>1 DEF Stuck
    <3> QED
      BY <3>2, <3>3 DEF IntakeInv, FewStuck
  <2> QED
    BY <2>1, <2>2
<1> QED
  BY <1>1, IntakeInvariant, PTL

=============================================================================
