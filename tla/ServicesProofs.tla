--------------------------- MODULE ServicesProofs ---------------------------
(***************************************************************************)
(* Theorems about the bulk sender, for every set of tabs, tasks and        *)
(* candidates, and about the composition that TLC explores: each of its    *)
(* behaviours is one of the service whose lane it takes, so the services'  *)
(* theorems are theorems about it.                                         *)
(***************************************************************************)
EXTENDS MCServices, ConversationsProofs, RecordsProofs, IntakeProofs


-----------------------------------------------------------------------------
(* Rows and how many there are.                                             *)

\* Rows of senders are finitely many.
LEMMA FewRows ==
  ASSUME NEW A \in SUBSET (Senders \X (1..MaxRows))
  PROVE  IsFiniteSet(A) /\ Cardinality(A) \in Nat
<1>1. IsFiniteSet(1..MaxRows)
  BY FS_Interval, BulkAssumption
<1>2. IsFiniteSet(Senders \X (1..MaxRows))
  BY <1>1, FS_Product, BulkAssumption DEF Senders
<1> QED
  BY <1>2, FS_Subset, FS_CardinalityType

\* So are the numbers of one sender's rows.
LEMMA FewNumbers ==
  ASSUME NEW n \in Nat, NEW I \in SUBSET (1..n)
  PROVE  IsFiniteSet(I) /\ Cardinality(I) \in Nat
<1>1. IsFiniteSet(1..n)
  BY FS_Interval
<1> QED
  BY <1>1, FS_Subset, FS_CardinalityType

\* And senders.
LEMMA FewSenders ==
  ASSUME NEW S \in SUBSET Senders
  PROVE  IsFiniteSet(S) /\ Cardinality(S) \in Nat
  BY FS_Subset, FS_CardinalityType, BulkAssumption DEF Senders

\* The rows of one sender, and everybody else's.
LEMMA RowsOfOne ==
  ASSUME NEW A \in SUBSET (Senders \X (1..MaxRows)), NEW s \in Senders
  PROVE  Cardinality(A) = Cardinality({at \in A : at[1] # s})
                        + Cardinality({i \in 1..MaxRows : <<s, i>> \in A})
<1> DEFINE R == {at \in A : at[1] # s}
           I == {i \in 1..MaxRows : <<s, i>> \in A}
<1>1. IsFiniteSet(R) /\ Cardinality(R) \in Nat
  BY FewRows
<1>2. IsFiniteSet(I) /\ Cardinality(I) \in Nat
  BY FewNumbers, BulkAssumption
<1>3. IsFiniteSet({s} \X I) /\ Cardinality({s} \X I) = Cardinality(I)
  <2>1. IsFiniteSet({s}) /\ Cardinality({s}) = 1
    BY FS_Singleton
  <2> HIDE DEF I
  <2>2. IsFiniteSet({s} \X I) /\ Cardinality({s} \X I) = 1 * Cardinality(I)
    BY <1>2, <2>1, FS_Product
  <2> QED
    BY <1>2, <2>2
<1>4. A = R \cup ({s} \X I) /\ R \cap ({s} \X I) = {}
  OBVIOUS
<1> HIDE DEF R, I
<1>5. Cardinality(A) = Cardinality(R) + Cardinality({s} \X I) - Cardinality({})
  BY <1>1, <1>3, <1>4, FS_Union
<1>6. Cardinality({}) = 0
  BY FS_EmptySet
<1> QED
  BY <1>1, <1>2, <1>3, <1>5, <1>6 DEF R, I

\* A batch is a sequence of rows.
LEMMA BatchRows ==
  ASSUME NEW todo \in Batches
  PROVE  /\ Len(todo) \in Nat /\ Len(todo) >= 1 /\ Len(todo) <= MaxRows
         /\ DOMAIN todo = 1..Len(todo) /\ todo \in [1..Len(todo) -> Addressees]
         /\ todo \in Seq(Addressees)
<1>1. PICK n \in 1..MaxRows : todo \in [1..n -> Addressees]
  BY DEF Batches
<1>2. n \in Nat /\ n >= 1 /\ n <= MaxRows
  BY BulkAssumption
<1> QED
  BY <1>1, <1>2

\* How often somebody is in a batch.
LEMMA TimesType ==
  ASSUME NEW n \in Nat, NEW todo \in [1..n -> Addressees], NEW c
  PROVE  Times(c, todo) \in Nat
  BY FewNumbers DEF Times

\* Rows at work.
LEMMA AtWork ==
  ASSUME BulkTypeOK, NEW s \in Senders, sending[s] # NoRows
  PROVE  /\ sending[s] \in Rows /\ sending[s].todo \in Batches
         /\ sending[s].next \in Nat /\ sending[s].ok \in BOOLEAN
         /\ sending[s].stage \in {"queued", "send", "record"}
  BY DEF BulkTypeOK, Rows

\* Only one sender goes on: the rows that are awaited change by those of its own.
LEMMA AwaitingChange ==
  ASSUME NEW s \in Senders, \A r \in Senders \ {s} : sending'[r] = sending[r],
         NEW c, NEW n \in Int,
         Cardinality({i \in 1..MaxRows : Awaits(s, i, c)'})
           = Cardinality({i \in 1..MaxRows : Awaits(s, i, c)}) + n
  PROVE  /\ Cardinality(Awaiting(c)) \in Nat /\ Cardinality(Awaiting(c)') \in Nat
         /\ Cardinality(Awaiting(c)') = Cardinality(Awaiting(c)) + n
<1> DEFINE A == Awaiting(c)
           B == Awaiting(c)'
<1>1. A \in SUBSET (Senders \X (1..MaxRows)) /\ B \in SUBSET (Senders \X (1..MaxRows))
  BY DEF Awaiting
<1>2. {i \in 1..MaxRows : <<s, i>> \in A} = {i \in 1..MaxRows : Awaits(s, i, c)}
  BY DEF Awaiting
<1>3. {i \in 1..MaxRows : <<s, i>> \in B} = {i \in 1..MaxRows : Awaits(s, i, c)'}
  BY DEF Awaiting
<1>4. {at \in A : at[1] # s} = {at \in B : at[1] # s}
  BY DEF Awaiting, Awaits
<1> HIDE DEF A, B
<1>5. Cardinality(A) = Cardinality({at \in A : at[1] # s})
                     + Cardinality({i \in 1..MaxRows : Awaits(s, i, c)})
  BY <1>1, <1>2, RowsOfOne
<1>6. Cardinality(B) = Cardinality({at \in B : at[1] # s})
                     + Cardinality({i \in 1..MaxRows : Awaits(s, i, c)'})
  BY <1>1, <1>3, RowsOfOne
<1>7. Cardinality(A) \in Nat /\ Cardinality(B) \in Nat
  BY <1>1, FewRows
<1>8. /\ Cardinality({at \in A : at[1] # s}) \in Nat
      /\ Cardinality({i \in 1..MaxRows : Awaits(s, i, c)}) \in Nat
  <2>1. {at \in A : at[1] # s} \in SUBSET (Senders \X (1..MaxRows))
    BY <1>1
  <2> QED
    BY <2>1, FewRows, FewNumbers, BulkAssumption
<1> DEFINE R == Cardinality({at \in A : at[1] # s})
           I == Cardinality({i \in 1..MaxRows : Awaits(s, i, c)})
           J == Cardinality({i \in 1..MaxRows : Awaits(s, i, c)'})
<1>9. Cardinality(A) = R + I /\ Cardinality(B) = R + J
  BY <1>4, <1>5, <1>6
<1>10. J = I + n /\ R \in Nat /\ I \in Nat
  BY <1>8
<1> HIDE DEF R, I, J
<1>11. Cardinality(B) = Cardinality(A) + n
  BY <1>9, <1>10
<1> QED
  BY <1>7, <1>11 DEF A, B

-----------------------------------------------------------------------------
(* What a step of one sender leaves to show.                                *)

\* Mails and awaited rows rise by no more than what covers them.
LEMMA BulkStepOf ==
  ASSUME BulkInv, BulkTypeOK', RowsFit', MailsRecorded',
         NEW s \in Senders, \A r \in Senders \ {s} : sending'[r] = sending[r],
         \A c \in Addressees :
            mailed'[c] + Cardinality({i \in 1..MaxRows : Awaits(s, i, c)'})
                + confirmed[c] + repeated[c]
            <= mailed[c] + Cardinality({i \in 1..MaxRows : Awaits(s, i, c)})
                + confirmed'[c] + repeated'[c]
  PROVE  BulkInv'
<1>1. MailsCovered'
  <2> SUFFICES ASSUME NEW c \in Addressees
               PROVE  mailed'[c] + Cardinality(Awaiting(c)') <= confirmed'[c] + repeated'[c]
    BY DEF MailsCovered
  <2> DEFINE I == Cardinality({i \in 1..MaxRows : Awaits(s, i, c)})
             J == Cardinality({i \in 1..MaxRows : Awaits(s, i, c)'})
  <2>1. I \in Nat /\ J \in Nat
    BY FewNumbers, BulkAssumption
  <2>2. /\ mailed[c] \in Nat /\ confirmed[c] \in Nat /\ repeated[c] \in Nat
        /\ mailed'[c] \in Nat /\ confirmed'[c] \in Nat /\ repeated'[c] \in Nat
    BY DEF BulkInv, BulkTypeOK, Counts
  <2>3. mailed'[c] + J + confirmed[c] + repeated[c]
          <= mailed[c] + I + confirmed'[c] + repeated'[c]
    OBVIOUS
  <2>4. J = I + (J - I) /\ J - I \in Int
    BY <2>1
  <2>5. /\ Cardinality(Awaiting(c)) \in Nat /\ Cardinality(Awaiting(c)') \in Nat
        /\ Cardinality(Awaiting(c)') = Cardinality(Awaiting(c)) + (J - I)
    BY <2>4, AwaitingChange
  <2>6. mailed[c] + Cardinality(Awaiting(c)) <= confirmed[c] + repeated[c]
    BY DEF BulkInv, MailsCovered
  <2> HIDE DEF I, J
  <2> QED
    BY <2>1, <2>2, <2>3, <2>5, <2>6
<1> QED
  BY <1>1 DEF BulkInv

\* Nobody records anything.
LEMMA RecordedAsBefore ==
  ASSUME BulkInv, UNCHANGED <<mailed, logged, doubtful>>,
         \A s \in Senders : sending'[s] # sending[s] => ~Unrecorded(s) /\ ~Unrecorded(s)'
  PROVE  MailsRecorded'
<1>1. \A c \in Addressees : Recording(c)' = Recording(c)
  BY DEF Recording, Unrecorded, Addressee
<1> QED
  BY <1>1 DEF BulkInv, MailsRecorded

\* A sender that has no rows yet gets a batch: it awaits each of its rows.
LEMMA NewRows ==
  ASSUME BulkTypeOK, NEW s \in Senders, sending[s] = NoRows, NEW todo \in Batches,
         sending'[s] \in Rows, sending'[s].todo = todo, sending'[s].next = 1,
         sending'[s].stage \in {"queued", "send"}, NEW c
  PROVE  /\ Cardinality({i \in 1..MaxRows : Awaits(s, i, c)'}) = Times(c, todo)
         /\ Cardinality({i \in 1..MaxRows : Awaits(s, i, c)}) = 0
<1>1. /\ Len(todo) \in Nat /\ Len(todo) <= MaxRows /\ DOMAIN todo = 1..Len(todo)
  BY BatchRows
<1>2. sending'[s] # NoRows
  BY DEF NoRows
<1>3. {i \in 1..MaxRows : Awaits(s, i, c)'} = {i \in DOMAIN todo : todo[i] = c}
  BY <1>1, <1>2, BulkAssumption DEF Awaits
<1>4. {i \in 1..MaxRows : Awaits(s, i, c)} = {}
  BY DEF Awaits
<1> QED
  BY <1>3, <1>4, FS_EmptySet DEF Times

\* What a sender awaits, by its stage.
LEMMA OwnRows ==
  ASSUME BulkTypeOK, RowsFit, NEW s \in Senders, sending[s] # NoRows, NEW c
  PROVE  /\ sending[s].next \in 1..Len(sending[s].todo) /\ Len(sending[s].todo) \in Nat
         /\ Len(sending[s].todo) <= MaxRows /\ DOMAIN sending[s].todo = 1..Len(sending[s].todo)
         /\ Addressee(s) \in Addressees
         /\ {i \in 1..MaxRows : Awaits(s, i, c)} =
              {i \in 1..Len(sending[s].todo) : sending[s].todo[i] = c
                 /\ (i > sending[s].next \/ (i = sending[s].next /\ sending[s].stage # "record"))}
<1>1. sending[s].todo \in Batches
  BY AtWork
<1>2. /\ Len(sending[s].todo) \in Nat /\ Len(sending[s].todo) <= MaxRows
      /\ DOMAIN sending[s].todo = 1..Len(sending[s].todo)
      /\ sending[s].todo \in [1..Len(sending[s].todo) -> Addressees]
  BY <1>1, BatchRows
<1>3. sending[s].next \in 1..Len(sending[s].todo)
  BY <1>2 DEF RowsFit
<1> QED
  BY <1>2, <1>3, BulkAssumption DEF Awaits, Addressee

-----------------------------------------------------------------------------
(* Each action keeps BulkInv.                                               *)

\* Nobody sends anything yet.
LEMMA BulkBegin == BulkInit => BulkInv
<1> SUFFICES ASSUME BulkInit PROVE BulkInv
  OBVIOUS
<1>1. BulkTypeOK /\ RowsFit
  BY DEF BulkInit, BulkTypeOK, RowsFit, Counts
<1>2. \A c : Awaiting(c) = {} /\ Recording(c) = {}
  BY DEF BulkInit, Awaiting, Awaits, Recording, Unrecorded, NoRows
<1>3. Cardinality({}) = 0
  BY FS_EmptySet
<1>4. \A c \in Addressees : /\ mailed[c] = 0 /\ logged[c] = 0 /\ doubtful[c] = 0
                            /\ confirmed[c] = 0 /\ repeated[c] = 0
  BY DEF BulkInit
<1>5. MailsCovered /\ MailsRecorded
  BY <1>2, <1>3, <1>4 DEF MailsCovered, MailsRecorded
<1> QED
  BY <1>1, <1>5 DEF BulkInv

\* Whatever the page drafts concerns no sender.
LEMMA BulkIdle ==
  ASSUME BulkInv, BulkTypeOK', UNCHANGED <<sending, logged, mailed, doubtful, repeated>>,
         \A c \in Addressees : confirmed'[c] >= confirmed[c]
  PROVE  BulkInv'
<1>1. RowsFit' /\ MailsRecorded'
  BY RecordedAsBefore DEF BulkInv, RowsFit
<1>2. \A c : Awaiting(c)' = Awaiting(c)
  BY DEF Awaiting, Awaits
<1>3. MailsCovered'
  <2> SUFFICES ASSUME NEW c \in Addressees
               PROVE  mailed'[c] + Cardinality(Awaiting(c)') <= confirmed'[c] + repeated'[c]
    BY DEF MailsCovered
  <2>1. /\ mailed[c] \in Nat /\ confirmed[c] \in Nat /\ repeated[c] \in Nat
        /\ confirmed'[c] \in Nat
    BY DEF BulkInv, BulkTypeOK, Counts
  <2>2. Awaiting(c) \in SUBSET (Senders \X (1..MaxRows))
    BY DEF Awaiting
  <2>3. Cardinality(Awaiting(c)) \in Nat
    BY <2>2, FewRows
  <2> QED
    BY <1>2, <2>1, <2>3 DEF BulkInv, MailsCovered
<1> QED
  BY <1>1, <1>3 DEF BulkInv

\* Confirming adds to a count.
LEMMA ConfirmTypes ==
  ASSUME BulkTypeOK, NEW todo \in Batches, Confirm(todo)
  PROVE  /\ confirmed' \in Counts
         /\ \A c \in Addressees : confirmed'[c] = confirmed[c] + Times(c, todo)
                                  /\ Times(c, todo) \in Nat /\ confirmed[c] \in Nat
<1>1. \A c \in Addressees : Times(c, todo) \in Nat /\ confirmed[c] \in Nat
  BY BatchRows, TimesType DEF BulkTypeOK, Counts
<1>2. confirmed' = [c \in Addressees |-> confirmed[c] + Times(c, todo)]
  BY DEF Confirm, Plus
<1> QED
  BY <1>1, <1>2 DEF Counts

\* A mail is drafted.
LEMMA BulkDraftOne ==
  ASSUME BulkInv, NEW p \in Tabs, DraftOne(p) PROVE BulkInv'
<1>1. BulkTypeOK' /\ \A c \in Addressees : confirmed'[c] >= confirmed[c]
  BY DEF DraftOne, BulkInv, BulkTypeOK, Counts
<1> QED
  BY <1>1, BulkIdle DEF DraftOne

\* A batch is drafted.
LEMMA BulkDraftBatch ==
  ASSUME BulkInv, NEW p \in Tabs, NEW todo \in Batches \cup {<<>>}, DraftBatch(p, todo)
  PROVE  BulkInv'
<1>1. BulkTypeOK' /\ \A c \in Addressees : confirmed'[c] >= confirmed[c]
  BY DEF DraftBatch, BulkInv, BulkTypeOK, Counts
<1> QED
  BY <1>1, BulkIdle DEF DraftBatch

\* One mail is confirmed, and awaited.
LEMMA BulkSendOne ==
  ASSUME BulkInv, NEW p \in Tabs, NEW c \in Addressees, SendOne(p, c) PROVE BulkInv'
<1> DEFINE todo == <<c>>
           w == [stage |-> "send", todo |-> todo, next |-> 1, ok |-> FALSE]
<1>1. todo \in Batches /\ todo \in [1..1 -> Addressees] /\ 1 \in 1..MaxRows
  BY BulkAssumption DEF Batches
<1>2. p \in Senders /\ sending[p] = NoRows /\ sending' = [sending EXCEPT ![p] = w]
      /\ Confirm(todo) /\ UNCHANGED <<grid, logged, mailed, doubtful, repeated, deaths>>
      /\ drafted' = drafted
  BY DEF SendOne, Senders
<1> HIDE DEF todo
<1>3. w \in Rows /\ w.stage = "send" /\ w.todo = todo /\ w.next = 1 /\ w.ok = FALSE
  BY <1>1 DEF Rows
<1> HIDE DEF w
<1>4. sending'[p] = w /\ \A s \in Senders \ {p} : sending'[s] = sending[s]
  BY <1>2 DEF BulkInv, BulkTypeOK
<1>5. BulkTypeOK'
  BY <1>1, <1>2, <1>3, ConfirmTypes DEF BulkInv, BulkTypeOK
<1>6. RowsFit'
  BY <1>1, <1>3, <1>4, BatchRows DEF BulkInv, RowsFit
<1>7. MailsRecorded'
  BY <1>2, <1>3, <1>4, RecordedAsBefore DEF Unrecorded, NoRows
<1>8. ASSUME NEW d \in Addressees
      PROVE  /\ Cardinality({i \in 1..MaxRows : Awaits(p, i, d)'}) = Times(d, todo)
             /\ Cardinality({i \in 1..MaxRows : Awaits(p, i, d)}) = 0
  BY <1>1, <1>2, <1>3, <1>4, NewRows DEF BulkInv
<1>9. \A d \in Addressees :
        /\ confirmed'[d] = confirmed[d] + Times(d, todo)
        /\ Times(d, todo) \in Nat /\ confirmed[d] \in Nat
        /\ mailed[d] \in Nat /\ repeated[d] \in Nat
  BY <1>1, <1>2, ConfirmTypes DEF BulkInv, BulkTypeOK, Counts
<1>10. \A d \in Addressees :
         mailed'[d] + Cardinality({i \in 1..MaxRows : Awaits(p, i, d)'})
             + confirmed[d] + repeated[d]
         <= mailed[d] + Cardinality({i \in 1..MaxRows : Awaits(p, i, d)})
             + confirmed'[d] + repeated'[d]
  BY <1>2, <1>8, <1>9
<1> QED
  BY <1>2, <1>4, <1>5, <1>6, <1>7, <1>10, BulkStepOf

\* The ticked rows are confirmed; if the broker takes them, they are awaited.
LEMMA BulkSendBatch ==
  ASSUME BulkInv, NEW p \in Tabs, NEW t \in BatchTasks, NEW ticked \in Selections,
         SendBatch(p, t, ticked)
  PROVE  BulkInv'
<1> DEFINE todo == [i \in DOMAIN ticked |-> grid[p][ticked[i]]]
           w == [stage |-> "queued", todo |-> todo, next |-> 1, ok |-> FALSE]
<1>1. todo \in Batches
  <2>1. PICK n \in 1..MaxRows : ticked \in [1..n -> 1..MaxRows]
    BY DEF Selections
  <2>2. \A i \in 1..n : ticked[i] \in DOMAIN grid[p]
    BY <2>1 DEF SendBatch
  <2>3. grid[p] # <<>> => grid[p] \in Batches
    BY DEF BulkInv, BulkTypeOK
  <2>4. \A i \in 1..n : grid[p][ticked[i]] \in Addressees
    <3>1. 1 \in 1..n
      BY BulkAssumption
    <3>2. grid[p] # <<>>
      BY <2>2, <3>1
    <3> QED
      BY <2>2, <2>3, <3>2, BatchRows
  <2> QED
    BY <2>1, <2>4 DEF Batches
<1>2. PICK queued \in BOOLEAN, stays \in BOOLEAN :
        /\ sending' = IF queued THEN [sending EXCEPT ![t] = w] ELSE sending
        /\ grid' = IF stays THEN grid ELSE [grid EXCEPT ![p] = <<>>]
  BY DEF SendBatch
<1>3. t \in Senders /\ sending[t] = NoRows /\ Confirm(todo)
      /\ UNCHANGED <<drafted, logged, mailed, doubtful, repeated, deaths>>
  BY DEF SendBatch, Senders
<1> HIDE DEF todo
<1>4. w \in Rows /\ w.stage = "queued" /\ w.todo = todo /\ w.next = 1 /\ w.ok = FALSE
  BY <1>1 DEF Rows
<1> HIDE DEF w
<1>5. BulkTypeOK'
  BY <1>1, <1>2, <1>3, <1>4, ConfirmTypes DEF BulkInv, BulkTypeOK
<1>6. \A d \in Addressees :
        /\ confirmed'[d] = confirmed[d] + Times(d, todo)
        /\ Times(d, todo) \in Nat /\ confirmed[d] \in Nat
        /\ mailed[d] \in Nat /\ repeated[d] \in Nat
  BY <1>1, <1>3, ConfirmTypes DEF BulkInv, BulkTypeOK, Counts
<1>7. CASE ~queued
  <2>1. sending' = sending
    BY <1>2, <1>7
  <2> QED
    BY <1>3, <1>5, <1>6, <2>1, BulkIdle
<1>8. CASE queued
  <2>1. sending'[t] = w /\ \A s \in Senders \ {t} : sending'[s] = sending[s]
    BY <1>2, <1>3, <1>8 DEF BulkInv, BulkTypeOK
  <2>2. RowsFit'
    BY <1>1, <1>4, <2>1, BatchRows DEF BulkInv, RowsFit
  <2>3. MailsRecorded'
    BY <1>3, <1>4, <2>1, RecordedAsBefore DEF Unrecorded, NoRows
  <2>4. ASSUME NEW d \in Addressees
        PROVE  /\ Cardinality({i \in 1..MaxRows : Awaits(t, i, d)'}) = Times(d, todo)
               /\ Cardinality({i \in 1..MaxRows : Awaits(t, i, d)}) = 0
    BY <1>1, <1>3, <1>4, <2>1, NewRows DEF BulkInv
  <2>5. \A d \in Addressees :
          mailed'[d] + Cardinality({i \in 1..MaxRows : Awaits(t, i, d)'})
              + confirmed[d] + repeated[d]
          <= mailed[d] + Cardinality({i \in 1..MaxRows : Awaits(t, i, d)})
              + confirmed'[d] + repeated'[d]
    BY <1>3, <1>6, <2>4
  <2> QED
    BY <1>3, <1>5, <2>1, <2>2, <2>3, <2>5, BulkStepOf
<1> QED
  BY <1>7, <1>8

\* A task that starts awaits what it awaited.
LEMMA BulkStartTask ==
  ASSUME BulkInv, NEW t \in BatchTasks, StartTask(t) PROVE BulkInv'
<1> DEFINE w == [sending[t] EXCEPT !.stage = "send"]
<1>1. t \in Senders /\ sending[t] # NoRows /\ sending[t].stage = "queued"
  BY DEF StartTask, Senders, NoRows
<1>2. sending[t] \in Rows /\ sending[t].next = 1 /\ 1 \in DOMAIN sending[t].todo
  BY <1>1, AtWork DEF BulkInv, RowsFit
<1>3. sending' = [sending EXCEPT ![t] = w]
      /\ UNCHANGED <<drafted, grid, logged, confirmed, mailed, doubtful, repeated, deaths>>
  BY DEF StartTask
<1>4. /\ w \in Rows /\ w.stage = "send" /\ w.todo = sending[t].todo /\ w.next = 1
      /\ w # NoRows
  BY <1>2 DEF Rows, NoRows
<1> HIDE DEF w
<1>5. sending'[t] = w /\ \A s \in Senders \ {t} : sending'[s] = sending[s]
  BY <1>1, <1>3 DEF BulkInv, BulkTypeOK
<1>6. BulkTypeOK'
  BY <1>3, <1>4 DEF BulkInv, BulkTypeOK
<1>7. RowsFit'
  BY <1>2, <1>4, <1>5 DEF BulkInv, RowsFit
<1>8. MailsRecorded'
  BY <1>1, <1>3, <1>4, <1>5, RecordedAsBefore DEF Unrecorded
<1>9. \A c, i : Awaits(t, i, c)' <=> Awaits(t, i, c)
  BY <1>1, <1>2, <1>4, <1>5 DEF Awaits
<1>10. \A c \in Addressees :
        /\ Cardinality({i \in 1..MaxRows : Awaits(t, i, c)'})
             = Cardinality({i \in 1..MaxRows : Awaits(t, i, c)})
        /\ Cardinality({i \in 1..MaxRows : Awaits(t, i, c)}) \in Nat
        /\ mailed[c] \in Nat /\ confirmed[c] \in Nat /\ repeated[c] \in Nat
  BY <1>9, FewNumbers, BulkAssumption DEF BulkInv, BulkTypeOK, Counts
<1>11. \A c \in Addressees :
         mailed'[c] + Cardinality({i \in 1..MaxRows : Awaits(t, i, c)'})
             + confirmed[c] + repeated[c]
         <= mailed[c] + Cardinality({i \in 1..MaxRows : Awaits(t, i, c)})
             + confirmed'[c] + repeated'[c]
  BY <1>3, <1>10
<1> QED
  BY <1>1, <1>5, <1>6, <1>7, <1>8, <1>11, BulkStepOf

\* Going on to the next row, or to none: what follows is awaited.
LEMMA GoingOn ==
  ASSUME BulkInv, NEW s \in Senders, sending[s] # NoRows, NextRow(s)
  PROVE  /\ sending' \in [Senders -> Rows \cup {NoRows}]
         /\ \A r \in Senders \ {s} : sending'[r] = sending[r]
         /\ RowsFit' /\ ~Unrecorded(s)'
         /\ \A c : {i \in 1..MaxRows : Awaits(s, i, c)'} =
              {i \in 1..Len(sending[s].todo) : sending[s].todo[i] = c /\ i > sending[s].next}
<1> DEFINE todo == sending[s].todo
           next == sending[s].next
           w == IF next = Len(todo) THEN NoRows
                ELSE [sending[s] EXCEPT !.next = next + 1, !.stage = "send", !.ok = FALSE]
<1>1. /\ sending[s] \in Rows /\ next \in 1..Len(todo) /\ Len(todo) \in Nat
      /\ Len(todo) <= MaxRows /\ DOMAIN todo = 1..Len(todo)
  BY AtWork, OwnRows DEF BulkInv
<1>2. sending' = [sending EXCEPT ![s] = w]
  BY DEF NextRow
<1>3. CASE next = Len(todo)
  <2>1. w = NoRows
    BY <1>3
  <2> HIDE DEF w
  <2>2. sending'[s] = NoRows /\ \A r \in Senders \ {s} : sending'[r] = sending[r]
    BY <1>2, <2>1 DEF BulkInv, BulkTypeOK
  <2>3. sending' \in [Senders -> Rows \cup {NoRows}]
    BY <1>2, <2>1 DEF BulkInv, BulkTypeOK
  <2>4. RowsFit' /\ ~Unrecorded(s)'
    BY <2>2 DEF BulkInv, RowsFit, Unrecorded, NoRows
  <2>5. \A c : {i \in 1..MaxRows : Awaits(s, i, c)'} = {}
    BY <2>2 DEF Awaits
  <2>6. \A c : {i \in 1..Len(todo) : todo[i] = c /\ i > next} = {}
    BY <1>1, <1>3
  <2> QED
    BY <2>2, <2>3, <2>4, <2>5, <2>6
<1>4. CASE next # Len(todo)
  <2>1. /\ w \in Rows /\ w.next = next + 1 /\ w.stage = "send" /\ w.ok = FALSE /\ w.todo = todo
        /\ w # NoRows
    <3>1. PICK v \in Rows : v = sending[s]
      BY <1>1
    <3>2. next + 1 \in Nat
      BY <1>1
    <3>3. w = [v EXCEPT !.next = next + 1, !.stage = "send", !.ok = FALSE]
      BY <1>4, <3>1
    <3> QED
      BY <3>1, <3>2, <3>3 DEF Rows, NoRows
  <2> HIDE DEF w
  <2>2. sending'[s] = w /\ \A r \in Senders \ {s} : sending'[r] = sending[r]
    BY <1>2, <2>1 DEF BulkInv, BulkTypeOK
  <2>3. sending' \in [Senders -> Rows \cup {NoRows}]
    BY <1>2, <2>1 DEF BulkInv, BulkTypeOK
  <2>4. next + 1 \in 1..Len(todo)
    BY <1>1, <1>4
  <2>5. RowsFit' /\ ~Unrecorded(s)'
    BY <1>1, <2>1, <2>2, <2>4 DEF BulkInv, RowsFit, Unrecorded
  <2>6. \A c : {i \in 1..MaxRows : Awaits(s, i, c)'} = {i \in 1..Len(todo) : todo[i] = c /\ i > next}
    BY <1>1, <2>1, <2>2, <2>4, BulkAssumption DEF Awaits
  <2> QED
    BY <2>2, <2>3, <2>5, <2>6
<1> QED
  BY <1>3, <1>4

\* Numbers of one sender's rows, before and after.
LEMMA FewerRows ==
  ASSUME NEW I \in SUBSET (1..MaxRows), NEW J \in SUBSET I
  PROVE  Cardinality(I) \in Nat /\ Cardinality(J) \in Nat /\ Cardinality(J) <= Cardinality(I)
<1>1. IsFiniteSet(I) /\ Cardinality(I) \in Nat
  BY FewNumbers, BulkAssumption
<1> QED
  BY <1>1, FS_Subset, FS_CardinalityType

\* The counts are numbers.
LEMMA BulkNumbers ==
  ASSUME BulkTypeOK, NEW c \in Addressees
  PROVE  /\ mailed[c] \in Nat /\ confirmed[c] \in Nat /\ repeated[c] \in Nat
         /\ logged[c] \in Nat /\ doubtful[c] \in Nat
  BY DEF BulkTypeOK, Counts

\* A row that is skipped is awaited no more.
LEMMA BulkSkipRow ==
  ASSUME BulkInv, NEW s \in Senders, SkipRow(s) PROVE BulkInv'
<1>1. /\ sending[s] # NoRows /\ sending[s].stage = "send" /\ NextRow(s)
      /\ UNCHANGED <<drafted, grid, logged, confirmed, mailed, doubtful, repeated, deaths>>
  BY DEF SkipRow, NoRows
<1>2. /\ \A r \in Senders \ {s} : sending'[r] = sending[r]
      /\ RowsFit' /\ BulkTypeOK' /\ ~Unrecorded(s)'
  BY <1>1, GoingOn DEF BulkInv, BulkTypeOK
<1>3. MailsRecorded'
  BY <1>1, <1>2, RecordedAsBefore DEF Unrecorded
<1>4. ASSUME NEW c \in Addressees
      PROVE  mailed'[c] + Cardinality({i \in 1..MaxRows : Awaits(s, i, c)'})
                 + confirmed[c] + repeated[c]
             <= mailed[c] + Cardinality({i \in 1..MaxRows : Awaits(s, i, c)})
                 + confirmed'[c] + repeated'[c]
  <2> DEFINE I == {i \in 1..MaxRows : Awaits(s, i, c)}
             J == {i \in 1..MaxRows : Awaits(s, i, c)'}
  <2>1. J \subseteq I
    BY <1>1, GoingOn, OwnRows DEF BulkInv
  <2>2. I \in SUBSET (1..MaxRows)
    OBVIOUS
  <2> HIDE DEF I, J
  <2>3. Cardinality(I) \in Nat /\ Cardinality(J) \in Nat /\ Cardinality(J) <= Cardinality(I)
    BY <2>1, <2>2, FewerRows
  <2>4. mailed[c] + Cardinality(J) + confirmed[c] + repeated[c]
          <= mailed[c] + Cardinality(I) + confirmed[c] + repeated[c]
    BY <2>3, BulkNumbers DEF BulkInv
  <2> QED
    BY <1>1, <2>4 DEF I, J
<1> QED
  BY <1>2, <1>3, <1>4, BulkStepOf

\* Who records a mail of c's but for one sender stays; so the count changes by that one.
LEMMA RecordedStepOf ==
  ASSUME BulkInv, BulkTypeOK',
         NEW s \in Senders, \A r \in Senders \ {s} : sending'[r] = sending[r],
         \A c \in Addressees :
            mailed'[c] + logged[c] + doubtful[c] + (IF s \in Recording(c) THEN 1 ELSE 0)
            = mailed[c] + logged'[c] + doubtful'[c] + (IF s \in Recording(c)' THEN 1 ELSE 0)
  PROVE  MailsRecorded'
<1> SUFFICES ASSUME NEW c \in Addressees
             PROVE  mailed'[c] = logged'[c] + doubtful'[c] + Cardinality(Recording(c)')
  BY DEF MailsRecorded
<1> DEFINE A == Recording(c)
           B == Recording(c)'
<1>1. A \in SUBSET Senders /\ B \in SUBSET Senders
  BY DEF Recording
<1>2. A \ {s} = B \ {s}
  BY DEF Recording, Unrecorded, Addressee
<1>3. /\ mailed[c] \in Nat /\ logged[c] \in Nat /\ doubtful[c] \in Nat
      /\ mailed'[c] \in Nat /\ logged'[c] \in Nat /\ doubtful'[c] \in Nat
  BY DEF BulkInv, BulkTypeOK, Counts
<1>4. mailed[c] = logged[c] + doubtful[c] + Cardinality(A)
  BY DEF BulkInv, MailsRecorded
<1>5. mailed'[c] + logged[c] + doubtful[c] + (IF s \in A THEN 1 ELSE 0)
      = mailed[c] + logged'[c] + doubtful'[c] + (IF s \in B THEN 1 ELSE 0)
  OBVIOUS
<1> HIDE DEF A, B
<1>6. Cardinality(A) \in Nat /\ Cardinality(B) \in Nat /\ Cardinality(A \ {s}) \in Nat
  BY <1>1, FewSenders
<1>7. Cardinality(A) = Cardinality(A \ {s}) + (IF s \in A THEN 1 ELSE 0)
  BY <1>1, <1>6, FewSenders, FS_RemoveElement
<1>8. Cardinality(B) = Cardinality(A \ {s}) + (IF s \in B THEN 1 ELSE 0)
  BY <1>1, <1>2, <1>6, FewSenders, FS_RemoveElement
<1> DEFINE x == IF s \in A THEN 1 ELSE 0
           y == IF s \in B THEN 1 ELSE 0
<1>9. /\ Cardinality(A) = Cardinality(A \ {s}) + x /\ Cardinality(B) = Cardinality(A \ {s}) + y
      /\ mailed'[c] + logged[c] + doubtful[c] + x = mailed[c] + logged'[c] + doubtful'[c] + y
      /\ x \in Nat /\ y \in Nat
  BY <1>5, <1>7, <1>8
<1> HIDE DEF x, y
<1>10. mailed'[c] = logged'[c] + doubtful'[c] + Cardinality(B)
  <2>1. Cardinality(B) - Cardinality(A) = y - x
    BY <1>6, <1>9
  <2>2. mailed'[c] = mailed[c] + logged'[c] - logged[c] + doubtful'[c] - doubtful[c] + y - x
    BY <1>3, <1>9
  <2> QED
    BY <1>3, <1>4, <1>6, <1>9, <2>1, <2>2
<1> QED
  BY <1>10 DEF B

\* The row that is posted is awaited no more; a mail more is recorded, or in doubt.
LEMMA BulkPost ==
  ASSUME BulkInv, NEW s \in Senders, Post(s) PROVE BulkInv'
<1> DEFINE todo == sending[s].todo
           next == sending[s].next
           a == Addressee(s)
<1>1. PICK taken \in BOOLEAN, told \in BOOLEAN :
        /\ told => taken
        /\ sending' = [sending EXCEPT ![s].stage = "record", ![s].ok = told]
        /\ mailed' = IF taken THEN [mailed EXCEPT ![a] = @ + 1] ELSE mailed
        /\ doubtful' = IF taken /\ ~told THEN [doubtful EXCEPT ![a] = @ + 1] ELSE doubtful
  BY DEF Post
<1>2. /\ sending[s] # NoRows /\ sending[s].stage = "send"
      /\ UNCHANGED <<drafted, grid, logged, confirmed, repeated, deaths>>
  BY DEF Post, NoRows
<1>3. /\ sending[s] \in Rows /\ next \in 1..Len(todo) /\ Len(todo) \in Nat
      /\ Len(todo) <= MaxRows /\ DOMAIN todo = 1..Len(todo) /\ a \in Addressees
  BY <1>2, AtWork, OwnRows DEF BulkInv
<1> DEFINE w == [sending[s] EXCEPT !.stage = "record", !.ok = told]
<1>4. sending'[s] = w /\ (\A r \in Senders \ {s} : sending'[r] = sending[r])
      /\ sending' = [sending EXCEPT ![s] = w]
  BY <1>1 DEF BulkInv, BulkTypeOK
<1>5. /\ w \in Rows /\ w.stage = "record" /\ w.ok = told /\ w.todo = todo /\ w.next = next
      /\ w # NoRows
  <2>1. PICK v \in Rows : v = sending[s]
    BY <1>3
  <2>2. w = [v EXCEPT !.stage = "record", !.ok = told]
    BY <2>1
  <2> QED
    BY <2>1, <2>2 DEF Rows, NoRows
<1> HIDE DEF w
<1>6. BulkTypeOK'
  <2>1. mailed' \in Counts /\ doubtful' \in Counts
    BY SMTT(30), <1>1, <1>3 DEF BulkInv, BulkTypeOK, Counts
  <2>2. sending' \in [Senders -> Rows \cup {NoRows}]
    BY <1>4, <1>5 DEF BulkInv, BulkTypeOK
  <2> QED
    BY <1>2, <2>1, <2>2 DEF BulkInv, BulkTypeOK
<1>7. RowsFit'
  BY <1>3, <1>4, <1>5 DEF BulkInv, RowsFit
<1>8. ASSUME NEW c \in Addressees
      PROVE  /\ mailed'[c] + logged[c] + doubtful[c] + (IF s \in Recording(c) THEN 1 ELSE 0)
                = mailed[c] + logged'[c] + doubtful'[c] + (IF s \in Recording(c)' THEN 1 ELSE 0)
             /\ mailed'[c] = mailed[c] + (IF taken /\ c = a THEN 1 ELSE 0)
  <2>1. s \notin Recording(c)
    BY <1>2 DEF Recording, Unrecorded
  <2>2. s \in Recording(c)' <=> told /\ c = a
    BY <1>4, <1>5 DEF Recording, Unrecorded, Addressee
  <2>3. mailed'[c] = mailed[c] + (IF taken /\ c = a THEN 1 ELSE 0)
    BY <1>1, BulkNumbers DEF BulkInv, BulkTypeOK, Counts
  <2>4. doubtful'[c] = doubtful[c] + (IF taken /\ ~told /\ c = a THEN 1 ELSE 0)
    BY <1>1, BulkNumbers DEF BulkInv, BulkTypeOK, Counts
  <2> HIDE DEF a
  <2> QED
    BY <1>1, <1>2, <2>1, <2>2, <2>3, <2>4, BulkNumbers DEF BulkInv
<1>9. MailsRecorded'
  BY <1>4, <1>6, <1>8, RecordedStepOf
<1>10. ASSUME NEW c \in Addressees
       PROVE  mailed'[c] + Cardinality({i \in 1..MaxRows : Awaits(s, i, c)'})
                  + confirmed[c] + repeated[c]
              <= mailed[c] + Cardinality({i \in 1..MaxRows : Awaits(s, i, c)})
                  + confirmed'[c] + repeated'[c]
  <2> DEFINE I == {i \in 1..MaxRows : Awaits(s, i, c)}
             J == {i \in 1..MaxRows : Awaits(s, i, c)'}
  <2>1. J = I \ {next} /\ (c = a => next \in I)
    BY <1>2, <1>3, <1>4, <1>5, OwnRows, BulkAssumption DEF BulkInv, Awaits, Addressee
  <2>2. I \in SUBSET (1..MaxRows)
    OBVIOUS
  <2> HIDE DEF I, J, a
  <2>3. Cardinality(I) \in Nat /\ Cardinality(J) \in Nat /\ Cardinality(J) <= Cardinality(I)
    BY <2>1, <2>2, FewerRows
  <2>4. c = a => Cardinality(J) = Cardinality(I) - 1
    <3>1. IsFiniteSet(I)
      BY <2>2, FewNumbers, BulkAssumption
    <3> QED
      BY <2>1, <3>1, FS_RemoveElement
  <2>5. mailed'[c] + Cardinality(J) + confirmed[c] + repeated[c]
          <= mailed[c] + Cardinality(I) + confirmed[c] + repeated[c]
    BY <1>8, <2>3, <2>4, BulkNumbers DEF BulkInv
  <2> QED
    BY <1>2, <2>5 DEF I, J
<1> QED
  BY <1>4, <1>6, <1>7, <1>9, <1>10, BulkStepOf

\* A row that is recorded, or whose record fails, was awaited no more.
LEMMA BulkRecordRow ==
  ASSUME BulkInv, NEW s \in Senders, RecordRow(s) PROVE BulkInv'
<1> DEFINE a == Addressee(s)
           ok == sending[s].ok
<1>1. PICK works \in BOOLEAN, clears \in BOOLEAN :
        /\ logged' = IF ok /\ works THEN [logged EXCEPT ![a] = @ + 1] ELSE logged
        /\ doubtful' = IF ok /\ ~works THEN [doubtful EXCEPT ![a] = @ + 1] ELSE doubtful
        /\ drafted' = IF clears THEN drafted \ {s} ELSE drafted
  BY DEF RecordRow, Record
<1>2. /\ sending[s] # NoRows /\ sending[s].stage = "record" /\ NextRow(s)
      /\ UNCHANGED <<grid, confirmed, mailed, repeated, deaths>>
  BY DEF RecordRow, Record, NoRows
<1>3. ok \in BOOLEAN /\ a \in Addressees
  BY <1>2, AtWork, OwnRows DEF BulkInv
<1>4. /\ sending' \in [Senders -> Rows \cup {NoRows}] /\ RowsFit' /\ ~Unrecorded(s)'
      /\ \A r \in Senders \ {s} : sending'[r] = sending[r]
  BY <1>2, GoingOn
<1>5. logged' \in Counts /\ doubtful' \in Counts
  BY <1>1, <1>3 DEF BulkInv, BulkTypeOK, Counts
<1>6. BulkTypeOK'
  BY <1>1, <1>2, <1>4, <1>5 DEF BulkInv, BulkTypeOK
<1>7. ASSUME NEW c \in Addressees
      PROVE  mailed'[c] + logged[c] + doubtful[c] + (IF s \in Recording(c) THEN 1 ELSE 0)
             = mailed[c] + logged'[c] + doubtful'[c] + (IF s \in Recording(c)' THEN 1 ELSE 0)
  <2>1. s \notin Recording(c)'
    BY <1>4 DEF Recording
  <2>2. s \in Recording(c) <=> ok /\ c = a
    BY <1>2 DEF Recording, Unrecorded
  <2>3. /\ logged'[c] = logged[c] + (IF ok /\ works /\ c = a THEN 1 ELSE 0)
        /\ doubtful'[c] = doubtful[c] + (IF ok /\ ~works /\ c = a THEN 1 ELSE 0)
    BY SMTT(30), <1>1, <1>3, BulkNumbers DEF BulkInv, BulkTypeOK, Counts
  <2> HIDE DEF a, ok
  <2> QED
    BY <1>2, <2>1, <2>2, <2>3, BulkNumbers DEF BulkInv
<1>8. MailsRecorded'
  BY <1>4, <1>6, <1>7, RecordedStepOf
<1>9. ASSUME NEW c \in Addressees
      PROVE  mailed'[c] + Cardinality({i \in 1..MaxRows : Awaits(s, i, c)'})
                 + confirmed[c] + repeated[c]
             <= mailed[c] + Cardinality({i \in 1..MaxRows : Awaits(s, i, c)})
                 + confirmed'[c] + repeated'[c]
  <2> DEFINE I == {i \in 1..MaxRows : Awaits(s, i, c)}
             J == {i \in 1..MaxRows : Awaits(s, i, c)'}
  <2>1. J = I
    BY <1>2, GoingOn, OwnRows DEF BulkInv
  <2>2. I \in SUBSET (1..MaxRows)
    OBVIOUS
  <2> HIDE DEF I, J
  <2>3. Cardinality(I) \in Nat
    BY <2>2, FewNumbers, BulkAssumption
  <2>4. mailed[c] + Cardinality(J) + confirmed[c] + repeated[c]
          <= mailed[c] + Cardinality(I) + confirmed[c] + repeated[c]
    BY <2>1, <2>3, BulkNumbers DEF BulkInv
  <2> QED
    BY <1>2, <2>4 DEF I, J
<1> QED
  BY <1>4, <1>6, <1>8, <1>9, BulkStepOf

\* What a death leaves unrecorded is in doubt.
LEMMA BulkLost ==
  ASSUME BulkInv, NEW s \in Senders, sending[s] # NoRows, Lost(s),
         UNCHANGED <<mailed, logged>>, ~Unrecorded(s)'
  PROVE  /\ doubtful' \in Counts
         /\ \A c \in Addressees :
              mailed'[c] + logged[c] + doubtful[c] + (IF s \in Recording(c) THEN 1 ELSE 0)
              = mailed[c] + logged'[c] + doubtful'[c] + (IF s \in Recording(c)' THEN 1 ELSE 0)
<1> DEFINE a == Addressee(s)
           u == Unrecorded(s)
<1>1. a \in Addressees /\ doubtful' = IF u THEN [doubtful EXCEPT ![a] = @ + 1] ELSE doubtful
  BY OwnRows DEF BulkInv, Lost
<1>2. doubtful' \in Counts
  BY <1>1 DEF BulkInv, BulkTypeOK, Counts
<1>3. ASSUME NEW c \in Addressees
      PROVE  mailed'[c] + logged[c] + doubtful[c] + (IF s \in Recording(c) THEN 1 ELSE 0)
             = mailed[c] + logged'[c] + doubtful'[c] + (IF s \in Recording(c)' THEN 1 ELSE 0)
  <2>1. s \notin Recording(c)' /\ (s \in Recording(c) <=> u /\ c = a)
    BY DEF Recording
  <2>2. doubtful'[c] = doubtful[c] + (IF u /\ c = a THEN 1 ELSE 0)
    BY <1>1, BulkNumbers DEF BulkInv, BulkTypeOK, Counts
  <2> HIDE DEF a, u
  <2> QED
    BY <2>1, <2>2, BulkNumbers DEF BulkInv
<1> QED
  BY <1>2, <1>3

\* Rows that are gone are awaited by nobody.
LEMMA BulkGone ==
  ASSUME BulkInv, BulkTypeOK', NEW s \in Senders, sending[s] # NoRows, Lost(s),
         sending'[s] = NoRows, \A r \in Senders \ {s} : sending'[r] = sending[r],
         UNCHANGED <<logged, confirmed, mailed, repeated>>
  PROVE  BulkInv'
<1>1. RowsFit' /\ ~Unrecorded(s)'
  BY DEF BulkInv, RowsFit, Unrecorded, NoRows
<1>2. MailsRecorded'
  BY <1>1, BulkLost, RecordedStepOf
<1>3. ASSUME NEW c \in Addressees
      PROVE  mailed'[c] + Cardinality({i \in 1..MaxRows : Awaits(s, i, c)'})
                 + confirmed[c] + repeated[c]
             <= mailed[c] + Cardinality({i \in 1..MaxRows : Awaits(s, i, c)})
                 + confirmed'[c] + repeated'[c]
  <2> DEFINE I == {i \in 1..MaxRows : Awaits(s, i, c)}
             J == {i \in 1..MaxRows : Awaits(s, i, c)'}
  <2>1. J \subseteq I /\ I \in SUBSET (1..MaxRows)
    BY DEF Awaits
  <2> HIDE DEF I, J
  <2>2. Cardinality(I) \in Nat /\ Cardinality(J) \in Nat /\ Cardinality(J) <= Cardinality(I)
    BY <2>1, FewerRows
  <2>3. mailed[c] + Cardinality(J) + confirmed[c] + repeated[c]
          <= mailed[c] + Cardinality(I) + confirmed[c] + repeated[c]
    BY <2>2, BulkNumbers DEF BulkInv
  <2> QED
    BY <2>3 DEF I, J
<1> QED
  BY <1>1, <1>2, <1>3, BulkStepOf

\* A tab that dies takes its row along.
LEMMA BulkTabDies ==
  ASSUME BulkInv, NEW p \in Tabs, TabDies(p) PROVE BulkInv'
<1>1. /\ p \in Senders /\ Lost(p) /\ UNCHANGED <<logged, confirmed, mailed, repeated>>
      /\ sending' = [sending EXCEPT ![p] = NoRows] /\ deaths' = deaths + 1
      /\ drafted' = drafted \ {p} /\ grid' = [grid EXCEPT ![p] = <<>>]
  BY DEF TabDies, Senders
<1>2. sending'[p] = NoRows /\ \A r \in Senders \ {p} : sending'[r] = sending[r]
  BY <1>1 DEF BulkInv, BulkTypeOK
<1>3. CASE sending[p] = NoRows
  <2>1. doubtful' = doubtful /\ sending' = sending
    BY <1>1, <1>3 DEF Lost, Unrecorded, NoRows, BulkInv, BulkTypeOK
  <2>2. BulkTypeOK' /\ \A c \in Addressees : confirmed'[c] >= confirmed[c]
    BY <1>1, <2>1 DEF BulkInv, BulkTypeOK, Counts
  <2> QED
    BY <1>1, <2>1, <2>2, BulkIdle
<1>4. CASE sending[p] # NoRows
  <2>1. ~Unrecorded(p)'
    BY <1>2 DEF Unrecorded, NoRows
  <2>2. doubtful' \in Counts
    BY <1>1, <1>4, <2>1, BulkLost
  <2>3. BulkTypeOK'
    BY <1>1, <2>2 DEF BulkInv, BulkTypeOK
  <2> QED
    BY <1>1, <1>2, <1>4, <2>3, BulkGone
<1> QED
  BY <1>3, <1>4

\* The rows a redelivery offers again are those that were awaited no more.
LEMMA BulkRedelivered ==
  ASSUME BulkInv, NEW s \in Senders, sending[s] # NoRows,
         sending[s].stage \in {"send", "record"},
         sending' = [sending EXCEPT ![s] = [sending[s] EXCEPT !.stage = "queued", !.next = 1,
                                                              !.ok = FALSE]],
         NEW done, done = IF sending[s].stage = "record" THEN sending[s].next
                                                         ELSE sending[s].next - 1
  PROVE  /\ sending' \in [Senders -> Rows \cup {NoRows}] /\ RowsFit' /\ ~Unrecorded(s)'
         /\ \A r \in Senders \ {s} : sending'[r] = sending[r]
         /\ \A c : /\ Times(c, SubSeq(sending[s].todo, 1, done)) \in Nat
                   /\ Cardinality({i \in 1..MaxRows : Awaits(s, i, c)}) \in Nat
                   /\ Cardinality({i \in 1..MaxRows : Awaits(s, i, c)'})
                        = Cardinality({i \in 1..MaxRows : Awaits(s, i, c)})
                        + Times(c, SubSeq(sending[s].todo, 1, done))
<1> DEFINE todo == sending[s].todo
           next == sending[s].next
           w == [sending[s] EXCEPT !.stage = "queued", !.next = 1, !.ok = FALSE]
<1>1. /\ sending[s] \in Rows /\ next \in 1..Len(todo) /\ Len(todo) \in Nat
      /\ Len(todo) <= MaxRows /\ DOMAIN todo = 1..Len(todo) /\ todo \in Seq(Addressees)
  BY AtWork, OwnRows, BatchRows DEF BulkInv
<1>2. w \in Rows /\ w.stage = "queued" /\ w.next = 1 /\ w.ok = FALSE /\ w.todo = todo /\ w # NoRows
  <2>1. PICK v \in Rows : v = sending[s]
    BY <1>1
  <2>2. w = [v EXCEPT !.stage = "queued", !.next = 1, !.ok = FALSE]
    BY <2>1
  <2> QED
    BY <2>1, <2>2 DEF Rows, NoRows
<1> HIDE DEF w
<1>3. /\ sending'[s] = w /\ \A r \in Senders \ {s} : sending'[r] = sending[r]
      /\ sending' \in [Senders -> Rows \cup {NoRows}]
  BY <1>2 DEF w, BulkInv, BulkTypeOK
<1>4. RowsFit' /\ ~Unrecorded(s)'
  BY <1>1, <1>2, <1>3 DEF BulkInv, RowsFit, Unrecorded
<1>5. done \in 0..Len(todo)
  BY <1>1
<1>6. ASSUME NEW c
      PROVE  /\ Times(c, SubSeq(todo, 1, done)) \in Nat
             /\ Cardinality({i \in 1..MaxRows : Awaits(s, i, c)}) \in Nat
             /\ Cardinality({i \in 1..MaxRows : Awaits(s, i, c)'})
                  = Cardinality({i \in 1..MaxRows : Awaits(s, i, c)})
                  + Times(c, SubSeq(todo, 1, done))
  <2> DEFINE I == {i \in 1..MaxRows : Awaits(s, i, c)}
             J == {i \in 1..MaxRows : Awaits(s, i, c)'}
             D == {i \in 1..done : todo[i] = c}
  <2>1. I = {i \in 1..Len(todo) : todo[i] = c /\ i > done}
    BY <1>1, OwnRows DEF BulkInv
  <2>2. J = {i \in 1..Len(todo) : todo[i] = c}
    BY <1>1, <1>2, <1>3, BulkAssumption DEF Awaits
  <2>3. J = I \cup D /\ I \cap D = {} /\ I \in SUBSET (1..MaxRows) /\ D \in SUBSET (1..Len(todo))
    BY <1>1, <1>5, <2>1, <2>2
  <2>4. Times(c, SubSeq(todo, 1, done)) = Cardinality(D)
    <3>1. /\ DOMAIN SubSeq(todo, 1, done) = 1..done
          /\ \A i \in 1..done : SubSeq(todo, 1, done)[i] = todo[i]
      BY <1>1, <1>5
    <3> QED
      BY <3>1 DEF Times
  <2> HIDE DEF I, J, D
  <2>5. /\ IsFiniteSet(I) /\ Cardinality(I) \in Nat
        /\ IsFiniteSet(D) /\ Cardinality(D) \in Nat
    BY <1>1, <2>3, FewNumbers, BulkAssumption
  <2>6. Cardinality(J) = Cardinality(I) + Cardinality(D) - Cardinality({})
    BY <2>3, <2>5, FS_Union
  <2>7. Cardinality(J) = Cardinality(I) + Cardinality(D)
    BY <2>5, <2>6, FS_EmptySet
  <2> QED
    BY <2>4, <2>5, <2>7 DEF I, J
<1> QED
  BY <1>3, <1>4, <1>6

\* A worker that dies: its rows are gone, or all of them are offered again.
LEMMA BulkWorkerDies ==
  ASSUME BulkInv, NEW t \in BatchTasks, WorkerDies(t) PROVE BulkInv'
<1> DEFINE done == IF sending[t].stage = "record" THEN sending[t].next ELSE sending[t].next - 1
           again == SubSeq(sending[t].todo, 1, done)
<1>1. /\ t \in Senders /\ sending[t] # NoRows /\ sending[t].stage \in {"send", "record"}
      /\ Lost(t) /\ deaths' = deaths + 1
      /\ UNCHANGED <<drafted, grid, logged, confirmed, mailed>>
  BY DEF WorkerDies, Senders, NoRows
<1>2. CASE sending' = [sending EXCEPT ![t] = NoRows] /\ UNCHANGED repeated
  <2>1. sending'[t] = NoRows /\ \A r \in Senders \ {t} : sending'[r] = sending[r]
    BY <1>1, <1>2 DEF BulkInv, BulkTypeOK
  <2>2. ~Unrecorded(t)'
    BY <2>1 DEF Unrecorded, NoRows
  <2>3. doubtful' \in Counts
    BY <1>1, <2>2, BulkLost
  <2>4. BulkTypeOK'
    BY <1>1, <1>2, <2>3 DEF BulkInv, BulkTypeOK
  <2> QED
    BY <1>1, <1>2, <2>1, <2>4, BulkGone
<1>3. CASE /\ sending' = [sending EXCEPT ![t] = [sending[t] EXCEPT !.stage = "queued",
                                                                   !.next = 1, !.ok = FALSE]]
           /\ repeated' = Plus(repeated, again)
  <2>1. /\ sending' \in [Senders -> Rows \cup {NoRows}] /\ RowsFit' /\ ~Unrecorded(t)'
        /\ \A r \in Senders \ {t} : sending'[r] = sending[r]
        /\ \A c : /\ Times(c, again) \in Nat
                  /\ Cardinality({i \in 1..MaxRows : Awaits(t, i, c)}) \in Nat
                  /\ Cardinality({i \in 1..MaxRows : Awaits(t, i, c)'})
                       = Cardinality({i \in 1..MaxRows : Awaits(t, i, c)}) + Times(c, again)
    BY <1>1, <1>3, BulkRedelivered
  <2> HIDE DEF again
  <2>2. doubtful' \in Counts
    BY <1>1, <2>1, BulkLost
  <2>3. /\ repeated' \in Counts
        /\ \A c \in Addressees : repeated'[c] = repeated[c] + Times(c, again)
    <3>1. repeated' = [c \in Addressees |-> repeated[c] + Times(c, again)]
      BY <1>3 DEF Plus
    <3>2. \A c \in Addressees : repeated[c] \in Nat /\ Times(c, again) \in Nat
      BY <2>1, BulkNumbers DEF BulkInv
    <3> QED
      BY <3>1, <3>2 DEF Counts
  <2>4. BulkTypeOK'
    BY <1>1, <2>1, <2>2, <2>3 DEF BulkInv, BulkTypeOK
  <2>5. MailsRecorded'
    BY <1>1, <2>1, <2>4, BulkLost, RecordedStepOf
  <2>6. ASSUME NEW c \in Addressees
        PROVE  mailed'[c] + Cardinality({i \in 1..MaxRows : Awaits(t, i, c)'})
                   + confirmed[c] + repeated[c]
               <= mailed[c] + Cardinality({i \in 1..MaxRows : Awaits(t, i, c)})
                   + confirmed'[c] + repeated'[c]
    <3> DEFINE before == Cardinality({i \in 1..MaxRows : Awaits(t, i, c)})
               after == Cardinality({i \in 1..MaxRows : Awaits(t, i, c)'})
               more == Times(c, again)
    <3>1. /\ before \in Nat /\ more \in Nat /\ after = before + more
          /\ mailed[c] \in Nat /\ confirmed[c] \in Nat /\ repeated[c] \in Nat
      BY <2>1, BulkNumbers DEF BulkInv
    <3>2. mailed'[c] = mailed[c] /\ confirmed'[c] = confirmed[c]
          /\ repeated'[c] = repeated[c] + more
      BY <1>1, <2>3
    <3> HIDE DEF before, after, more
    <3>3. mailed'[c] + after + confirmed[c] + repeated[c]
            <= mailed[c] + before + confirmed'[c] + repeated'[c]
      BY <3>1, <3>2
    <3> QED
      BY <3>3 DEF before, after
  <2> QED
    BY <1>1, <2>1, <2>4, <2>5, <2>6, BulkStepOf
<1> QED
  BY <1>2, <1>3 DEF WorkerDies

-----------------------------------------------------------------------------
(* Theorems.                                                                *)

\* Every step keeps BulkInv.
LEMMA BulkStep == BulkInv /\ [BulkNext]_bulkVars => BulkInv'
<1> SUFFICES ASSUME BulkInv, [BulkNext]_bulkVars PROVE BulkInv'
  OBVIOUS
<1>1. CASE UNCHANGED bulkVars
  <2>1. BulkTypeOK' /\ \A c \in Addressees : confirmed'[c] >= confirmed[c]
    BY <1>1 DEF bulkVars, BulkInv, BulkTypeOK, Counts
  <2> QED
    BY <1>1, <2>1, BulkIdle DEF bulkVars
<1>2. ASSUME NEW p \in Tabs, DraftOne(p) PROVE BulkInv'
  BY <1>2, BulkDraftOne
<1>3. ASSUME NEW p \in Tabs, TabDies(p) PROVE BulkInv'
  BY <1>3, BulkTabDies
<1>4. ASSUME NEW p \in Tabs, NEW todo \in Batches \cup {<<>>}, DraftBatch(p, todo)
      PROVE  BulkInv'
  BY <1>4, BulkDraftBatch
<1>5. ASSUME NEW p \in Tabs, NEW c \in Addressees, SendOne(p, c) PROVE BulkInv'
  BY <1>5, BulkSendOne
<1>6. ASSUME NEW p \in Tabs, NEW t \in BatchTasks, NEW ticked \in Selections,
             SendBatch(p, t, ticked)
      PROVE  BulkInv'
  BY <1>6, BulkSendBatch
<1>7. ASSUME NEW t \in BatchTasks, StartTask(t) PROVE BulkInv'
  BY <1>7, BulkStartTask
<1>8. ASSUME NEW t \in BatchTasks, WorkerDies(t) PROVE BulkInv'
  BY <1>8, BulkWorkerDies
<1>9. ASSUME NEW s \in Senders, SkipRow(s) PROVE BulkInv'
  BY <1>9, BulkSkipRow
<1>10. ASSUME NEW s \in Senders, Post(s) PROVE BulkInv'
  BY <1>10, BulkPost
<1>11. ASSUME NEW s \in Senders, RecordRow(s) PROVE BulkInv'
  BY <1>11, BulkRecordRow
<1> QED
  BY <1>1, <1>2, <1>3, <1>4, <1>5, <1>6, <1>7, <1>8, <1>9, <1>10, <1>11 DEF BulkNext

\* What the accounts say follows.
LEMMA BulkMeans == BulkInv => MailsExplained
<1> SUFFICES ASSUME BulkInv, NEW c \in Addressees
             PROVE  /\ mailed[c] <= confirmed[c] + repeated[c]
                    /\ mailed[c] = logged[c] + doubtful[c] + Cardinality(Recording(c))
  BY DEF MailsExplained
<1>1. Awaiting(c) \in SUBSET (Senders \X (1..MaxRows))
  BY DEF Awaiting
<1>2. Cardinality(Awaiting(c)) \in Nat
  BY <1>1, FewRows
<1>3. mailed[c] + Cardinality(Awaiting(c)) <= confirmed[c] + repeated[c]
  BY DEF BulkInv, MailsCovered
<1>4. mailed[c] <= confirmed[c] + repeated[c]
  BY <1>2, <1>3, BulkNumbers DEF BulkInv
<1> QED
  BY <1>4 DEF BulkInv, MailsRecorded

\* BulkInv is an invariant of the bulk sender.
THEOREM BulkInvariant == BulkSpec => []BulkInv
<1>1. BulkInit => BulkInv
  BY BulkBegin
<1>2. BulkInv /\ [BulkNext]_bulkVars => BulkInv'
  BY BulkStep
<1> QED
  BY <1>1, <1>2, PTL DEF BulkSpec

\* The page's drafts, the senders' rows and the accounts keep their types.
THEOREM BulkTypeCorrect == BulkSpec => []BulkTypeOK
<1>1. BulkInv => BulkTypeOK
  BY DEF BulkInv
<1> QED
  BY <1>1, BulkInvariant, PTL

\* Every interview mail has a confirmation of its own or a redelivery of its task, and
\* its success row unless its answer or its record was lost.
THEOREM EveryMailExplained == BulkSpec => []MailsExplained
<1>1. BulkInv => MailsExplained
  BY BulkMeans
<1> QED
  BY <1>1, BulkInvariant, PTL

-----------------------------------------------------------------------------
(* The composition.                                                         *)

\* A step of the composition is one of every service, or leaves it alone.
LEMMA ServicesStep ==
  ASSUME [ServicesNext]_<<lane, allVars>>
  PROVE  /\ [Next]_vars /\ [AccountsNext]_accountVars /\ [SetsNext]_setVars
         /\ [IntakeNext]_intakeVars /\ [FailoverNext]_failoverVars /\ [BulkNext]_bulkVars
         /\ lane' = lane
  BY DEF ServicesNext, allVars

\* The composition implements every service that has a lane of its own.
THEOREM ServicesAreThemselves ==
  ServicesSpec => Spec /\ AccountsSpec /\ SetsSpec /\ IntakeSpec /\ FailoverSpec /\ BulkSpec
<1>1. ServicesInit => /\ Init /\ AccountsInit /\ SetsInit /\ IntakeInit /\ FailoverInit
                      /\ BulkInit
  BY DEF ServicesInit
<1>2. [ServicesNext]_<<lane, allVars>> =>
        /\ [Next]_vars /\ [AccountsNext]_accountVars /\ [SetsNext]_setVars
        /\ [IntakeNext]_intakeVars /\ [FailoverNext]_failoverVars /\ [BulkNext]_bulkVars
  BY ServicesStep
<1> QED
  BY <1>1, <1>2, PTL DEF ServicesSpec, Spec, AccountsSpec, SetsSpec, IntakeSpec, FailoverSpec,
     BulkSpec

\* Names and searches share the rows of candidates, in two lanes.
RecordsInv ==
  /\ lane \in Lanes
  /\ ManagementInv /\ SearchInv
  /\ lane # "search" => query = NoQuery

\* A search changes no names, and creating names disturbs no search.
LEMMA SearchManages == [SearchNext]_searchVars => [ManagementNext]_managementVars
<1> SUFFICES ASSUME [SearchNext]_searchVars PROVE [ManagementNext]_managementVars
  OBVIOUS
<1>1. ASSUME NEW c \in People, NEW o \in Openings \cup {NoOpening}, PlaceCandidate(c, o)
      PROVE  ManagementNext
  BY <1>1 DEF PlaceCandidate, ManagementNext
<1>2. ASSUME NEW c \in People, UpsertText(c) \/ RemoveText(c) \/ Evaluate(c)
      PROVE  UNCHANGED managementVars
  BY <1>2 DEF UpsertText, RemoveText, Evaluate
<1>3. ASSUME NEW ranks \in BOOLEAN, NEW d \in Departments \cup {Everywhere},
             NEW S \in SUBSET People,
             StartQuery(ranks, d, S) \/ ListCandidates(d, S) \/ ReadProfiles(d, S)
      PROVE  UNCHANGED managementVars
  BY <1>3 DEF StartQuery, ListCandidates, ReadProfiles, Begin
<1>4. ASSUME RefreshIndex \/ ReadScope \/ ReadVectors \/ ReadKeywords \/ Shortlist \/ EndQuery
      PROVE  UNCHANGED managementVars
  BY <1>4 DEF RefreshIndex, ReadScope, ReadVectors, ReadKeywords, Shortlist, EndQuery
<1>5. CASE UNCHANGED searchVars
  BY <1>5 DEF searchVars
<1> QED
  BY <1>1, <1>2, <1>3, <1>4, <1>5 DEF SearchNext

\* Initially there is no search.
LEMMA RecordsBegin == ServicesInit => RecordsInv
<1> SUFFICES ASSUME ServicesInit PROVE RecordsInv
  OBVIOUS
<1>1. CASE lane = "search"
  <2>1. SearchInit
    BY <1>1 DEF ServicesInit
  <2>2. SearchInv
    BY <2>1, SearchBegin
  <2>3. ManagementInv
    BY <2>1, <2>2, NothingIsMade DEF SearchInit, SearchInv, SearchTypeOK
  <2> QED
    BY <1>1, <2>2, <2>3 DEF RecordsInv, ServicesInit
<1>2. CASE lane # "search"
  <2>1. ManagementInv /\ points = {} /\ indexed = {} /\ query = NoQuery
    BY <1>2, ManagementBegin DEF ServicesInit
  <2>2. SearchInv
    BY <2>1 DEF SearchInv, SearchTypeOK, KeptPermitted, PoolFull, NotCrowdedOut, Asked,
       Answered, NoQuery, ManagementInv
  <2> QED
    BY <1>2, <2>1, <2>2 DEF RecordsInv, ServicesInit
<1> QED
  BY <1>1, <1>2

\* Every step keeps RecordsInv.
LEMMA RecordsStep == RecordsInv /\ [ServicesNext]_<<lane, allVars>> => RecordsInv'
<1> SUFFICES ASSUME RecordsInv, [ServicesNext]_<<lane, allVars>> PROVE RecordsInv'
  OBVIOUS
<1>1. CASE lane = "search" /\ SearchNext
  BY <1>1, ServicesStep, SearchStep, SearchManages, ManagementStep DEF RecordsInv
<1>2. CASE lane = "management" /\ ManagementNext /\ UNCHANGED <<points, indexed, query>>
  <2>1. ManagementInv' /\ query' = NoQuery /\ points' = points /\ indexed' = indexed
    BY <1>2, ManagementStep DEF RecordsInv
  <2>2. SearchInv'
    BY <2>1 DEF RecordsInv, SearchInv, SearchTypeOK, KeptPermitted, PoolFull, NotCrowdedOut,
       Asked, Answered, NoQuery, ManagementInv
  <2> QED
    BY <1>2, <2>1, <2>2, ServicesStep DEF RecordsInv
<1>3. CASE UNCHANGED searchVars
  <2>1. ManagementInv' /\ SearchInv' /\ query' = query
    BY <1>3, SearchStep, SearchManages, ManagementStep DEF RecordsInv, searchVars
  <2> QED
    BY <2>1, ServicesStep DEF RecordsInv
<1> QED
  BY <1>1, <1>2, <1>3 DEF ServicesNext, allVars

\* Whichever service is used, its state keeps its type.
THEOREM ServicesTypeCorrect == ServicesSpec => []ServicesTypeOK
<1>1. ServicesSpec => []RecordsInv
  BY RecordsBegin, RecordsStep, PTL DEF ServicesSpec
<1>2. /\ RecordsInv /\ TypeOK /\ AccountsTypeOK /\ SetsTypeOK /\ IntakeTypeOK
      /\ FailoverTypeOK /\ BulkTypeOK
      => ServicesTypeOK
  BY DEF RecordsInv, SearchInv, ServicesTypeOK
<1> QED
  BY <1>1, <1>2, ServicesAreThemselves, TypeCorrect, AccountsTypeCorrect, SetsTypeCorrect,
     IntakeTypeCorrect, FailoverTypeCorrect, BulkTypeCorrect, PTL

\* Every property that services_safety checks holds of the composition, as of its parts.
THEOREM ServicesAreSafe ==
  ServicesSpec =>
    /\ [](RankedAsConfirmed /\ DeletedLeavesNothing) /\ LocksPromise
    /\ [](NoStaleSession /\ GuessesBounded)
    /\ SavedAsAsked
    /\ [](OncePerKey /\ NothingDropped)
    /\ [](NamesUnique /\ ScopeHolds /\ NotCrowdedOut)
    /\ []GivesUpInformed
    /\ []MailsExplained
<1>1. ServicesSpec => []RecordsInv
  BY RecordsBegin, RecordsStep, PTL DEF ServicesSpec
<1>2. RecordsInv => NamesUnique /\ ScopeHolds /\ NotCrowdedOut
  BY CountedAreUnique DEF RecordsInv, SearchInv, KeptPermitted, ScopeHolds, Asked, Answered,
     NoQuery
<1> QED
  BY <1>1, <1>2, ServicesAreThemselves, RankingIsConfirmed, DeletionIsComplete,
     ConversationsKeepPromise, SessionsAreCurrent, GuessesAreBounded, SetsAreSavedAsAsked,
     OneJobPerKey, TakenIsRecorded, EveryKeyIsTried, EveryMailExplained, PTL

=============================================================================
