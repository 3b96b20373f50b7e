----------------------------- MODULE KeyFailover ----------------------------
(***************************************************************************)
(* Gemini keys with a quota: src/llm/key_manager.py.  All processes share  *)
(* an index in Redis.  A call that meets an exhausted key moves the index  *)
(* and tries again.  The index is read and written in two commands; Redis  *)
(* may fail at either, and then key 0 is used or nothing is written.       *)
(***************************************************************************)
EXTENDS Integers

CONSTANTS
    Models,     \* calls of a model or of the embedder, in any process
    NumKeys

ASSUME FailoverAssumption == NumKeys \in Nat \ {0}

VARIABLES
    keyIndex,   \* the index in Redis
    spent,      \* keys without quota
    call        \* where each call is

failoverVars == <<keyIndex, spent, call>>

ApiKeys == 0..(NumKeys - 1)
NoCall == [stage |-> "none"]
Calls == [stage : {"choose", "try", "mark", "write", "gaveUp", "raised"},
          replays : BOOLEAN,        \* tries again; the agent's router moves the index and raises
          attempt : 1..NumKeys, key : ApiKeys, old : ApiKeys,
          tried : SUBSET ApiKeys,   \* history
          alone : BOOLEAN]          \* Redis worked and nobody else moved the index (history)

FailoverTypeOK ==
    /\ keyIndex \in ApiKeys /\ spent \subseteq ApiKeys
    /\ call \in [Models -> Calls \cup {NoCall}]

FailoverInit ==
    /\ keyIndex = 0 /\ spent = {}
    /\ call = [c \in Models |-> NoCall]

\* Quotas run out and are renewed.
SpendQuota(k) ==
    /\ spent' = IF k \in spent THEN spent \ {k} ELSE spent \cup {k}
    /\ UNCHANGED <<keyIndex, call>>

StartCall(c, replays) ==
    /\ call[c] = NoCall
    /\ call' = [call EXCEPT ![c] = [stage |-> "choose", replays |-> replays, attempt |-> 1,
                                    key |-> 0, old |-> 0, tried |-> {}, alone |-> TRUE]]
    /\ UNCHANGED <<keyIndex, spent>>

\* _get_index and its fallback.
IndexRead(works) == IF works THEN keyIndex ELSE 0

ChooseKey(c) ==
    /\ call[c].stage = "choose"
    /\ \E works \in BOOLEAN :
        call' = [call EXCEPT ![c].key = IndexRead(works), ![c].stage = "try",
                             ![c].alone = @ /\ works]
    /\ UNCHANGED <<keyIndex, spent>>

\* An answer, or an error that another key would not help.
CallEnds(c) ==
    /\ call[c].stage \in {"try", "gaveUp", "raised"}
    /\ call' = [call EXCEPT ![c] = NoCall]
    /\ UNCHANGED <<keyIndex, spent>>

\* The call's last attempt leaves the index alone.
AfterQuotaError(c, attempts) ==
    /\ call[c].stage = "try" /\ call[c].key \in spent
    /\ call' = [call EXCEPT ![c].tried = @ \cup {call[c].key},
                            ![c].stage = IF call[c].replays /\ call[c].attempt >= attempts
                                         THEN "gaveUp" ELSE "mark"]
    /\ UNCHANGED <<keyIndex, spent>>

\* Wrong variant: one attempt fewer than there are keys.
QuotaErrorEarly(c) == AfterQuotaError(c, NumKeys - 1)

QuotaError(c) == AfterQuotaError(c, NumKeys)

\* mark_exhausted reads the index again, ...
MarkExhausted(c) ==
    /\ call[c].stage = "mark"
    /\ \E works \in BOOLEAN :
        call' = [call EXCEPT ![c].old = IndexRead(works), ![c].stage = "write",
                             ![c].alone = @ /\ works]
    /\ UNCHANGED <<keyIndex, spent>>

\* ... and writes the next one.
WriteNext(c, next) ==
    /\ call[c].stage = "write"
    /\ \E works \in BOOLEAN :
        /\ keyIndex' = IF works THEN next ELSE keyIndex
        /\ call' = [d \in Models |->
             IF d = c THEN [call[c] EXCEPT
                              !.stage = IF call[c].replays THEN "choose" ELSE "raised",
                              !.attempt = IF call[c].replays THEN @ + 1 ELSE @,
                              !.alone = @ /\ works]
             ELSE IF call[d] = NoCall THEN NoCall
             ELSE [call[d] EXCEPT !.alone = FALSE]]
    /\ UNCHANGED spent

\* Wrong variant: the index runs past the last key.
WriteIndexPast(c) == WriteNext(c, call[c].old + 1)

WriteIndex(c) == WriteNext(c, (call[c].old + 1) % NumKeys)

FailoverNext ==
    \/ \E k \in ApiKeys : SpendQuota(k)
    \/ \E c \in Models :
        \/ \E replays \in BOOLEAN : StartCall(c, replays)
        \/ ChooseKey(c) \/ CallEnds(c) \/ QuotaError(c) \/ MarkExhausted(c) \/ WriteIndex(c)

FailoverSpec == FailoverInit /\ [][FailoverNext]_failoverVars

-----------------------------------------------------------------------------
(* Properties.                                                             *)

\* A call that gives up has tried every key, unless Redis failed it or somebody
\* else moved the index meanwhile: then the index may have jumped over a key.
GivesUpInformed ==
    \A c \in Models :
        call[c].stage = "gaveUp" /\ call[c].alone => call[c].tried = ApiKeys

-----------------------------------------------------------------------------
(* Why it holds: a call that is alone meets the keys in a row, and the index *)
(* is the next of them.                                                      *)

Wrapped(n) == IF n < NumKeys THEN n ELSE n - NumKeys

\* n keys in a row, the first of them s.
Stretch(s, n) == {Wrapped(s + i) : i \in 0..(n - 1)}

\* The key of the call's attempt, if s was the first.
Turn(c, s) == Wrapped(s + call[c].attempt - 1)

\* The call has tried a stretch of keys from s on, and its turn is the index.
InARow(c, s) ==
    /\ call[c].stage \in {"choose", "try"} =>
        keyIndex = Turn(c, s) /\ call[c].tried = Stretch(s, call[c].attempt - 1)
    /\ call[c].stage \in {"mark", "write"} =>
        keyIndex = Turn(c, s) /\ call[c].tried = Stretch(s, call[c].attempt)
    /\ call[c].stage = "try" => call[c].key = keyIndex
    /\ call[c].stage = "write" => call[c].old = keyIndex
    /\ call[c].stage = "gaveUp" => call[c].tried = Stretch(s, NumKeys)

TriedInARow ==
    \A c \in Models : call[c] # NoCall /\ call[c].alone => \E s \in ApiKeys : InARow(c, s)

\* There is an attempt left for whoever goes on.
AttemptLeft ==
    \A c \in Models :
        call[c] # NoCall /\ call[c].stage \in {"mark", "write"} /\ call[c].replays
            => call[c].attempt < NumKeys

FailoverInv == FailoverTypeOK /\ TriedInARow /\ AttemptLeft

=============================================================================
