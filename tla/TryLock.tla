------------------------------ MODULE TryLock -------------------------------
(***************************************************************************)
(* What a keyed lock promises its callers: a caller that gets the lock of a*)
(* key is the only one that has it until it gives it back or the process   *)
(* goes down; a caller that does not get it at once is turned away.        *)
(***************************************************************************)
CONSTANTS
    Callers,    \* request threads
    Keys,       \* what they work on
    NoCaller

VARIABLE holder     \* who works on each key

LockFree == [k \in Keys |-> NoCaller]

LockTypeOK == holder \in [Keys -> Callers \cup {NoCaller}]

LockInit == holder = LockFree

Take(c, k) ==
    /\ holder[k] = NoCaller
    /\ \A j \in Keys : holder[j] # c
    /\ holder' = [holder EXCEPT ![k] = c]

Give(c, k) ==
    /\ holder[k] = c
    /\ holder' = [holder EXCEPT ![k] = NoCaller]

LockCrash == holder' = LockFree

LockNext ==
    \/ \E c \in Callers, k \in Keys : Take(c, k) \/ Give(c, k)
    \/ LockCrash

LockSpec == LockInit /\ [][LockNext]_holder

=============================================================================
