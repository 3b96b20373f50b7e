------------------------- MODULE MCInvitationOutbox -------------------------
(* Instances of InvitationOutbox for TLC. *)
EXTENDS InvitationOutbox, TLC

CONSTANTS d1, d2, b1, b2, c1, c2, r1, r2

\* Two batches write to one candidate, or to two who share no address.
OneEach == d1 :> b1 @@ d2 :> b2
SharedCandidate == d1 :> c1 @@ d2 :> c1
OwnCandidate == d1 :> c1 @@ d2 :> c2
SameAddress == d1 :> r1 @@ d2 :> r1
OwnAddress == d1 :> r1 @@ d2 :> r2

\* The two batches to one candidate are alike: exchanging both deliveries and both
\* batches leaves the constants as they are.
Swap == d1 :> d2 @@ d2 :> d1 @@ b1 :> b2 @@ b2 :> b1
WithWorkers(f) == {p @@ f : p \in Permutations(Workers)} \cup Permutations(Workers)
Symmetry == WithWorkers(Swap)

=============================================================================
