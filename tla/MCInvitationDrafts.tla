------------------------- MODULE MCInvitationDrafts -------------------------
(* Instances of InvitationDrafts for TLC. *)
EXTENDS InvitationDrafts, TLC

Symmetry == Permutations(Callers) \cup Permutations(Texts) \cup Permutations(Fingerprints)

=============================================================================
