-------------------------- MODULE MCOpsExperiments --------------------------
(* Instances of OpsExperiments for TLC: one proposal touches retrieval. *)
EXTENDS OpsExperiments, TLC

CONSTANTS p1, p2, p3

LastDiffers == [p \in Proposals |-> IF p = p3 THEN 4 ELSE 2]
Symmetry ==
    Permutations(Jobs) \cup Permutations(Admins) \cup Permutations({p1, p2})

=============================================================================
