--------------------------- MODULE MCIngestionJobs ---------------------------
(* Instances of IngestionJobs for TLC: two or all files hold the same text. *)
EXTENDS IngestionJobs, TLC

CONSTANTS j1, j2, t1, t2

TwoAlike == [j \in Jobs |-> IF j \in {j1, j2} THEN t1 ELSE t2]
AllAlike == [j \in Jobs |-> t1]
Symmetry == Permutations(Workers) \cup Permutations({j1, j2})
AllSymmetry == Permutations(Workers) \cup Permutations(Jobs)

=============================================================================
