--------------------------- MODULE MC_RewardService ---------------------------
(* Instances of RewardService small enough for TLC. *)
EXTENDS RewardService, TLC
\* The threshold an owner would ask for, and one that every card has reached.
MCThresholds == {-1, 1}
Interchangeable == Permutations(Users) \cup Permutations(Receipts) \cup Permutations(Sessions)
=============================================================================
