-------------------------- MODULE MC_HederaLedger --------------------------
(* Small instances of the mirror for TLC. *)
EXTENDS HederaLedger, TLC

\* Sessions are interchangeable.
SessionSymmetry == Permutations(Sessions)
=============================================================================
