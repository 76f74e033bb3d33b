------------------------------- MODULE MCLimit -------------------------------
(* Instance of Limit for TLC. *)
EXTENDS Limit, TLC

MCSymmetry == Permutations(Workers) \cup Permutations(Sessions)

=============================================================================
