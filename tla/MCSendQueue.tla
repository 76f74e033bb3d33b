---------------------------- MODULE MCSendQueue ----------------------------
(* Instances of SendQueue for TLC. *)
EXTENDS SendQueue, TLC

CONSTANTS c1, c2, m1, m2, s1, s2

\* Sizes: a 64-bit size_t is out of TLC's integers; 2^28 leaves the same
\* remainder as 2^64 for the queue lengths used here (4 divides both, and
\* both are 1 modulo 3).
MCSizeMod == 2^28

MCSymmetry == Permutations({c1, c2}) \cup Permutations({s1, s2})

=============================================================================
