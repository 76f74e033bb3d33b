------------------------------ MODULE MCNotify ------------------------------
(* Instances of Notify for TLC. *)
EXTENDS Notify, TLC

\* Sessions of the same kind, names and connections are interchangeable.
MCSymmetry ==
    Permutations(Sessions \ (Hls \cup FromRelay)) \cup Permutations(Names) \cup Permutations(Calls)

=============================================================================
