------------------------------ MODULE MCRelay ------------------------------
(* Instances of Relay for TLC. *)
EXTENDS Relay, TLC

\* Sessions of the same kind are interchangeable.
MCSymmetry ==
    Permutations(Clients \ Hls) \cup Permutations(Relays) \cup Permutations(Names)

=============================================================================
