---------------------------- MODULE MCLiveCount -----------------------------
(* Instance of LiveCount for TLC. *)
EXTENDS LiveCount

=============================================================================
