----------------------------- MODULE MCAutoPush ------------------------------
(* Instance of AutoPush for TLC. *)
EXTENDS AutoPush

=============================================================================
