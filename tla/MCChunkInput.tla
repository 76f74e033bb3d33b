---------------------------- MODULE MCChunkInput ----------------------------
(* Instances of ChunkInput for TLC. *)
EXTENDS ChunkInput

=============================================================================
