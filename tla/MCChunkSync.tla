---------------------------- MODULE MCChunkSync ----------------------------
(* Instances of ChunkSync for TLC.                                         *)
EXTENDS ChunkSync

\* A position is followed up to its first accident.
NoAccident == raced = {}
=============================================================================
