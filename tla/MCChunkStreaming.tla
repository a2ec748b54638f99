------------------------- MODULE MCChunkStreaming -------------------------
(* Instances of ChunkStreaming for TLC.                                    *)
EXTENDS ChunkStreaming

AllEdits == SUBSET Edits

EditSymmetry == Permutations(Edits)

\* Two origins whose textures share all positions but one.
Leaving == CHOOSE p \in Pos : TRUE
MovingWindows == {Pos, Pos \ {Leaving}}

\* At most one failing write, failing read or mixed-up position: each of them
\* excuses its position for the rest of the behaviour.
OneAccident ==
    Cardinality(misread) + Cardinality(failed) + Cardinality(outrun \cup reasked) <= 1
=============================================================================
