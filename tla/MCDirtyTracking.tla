--------------------------- MODULE MCDirtyTracking ---------------------------
(* Instances of DirtyTracking for TLC.                                     *)
EXTENDS DirtyTracking

\* Two origins whose textures overlap in part.
Leaving == CHOOSE p \in Pos : TRUE
MovingWindows == {Pos, Pos \ {Leaving}}
=============================================================================
