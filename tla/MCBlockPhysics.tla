--------------------------- MODULE MCBlockPhysics ---------------------------
(* Instances of BlockPhysics for TLC.                                      *)
EXTENDS BlockPhysics

\* A world from its two columns, given from the ground up.
Columns(left, right) == [p \in Cells |-> (IF p[1] = 0 THEN left ELSE right)[p[2] + 1]]

\* A torch on a tree on sand, the player beside it on the leaves; and a taller
\* tree, more than can fall at once, below sand, its leaves above the player; and
\* two logs with leaves between them, the upper one out of reach of a check if
\* the lower leaves break.
MCScenes ==
    {[world |-> Columns(<<"stone", "sand", "log", "torch", "air">>,
                        <<"stone", "stone", "leaves", "air", "air">>),
      feet  |-> <<1, 3>>, edits |-> 2],
     [world |-> Columns(<<"stone", "sand", "log", "log", "sand">>,
                        <<"stone", "air", "air", "leaves", "air">>),
      feet  |-> <<1, 1>>, edits |-> 1],
     [world |-> Columns(<<"stone", "log", "leaves", "leaves", "log">>,
                        <<"stone", "air", "air", "air", "air">>),
      feet  |-> <<1, 1>>, edits |-> 1]}
=============================================================================
