---------------------------- MODULE MCOccupancy ----------------------------
(* A row of three chunk positions, two of which fit the texture.           *)
EXTENDS Occupancy

MCPos == 0 .. 2
MCWindows == {0 .. 1, 1 .. 2}
=============================================================================
