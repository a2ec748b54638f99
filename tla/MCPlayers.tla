----------------------------- MODULE MCPlayers -----------------------------
(* Instances of Players for TLC.                                           *)
EXTENDS Players

RemoteSymmetry == Permutations(Remotes)
=============================================================================
