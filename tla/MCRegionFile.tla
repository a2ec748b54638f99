---------------------------- MODULE MCRegionFile ----------------------------
EXTENDS RegionFile, TLC

PosSymmetry == Permutations(Pos)
=============================================================================
