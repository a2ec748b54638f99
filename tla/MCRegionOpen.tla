---------------------------- MODULE MCRegionOpen ----------------------------
EXTENDS RegionOpen
=============================================================================
