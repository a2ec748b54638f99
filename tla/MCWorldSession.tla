--------------------------- MODULE MCWorldSession ---------------------------
(* Instances of WorldSession for TLC.                                      *)
EXTENDS WorldSession

CONSTANTS a, b, x

\* World x is hosted at a and at times at b; at others a world with the seed of
\* the local one is hosted at b.
MCHosted == {<<a, x>>, <<b, x>>, <<b, Local>>}
=============================================================================
