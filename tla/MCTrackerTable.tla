--------------------------- MODULE MCTrackerTable ---------------------------
(* TrackerTable for TLC: the regions are interchangeable.                  *)
EXTENDS TrackerTable, TLC

RegionSymmetry == Permutations(Regions)
=============================================================================
