---------------------------- MODULE MCTimedSweep ----------------------------
(***************************************************************************)
(* The finite instance of TimedSweep: two rooms that come and go, with a   *)
(* sweep every other tick.                                                 *)
(***************************************************************************)
EXTENDS TimedSweep, TLC

CONSTANTS p1, p2

MCDefinition == {{p1}, {p1, p2}}
Symmetry == Permutations(Room) \cup Permutations(Grant)
=============================================================================
