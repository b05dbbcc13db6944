----------------------------- MODULE MCSpeedAxis ----------------------------
(***************************************************************************)
(* An instance of SpeedAxis with two interfaces that nothing tells apart,  *)
(* a speed that fits the least height of the axis and one that does not.   *)
(***************************************************************************)
EXTENDS SpeedAxis, TLC

Symmetry == Permutations(Interfaces)
=============================================================================
