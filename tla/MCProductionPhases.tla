-------------------------- MODULE MCProductionPhases --------------------------
(***************************************************************************)
(* Five phases stand for the eight: the script, one planning phase, the    *)
(* images, the videos, and the phase behind the picture lock.              *)
(***************************************************************************)
EXTENDS ProductionPhases, TLC

MCPlanningPhases == {2}
RequestSymmetry == Permutations(Requests)
=============================================================================
