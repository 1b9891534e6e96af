---------------------------- MODULE MCComfyEngine ----------------------------
(* The engine lifecycle on small instances: which producers, operations and   *)
(* faults an instance has is given in its configuration.                      *)
EXTENDS ComfyEngine
=============================================================================
