---------------------------- MODULE MCSystemState ----------------------------
(***************************************************************************)
(* Small instances of SystemState: int has 8 bits (the least width that    *)
(* holds every percentage), and the counters advance in coarse strides.    *)
(***************************************************************************)
EXTENDS SystemState

(* A load, and the values that take it back (-1) or that are no load (-5). *)
MCForcedLoads == {50, -1, -5}
=============================================================================
