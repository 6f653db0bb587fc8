---------------------------- MODULE MCPrestarter ----------------------------
(***************************************************************************)
(* Small instances of Prestarter: two applications with different          *)
(* priorities, thresholds, triggers and permissions.                       *)
(***************************************************************************)
EXTENDS Prestarter, TLC

CONSTANTS mail, maps, p1, noPid

MCPriority == (mail :> -1) @@ (maps :> 2)
(* The important application is the one with the stricter threshold, so it *)
(* can block the other at the head of the queue.                           *)
MCThreshold == (mail :> 30) @@ (maps :> 70)
(* With this trigger mail can be shown again while it is scheduled. *)
MCTrigger == (mail :> 0) @@ (maps :> 0)
MCNotAllowed == (mail :> FALSE) @@ (maps :> TRUE)
(* Below both thresholds, between them, and above both; 100 is also the    *)
(* load assumed before the first measurement.                              *)
MCLoads == {10, 50, 100}
(* Only the count of mail is ever compared with a trigger: one release of  *)
(* maps is as good as many.                                                *)
MCReleases == (mail :> 2) @@ (maps :> 1)
(* mail, which can block the queue, can be in it twice. *)
MCQueued == (mail :> 2) @@ (maps :> 1)
=============================================================================
