----------------------------- MODULE MCApplifed -----------------------------
(***************************************************************************)
(* Small instances of Applifed: one managed application, two processes.    *)
(***************************************************************************)
EXTENDS Applifed, TLC

CONSTANTS mail, game, radio, clock, lamp, p1, p2, noPid

MCPriority == [a \in Apps |-> 0]
MCThreshold == [a \in Apps |-> 30]
MCTrigger == [a \in Apps |-> 1]
(* With this one a single release is enough for a forced re-prestart. *)
MCEagerTrigger == [a \in Apps |-> 0]
MCNotAllowed == [a \in Apps |-> FALSE]
MCOneRelease == [a \in Apps |-> 1]
MCTwoReleases == [a \in Apps |-> 2]
MCQueued == [a \in Apps |-> 1]
PidSymmetry == Permutations({p1, p2})
=============================================================================
