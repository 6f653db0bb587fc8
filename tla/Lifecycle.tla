------------------------------ MODULE Lifecycle ------------------------------
(***************************************************************************)
(* What the prestarting core promises each application, without queue,     *)
(* state machine, CPU load or counters:                                    *)
(*                                                                         *)
(*  - an application that leaves the bus is owed a new start exactly if it *)
(*    has shown a window; being started makes a clean sheet of it;         *)
(*  - only an application that returned from being shown is condemned to   *)
(*    a forced re-prestart;                                                *)
(*  - only a condemned application is signalled, behind a dark screen,     *)
(*    with no window shown, and warned before it is killed.                *)
(*                                                                         *)
(* Module Prestarter implements this specification (LifecycleSpec there).  *)
(***************************************************************************)
CONSTANT Apps

VARIABLES
    stage,      \* where each application is: "away", "ready" or "shown"
    credited,   \* applications that showed a window
    condemned,  \* applications to be re-prestarted by force
    warned,     \* applications that were sent SIGTERM
    killed,     \* applications that were sent SIGKILL
    owed,       \* applications that are to be started
    dark,       \* the screen is blank
    up          \* the daemon runs

sheet == <<credited, condemned, warned, killed>>
lifeVars == <<stage, sheet, owed, dark, up>>

Stages == {"away", "ready", "shown"}

Init ==
    /\ stage = [a \in Apps |-> "away"]
    /\ credited = {}
    /\ condemned = {}
    /\ warned = {}
    /\ killed = {}
    /\ owed = {}
    /\ dark = FALSE
    /\ up = TRUE

CleanSheet(A) ==
    /\ credited' = credited \ A
    /\ condemned' = condemned \ A
    /\ warned' = warned \ A
    /\ killed' = killed \ A

Away(st, a) == {b \in {a} : st[b] = "away"}

(* Applications that nobody spoke of yet are managed from now on; those    *)
(* that run already keep running, but are on the list all the same.        *)
Manage(A) ==
    /\ \A a \in A : stage[a] = "away"
    /\ stage' \in [Apps -> Stages]
    /\ \A a \in Apps \ A : stage'[a] = stage[a]
    /\ credited' = credited \cup {a \in A : stage'[a] = "shown"}
    /\ owed \cup A \subseteq owed'
    /\ UNCHANGED <<condemned, warned, killed, dark, up>>

(* The turn of a has come.  It may be on the list more than once. *)
Start(a) ==
    /\ a \in owed
    /\ owed' \in {owed, owed \ {a}}
    /\ CleanSheet(Away(stage, a))
    /\ UNCHANGED <<stage, dark, up>>

Arrive(a) ==
    /\ stage[a] = "away"
    /\ \E st \in {"ready", "shown"} : stage' = [stage EXCEPT ![a] = st]
    /\ UNCHANGED <<sheet, owed, dark, up>>

Show(A) ==
    /\ stage' = [a \in Apps |->
                   IF a \in A /\ stage[a] = "ready" THEN "shown" ELSE stage[a]]
    /\ credited' = credited \cup A
    /\ UNCHANGED <<condemned, warned, killed, owed, dark, up>>

Return(A) ==
    /\ stage' = [a \in Apps |->
                   IF a \in A /\ stage[a] = "shown" THEN "ready" ELSE stage[a]]
    /\ condemned \subseteq condemned'
    /\ condemned' \subseteq condemned \cup (A \cap credited)
    /\ UNCHANGED <<credited, warned, killed, owed, dark, up>>

(* In the same step the turn of one application may come. *)
Leave(a) ==
    LET due == owed \cup ({a} \cap credited) IN
    /\ stage[a] # "away"
    /\ stage' = [stage EXCEPT ![a] = "away"]
    /\ \/ owed' = due /\ CleanSheet({a})
       \/ \E b \in due : /\ owed' \in {due, due \ {b}}
                         /\ CleanSheet({a} \cup Away(stage', b))
    /\ UNCHANGED <<dark, up>>

(* The processes of the applications in gone had ended before. *)
Strike(A, gone) ==
    /\ dark
    /\ A \subseteq condemned
    /\ \A a \in A : stage[a] # "shown"
    /\ killed' = (killed \cup (A \cap warned)) \ gone
    /\ warned' = (warned \cup A) \ gone
    /\ condemned' = condemned \ gone
    /\ UNCHANGED <<stage, credited, owed, dark, up>>

Screen(b) ==
    /\ dark' = b
    /\ UNCHANGED <<stage, sheet, owed, up>>

(* The end of the daemon: every application is warned, or none is. *)
Terminate ==
    /\ up' = FALSE
    /\ condemned' = {}
    /\ killed' = {}
    /\ warned' \subseteq Apps
    /\ UNCHANGED <<stage, credited, owed, dark>>

Exit ==
    /\ up' = FALSE
    /\ UNCHANGED <<stage, sheet, owed, dark>>

Next ==
    /\ up
    /\ \/ Terminate
       \/ Exit
       \/ \E b \in BOOLEAN : Screen(b)
       \/ \E A \in SUBSET Apps : Manage(A) \/ Show(A) \/ Return(A)
       \/ \E a \in Apps : Start(a) \/ Arrive(a) \/ Leave(a)
       \/ \E A \in SUBSET Apps : \E gone \in SUBSET A : Strike(A, gone)

Spec == Init /\ [][Next]_lifeVars
=============================================================================
