-------------------------- MODULE LifecycleProofs --------------------------
(***************************************************************************)
(* The core implements the life cycle promised by module Lifecycle, for    *)
(* every set of applications and every configuration: each handler is an   *)
(* action of Lifecycle, or leaves what it speaks of alone.  The processes, *)
(* the windows and the bus of Applifed drive the same handlers, so the     *)
(* whole system keeps the promise too.                                     *)
(***************************************************************************)
EXTENDS ApplifedProofs

LifeStep == [Life!Next]_(Life!lifeVars)

(* A step that changes neither records nor queue, screen or daemon.        *)
LEMMA OutOfSight ==
  ASSUME UNCHANGED <<apps, queue, blanked, running>>
  PROVE  LifeStep
  BY DEF LifeStep, Life!lifeVars, Life!sheet

(* What the constructor and the reset of a record leave. *)
Clean(app) ==
    /\ StageOf(app) = "away"
    /\ ~(app.releasedCount > 0)
    /\ ~app.rePrestarting
    /\ ~app.sigTermSent
    /\ ~app.sigKillSent

LEMMA NewAppClean == Clean(NewApp)
  BY DEF Clean, NewApp, StageOf

LEMMA NotPrestartedClean ==
  ASSUME NEW app \in AppRecord
  PROVE  Clean(SetPrestarted(app, FALSE))
  <1> DEFINE down == SetPrestarted(app, FALSE)
  <1>1. /\ ~down.prestarted /\ down.releasedCount = 0
        /\ ~down.rePrestarting /\ ~down.sigTermSent /\ ~down.sigKillSent
    BY SetPrestartedFields
  <1> HIDE DEF down
  <1>2. Clean(down)
    BY <1>1 DEF Clean, StageOf
  <1>3. QED
    BY <1>2 DEF down

LEMMA RequestedClean ==
  ASSUME NEW app \in AppRecord
  PROVE  Clean(Requested(app))
  <1> DEFINE down == SetPrestarted(app, FALSE)
  <1>1. /\ down \in AppRecord
        /\ ~down.prestarted /\ ~down.released /\ down.releasedCount = 0
        /\ ~down.rePrestarting /\ ~down.sigTermSent /\ ~down.sigKillSent
    BY SetPrestartedType, SetPrestartedFields
  <1> HIDE DEF down
  <1>2. Requested(app) = SetPid(SetReleased(down, FALSE), NoPid)
    BY DEF Requested, down
  <1>3. QED
    BY <1>1, <1>2 DEF Clean, StageOf, SetPid, SetReleased, AppRecord

(* The view of one record that Lifecycle has. *)
SameView(new, old) ==
    /\ StageOf(new) = StageOf(old)
    /\ (new.releasedCount > 0) <=> (old.releasedCount > 0)
    /\ new.rePrestarting <=> old.rePrestarting
    /\ new.sigTermSent <=> old.sigTermSent
    /\ new.sigKillSent <=> old.sigKillSent

(* An application that is scheduled for a re-prestart was released. *)
LEMMA ScheduledWasReleased ==
  ASSUME IInv, NEW a \in Apps, apps[a].rePrestarting
  PROVE  apps[a].releasedCount > 0
  <1>1. apps[a] \in AppRecord /\ apps[a].releasedCount > RePrestartTrigger[a]
    BY DEF IInv, AppInv
  <1>2. RePrestartTrigger[a] \in Nat
    BY ConfigAssumption
  <1>3. apps[a].releasedCount \in Nat
    BY <1>1 DEF AppRecord
  <1>4. QED
    BY <1>1, <1>2, <1>3

Unused(app) ==
    /\ app.releasedCount = 0
    /\ ~app.rePrestarting
    /\ ~app.sigTermSent
    /\ ~app.sigKillSent

(* The record of an application that was found running already. *)
LEMMA KnownApp ==
  ASSUME NEW pid \in Pids \cup {NoPid}
  PROVE  LET known == SetReleased(SetPrestarted(SetPid(NewApp, pid), TRUE), FALSE)
         IN  known \in AppRecord /\ known.prestarted /\ ~known.released /\ Unused(known)
  <1> DEFINE new == NewApp
             app == SetPid(new, pid)
             up == SetPrestarted(app, TRUE)
             known == SetReleased(up, FALSE)
  <1>1. new \in AppRecord /\ Unused(new)
    BY NewAppType DEF NewApp, Unused
  <1> HIDE DEF new
  <1>2. app \in AppRecord /\ Unused(app)
    BY <1>1, SetterTypes DEF SetPid, AppRecord, Unused
  <1> HIDE DEF app
  <1>3. up \in AppRecord /\ up.prestarted /\ Unused(up)
    <2>1. up = [app EXCEPT !.prestarted = TRUE]
      BY DEF SetPrestarted
    <2> HIDE DEF up
    <2>2. QED
      BY <1>2, <2>1 DEF AppRecord, Unused
  <1> HIDE DEF up
  <1>4. known \in AppRecord /\ known.prestarted /\ ~known.released /\ Unused(known)
    <2>1. known \in AppRecord /\ ~known.released /\ known.prestarted
          /\ ~known.rePrestarting /\ ~known.sigTermSent /\ ~known.sigKillSent
      BY <1>3, SetterTypes, SetReleasedFields DEF Unused
    <2>2. known.releasedCount = up.releasedCount
      BY <1>3 DEF SetReleased, AppRecord
    <2>3. QED
      BY <1>3, <2>1, <2>2 DEF Unused
  <1>5. QED
    BY <1>4 DEF known, up, app, new

(* The initial state. *)
LEMMA LifeInit == Init => Life!Init
  <1> SUFFICES ASSUME Init PROVE Life!Init
    OBVIOUS
  <1>1. \A a \in Apps : Clean(apps[a]) /\ ~IsQueued(queue, a)
    BY NewAppClean DEF Init, IsQueued
  <1>2. QED
    BY <1>1 DEF Init, Life!Init, Clean

(* Reading the configuration takes the new applications over. *)
LEMMA ManageStep ==
  ASSUME IInv, NEW listed \in SUBSET (Apps \ vectApps),
         NEW named \in BusAnswers(listed), NEW windowed,
         RunPrestarts(listed, named, windowed)
  PROVE  LifeStep
  <1>1. /\ apps' = ReadConfiguration(listed, named, windowed)
        /\ queue' = PushAll(queue, vectApps \cup listed)
        /\ running /\ running' = running /\ blanked' = blanked
    BY DEF RunPrestarts, StateInit, StateWaitForPrestart
  <1>2. \A a \in listed : Clean(apps[a])
    BY NewAppClean DEF IInv, TypeOK
  <1>3. ASSUME NEW a \in listed
        PROVE  /\ StageOf(apps'[a]) \in Life!Stages
               /\ apps'[a].releasedCount > 0 <=> StageOf(apps'[a]) = "shown"
               /\ ~apps'[a].rePrestarting
               /\ ~apps'[a].sigTermSent
               /\ ~apps'[a].sigKillSent
    <2>1. apps'[a] = AddPrestartApp(a, named, windowed)
      BY <1>1, <1>3 DEF ReadConfiguration
    <2>2. CASE named[a] = NoOwner
      BY <2>1, <2>2, NewAppClean DEF AddPrestartApp, Clean, Life!Stages
    <2>3. CASE named[a] # NoOwner
      <3>1. named[a] \in Pids \cup {NoPid}
        BY <2>3 DEF BusAnswers
      <3> DEFINE known == SetReleased(SetPrestarted(SetPid(NewApp, named[a]), TRUE), FALSE)
      <3>2. known \in AppRecord /\ known.prestarted /\ ~known.released /\ Unused(known)
        BY <3>1, KnownApp
      <3> HIDE DEF known
      <3>3. apps'[a] = known \/ apps'[a] = SetReleased(known, TRUE)
        BY <2>1, <2>3 DEF AddPrestartApp, known
      <3>4. CASE apps'[a] = known
        BY <3>2, <3>4 DEF Unused, StageOf, Life!Stages
      <3>5. CASE apps'[a] = SetReleased(known, TRUE)
        <4>1. /\ apps'[a].prestarted /\ apps'[a].released
              /\ apps'[a].releasedCount = 1
              /\ ~apps'[a].rePrestarting /\ ~apps'[a].sigTermSent /\ ~apps'[a].sigKillSent
          BY <3>2, <3>5 DEF SetReleased, AppRecord, Unused
        <4>2. QED
          BY <4>1 DEF StageOf, Life!Stages
      <3>6. QED
        BY <3>3, <3>4, <3>5
    <2>4. QED
      BY <2>2, <2>3
  <1>4. \A a \in Apps \ listed : apps'[a] = apps[a]
    BY <1>1 DEF ReadConfiguration
  <1>5. \A a \in Apps : IsQueued(queue, a) \/ a \in listed => IsQueued(queue', a)
    <2>1. \A a \in Apps : queue[a] \in Nat
      BY DEF IInv, TypeOK
    <2>2. QED
      BY <1>1, <2>1 DEF PushAll, IsQueued
  <1>6. \A a \in Apps : StageOf(apps[a]) \in Life!Stages
    BY DEF StageOf, Life!Stages
  <1>7. Life!Manage(listed)
    BY <1>1, <1>2, <1>3, <1>4, <1>5, <1>6 DEF Life!Manage, Clean
  <1>8. QED
    BY <1>1, <1>7 DEF LifeStep, Life!Next

-----------------------------------------------------------------------------
(***************************************************************************)
(* Runs of the state machine.                                              *)
(***************************************************************************)

(* One run serves at most one entry of the queue. *)
LEMMA RunStateServes ==
  ASSUME NEW ap, NEW q, NEW ld, RunState(ap, q, ld)
  PROVE  \/ apps' = ap /\ queue' = q
         \/ \E top \in Apps : /\ IsQueued(q, top)
                              /\ queue' = Pop(q, top)
                              /\ SendPrestartRequest(ap, top)
  BY DEF RunState, StateWaitForPrestart, StateWaitForCPU, Tops

(* The entry that is served leaves the queue, or another one of it stays. *)
LEMMA OwedAfterPop ==
  ASSUME NEW q \in [Apps -> Nat], NEW top \in Apps, queue' = Pop(q, top)
  PROVE  {a \in Apps : IsQueued(queue', a)} \in
            { {a \in Apps : IsQueued(q, a)}, {a \in Apps : IsQueued(q, a)} \ {top} }
  <1>1. queue' = [q EXCEPT ![top] = q[top] - 1]
    BY DEF Pop
  <1>2. \A a \in Apps \ {top} : IsQueued(queue', a) <=> IsQueued(q, a)
    BY <1>1 DEF IsQueued
  <1>3. IsQueued(queue', top) => IsQueued(q, top)
    BY <1>1 DEF IsQueued
  <1>4. QED
    BY <1>2, <1>3

(* What a request leaves of the records. *)
LEMMA RequestRecords ==
  ASSUME NEW ap \in [Apps -> AppRecord], NEW top \in Apps, SendPrestartRequest(ap, top)
  PROVE  /\ \A a \in Apps \ {top} : apps'[a] = ap[a]
         /\ \/ ap[top].prestarted /\ apps'[top] = ap[top]
            \/ ~ap[top].prestarted /\ Clean(apps'[top])
  BY RequestedClean DEF SendPrestartRequest

(* A new CPU load: the turn of one application comes, or of none. *)
LEMMA StartStep ==
  ASSUME IInv, NEW l \in Loads, UpdateCPULoad(l)
  PROVE  LifeStep
  <1>1. RunState(apps, queue, l) /\ running /\ UNCHANGED <<blanked, running>>
    BY DEF UpdateCPULoad, Listening
  <1>2. apps \in [Apps -> AppRecord] /\ queue \in [Apps -> Nat]
    BY DEF IInv, TypeOK
  <1>3. CASE apps' = apps /\ queue' = queue
    BY <1>1, <1>3, OutOfSight
  <1>4. ASSUME NEW top \in Apps, IsQueued(queue, top), queue' = Pop(queue, top),
               SendPrestartRequest(apps, top)
        PROVE  LifeStep
    <2>1. {a \in Apps : IsQueued(queue', a)} \in
             { {a \in Apps : IsQueued(queue, a)}, {a \in Apps : IsQueued(queue, a)} \ {top} }
      BY <1>2, <1>4, OwedAfterPop
    <2>2. /\ \A a \in Apps \ {top} : apps'[a] = apps[a]
          /\ \/ apps[top].prestarted /\ apps'[top] = apps[top]
             \/ ~apps[top].prestarted /\ Clean(apps'[top])
      BY <1>2, <1>4, RequestRecords
    <2>3. StageOf(apps[top]) = "away" <=> ~apps[top].prestarted
      BY DEF StageOf
    <2>4. Life!Start(top)
      BY <1>1, <1>4, <2>1, <2>2, <2>3 DEF Life!Start, Life!CleanSheet, Life!Away, Clean
    <2>5. QED
      BY <1>1, <2>4 DEF LifeStep, Life!Next
  <1>5. QED
    BY <1>1, <1>3, <1>4, RunStateServes

(* A registration. *)
LEMMA ArriveStep ==
  ASSUME IInv, NEW a \in Apps, NEW pid \in Pids \cup {NoPid},
         HandleRegisteredService(a, pid)
  PROVE  LifeStep
  <1>1. running /\ UNCHANGED <<queue, blanked, running>>
    BY DEF HandleRegisteredService, machineVars, Listening
  <1>2. apps \in [Apps -> AppRecord]
    BY DEF IInv, TypeOK
  <1>3. CASE apps[a].prestarted
    BY <1>1, <1>3, OutOfSight DEF HandleRegisteredService
  <1>4. CASE ~apps[a].prestarted
    <2> DEFINE app == SetPid(apps[a], pid)
               up == SetPrestarted(app, TRUE)
    <2>1. /\ app.released = apps[a].released
          /\ app.releasedCount = apps[a].releasedCount
          /\ app.rePrestarting = apps[a].rePrestarting
          /\ app.sigTermSent = apps[a].sigTermSent
          /\ app.sigKillSent = apps[a].sigKillSent
          /\ app \in AppRecord
      BY <1>2, SetterTypes DEF SetPid, AppRecord
    <2>2. apps' = [apps EXCEPT ![a] = up]
      BY <1>4 DEF HandleRegisteredService
    <2> HIDE DEF app
    <2>3. up = [app EXCEPT !.prestarted = TRUE]
      BY DEF SetPrestarted
    <2> HIDE DEF up
    <2>4. /\ up.prestarted
          /\ (up.releasedCount > 0) = (apps[a].releasedCount > 0)
          /\ up.rePrestarting = apps[a].rePrestarting
          /\ up.sigTermSent = apps[a].sigTermSent
          /\ up.sigKillSent = apps[a].sigKillSent
      BY <2>1, <2>3 DEF AppRecord
    <2>5. apps'[a] = up /\ \A b \in Apps \ {a} : apps'[b] = apps[b]
      BY <1>2, <2>2
    <2>6. StageOf(apps[a]) = "away" /\ StageOf(up) \in {"ready", "shown"}
      BY <1>4, <2>4 DEF StageOf
    <2>7. Life!Arrive(a)
      BY <1>1, <2>4, <2>5, <2>6 DEF Life!Arrive, Life!sheet
    <2>8. QED
      BY <1>1, <2>7 DEF LifeStep, Life!Next
  <1>5. QED
    BY <1>3, <1>4

(* An unregistration, and the turn of one application that it may bring.   *)
LEMMA LeaveStep ==
  ASSUME IInv, NEW a \in Apps, HandleUnregisteredService(a)
  PROVE  LifeStep
  <1>1. running /\ a \in vectApps /\ UNCHANGED <<blanked, running>>
    BY DEF HandleUnregisteredService, Listening
  <1>2. apps \in [Apps -> AppRecord] /\ queue \in [Apps -> Nat]
    BY DEF IInv, TypeOK
  <1>3. CASE ~apps[a].prestarted
    BY <1>1, <1>3, OutOfSight DEF HandleUnregisteredService, machineVars
  <1>4. CASE apps[a].prestarted
    <2> DEFINE ap == UnregisteredRecords(a)
               q == UnregisteredQueue(a)
               due == {b \in Apps : IsQueued(queue, b)}
                        \cup ({a} \cap {b \in Apps : apps[b].releasedCount > 0})
    <2>1. RunState(ap, q, load)
      BY <1>4 DEF HandleUnregisteredService, UnregisteredRecords, UnregisteredQueue,
                  Unregistered
    <2>2. /\ ap \in [Apps -> AppRecord] /\ q \in [Apps -> Nat]
          /\ \A b \in Apps \ {a} : ap[b] = apps[b]
      BY <1>1, UnregisteredHanded DEF Handed
    <2>3. Clean(ap[a])
      <3>1. Unregistered(a) \in AppRecord
        BY <1>2, SetterTypes DEF Unregistered
      <3>2. ap[a] = SetPrestarted(Unregistered(a), FALSE)
        BY <1>2 DEF UnregisteredRecords
      <3>3. QED
        BY <3>1, <3>2, NotPrestartedClean
    <2>4. {b \in Apps : IsQueued(q, b)} = due
      <3>1. /\ Unregistered(a).rePrestarting = apps[a].rePrestarting
            /\ Unregistered(a).releasedCount = apps[a].releasedCount
        BY <1>2 DEF Unregistered, SetReleased, AppRecord
      <3>2. q = IF apps[a].releasedCount > 0 THEN Push(queue, a) ELSE queue
        BY <3>1, ScheduledWasReleased DEF UnregisteredQueue
      <3> HIDE DEF q
      <3>3. CASE apps[a].releasedCount > 0
        <4>1. q = [queue EXCEPT ![a] = queue[a] + 1]
          BY <3>2, <3>3 DEF Push
        <4>2. QED
          BY <1>2, <3>3, <4>1 DEF IsQueued
      <3>4. CASE ~(apps[a].releasedCount > 0)
        BY <3>2, <3>4
      <3>5. QED
        BY <3>3, <3>4
    <2>5. StageOf(apps[a]) # "away"
      BY <1>4 DEF StageOf
    <2> HIDE DEF ap, q
    <2>6. CASE apps' = ap /\ queue' = q
      <3>1. [b \in Apps |-> StageOf(apps[b])]' =
              [[b \in Apps |-> StageOf(apps[b])] EXCEPT ![a] = "away"]
        BY <2>2, <2>3, <2>6 DEF Clean
      <3>2. Life!CleanSheet({a})
        BY <2>2, <2>3, <2>6 DEF Life!CleanSheet, Clean
      <3>3. {b \in Apps : IsQueued(queue', b)} = due
        BY <2>4, <2>6
      <3>4. Life!Leave(a)
        BY <1>1, <2>5, <3>1, <3>2, <3>3 DEF Life!Leave
      <3>5. QED
        BY <1>1, <3>4 DEF LifeStep, Life!Next
    <2>7. ASSUME NEW top \in Apps, IsQueued(q, top), queue' = Pop(q, top),
                 SendPrestartRequest(ap, top)
          PROVE  LifeStep
      <3>1. /\ {b \in Apps : IsQueued(queue', b)} \in {due, due \ {top}}
            /\ top \in due
        BY <2>2, <2>4, <2>7, OwedAfterPop
      <3>2. /\ \A b \in Apps \ {top} : apps'[b] = ap[b]
            /\ \/ ap[top].prestarted /\ apps'[top] = ap[top]
               \/ ~ap[top].prestarted /\ Clean(apps'[top])
        BY <2>2, <2>7, RequestRecords
      <3>3. \A b \in Apps : StageOf(apps'[b]) = StageOf(ap[b])
        BY <3>2 DEF Clean, StageOf
      <3>4. StageOf(ap[top]) = "away" <=> ~ap[top].prestarted
        BY DEF StageOf
      <3>5. Clean(apps'[a])
        BY <2>3, <3>2
      <3>6. [b \in Apps |-> StageOf(apps[b])]' =
              [[b \in Apps |-> StageOf(apps[b])] EXCEPT ![a] = "away"]
        BY <2>2, <2>3, <3>3 DEF Clean
      <3>7. PICK S \in SUBSET Apps : S = {a} \cup {b \in {top} : StageOf(apps'[b]) = "away"}
        OBVIOUS
      <3>8. Life!CleanSheet(S)
        BY <2>2, <3>2, <3>3, <3>4, <3>5, <3>7 DEF Life!CleanSheet, Clean
      <3>9. {a} \cup Life!Away([b \in Apps |-> StageOf(apps[b])]', top) = S
        BY <3>7 DEF Life!Away
      <3>10. Life!Leave(a)
        BY <1>1, <2>5, <3>1, <3>6, <3>8, <3>9 DEF Life!Leave, Life!CleanSheet
      <3>11. QED
        BY <1>1, <3>10 DEF LifeStep, Life!Next
    <2>8. QED
      BY <2>1, <2>6, <2>7, RunStateServes
  <1>5. QED
    BY <1>3, <1>4

-----------------------------------------------------------------------------
(***************************************************************************)
(* Windows, screen, signals.                                               *)
(***************************************************************************)

(* A window is shown: every application it concerns is credited. *)
LEMMA ShowStep ==
  ASSUME IInv, NEW pid \in Pids \cup {NoPid}, ReleasedPrestart(pid)
  PROVE  LifeStep
  <1>0. PICK A \in SUBSET vectApps :
           A = {a \in vectApps : ~apps[a].released /\ Concerns(apps[a], pid)}
    OBVIOUS
  <1>1. running /\ UNCHANGED <<queue, blanked, running>>
    BY DEF ReleasedPrestart, machineVars, Listening
  <1>2. apps \in [Apps -> AppRecord] /\ A \in SUBSET Apps
    BY <1>0 DEF IInv, TypeOK
  <1>3. ASSUME NEW a \in A
        PROVE  /\ StageOf(apps'[a]) = IF StageOf(apps[a]) = "ready" THEN "shown"
                                      ELSE StageOf(apps[a])
               /\ apps'[a].releasedCount > 0
               /\ apps'[a].rePrestarting = apps[a].rePrestarting
               /\ apps'[a].sigTermSent = apps[a].sigTermSent
               /\ apps'[a].sigKillSent = apps[a].sigKillSent
    <2> DEFINE app == SetReleased(apps[a], TRUE)
    <2>1. apps'[a] = app /\ ~apps[a].released
      BY <1>0, <1>2 DEF ReleasedPrestart
    <2>2. app.releasedCount = apps[a].releasedCount + 1
      BY <1>2, <2>1 DEF SetReleased, AppRecord
    <2>3. /\ app.released = TRUE
          /\ app.prestarted = apps[a].prestarted
          /\ app.rePrestarting = apps[a].rePrestarting
          /\ app.sigTermSent = apps[a].sigTermSent
          /\ app.sigKillSent = apps[a].sigKillSent
      BY <1>2, SetReleasedFields
    <2>4. apps[a].releasedCount \in Nat /\ apps[a].prestarted \in BOOLEAN
      BY <1>2 DEF AppRecord
    <2> HIDE DEF app
    <2>5. CASE apps[a].prestarted
      BY <2>1, <2>2, <2>3, <2>4, <2>5 DEF StageOf
    <2>6. CASE ~apps[a].prestarted
      BY <2>1, <2>2, <2>3, <2>4, <2>6 DEF StageOf
    <2>7. QED
      BY <2>5, <2>6
  <1>4. \A a \in Apps \ A : apps'[a] = apps[a]
    BY <1>0 DEF ReleasedPrestart
  <1>5. Life!Show(A)
    BY <1>1, <1>2, <1>3, <1>4 DEF Life!Show
  <1>6. QED
    BY <1>1, <1>2, <1>5 DEF LifeStep, Life!Next

(* A window goes: the applications that returned too often are condemned. *)
LEMMA ReturnStep ==
  ASSUME IInv, NEW pid \in Pids \cup {NoPid}, RestoredPrestart(pid)
  PROVE  LifeStep
  <1>0. PICK A \in SUBSET vectApps :
           A = {a \in vectApps : apps[a].released /\ Concerns(apps[a], pid)}
    OBVIOUS
  <1>1. running /\ UNCHANGED <<queue, blanked, running>>
    BY DEF RestoredPrestart, machineVars, Listening
  <1>2. apps \in [Apps -> AppRecord] /\ A \in SUBSET Apps
    BY <1>0 DEF IInv, TypeOK
  <1>3. ASSUME NEW a \in A
        PROVE  /\ StageOf(apps'[a]) = IF StageOf(apps[a]) = "shown" THEN "ready"
                                      ELSE StageOf(apps[a])
               /\ apps'[a].releasedCount = apps[a].releasedCount
               /\ apps[a].rePrestarting => apps'[a].rePrestarting
               /\ apps'[a].rePrestarting => \/ apps[a].rePrestarting
                                            \/ apps[a].releasedCount > 0
               /\ apps'[a].sigTermSent = apps[a].sigTermSent
               /\ apps'[a].sigKillSent = apps[a].sigKillSent
    <2> DEFINE back == SetReleased(apps[a], FALSE)
    <2>1. apps'[a] = Restored(a, apps[a])
      BY <1>0, <1>2 DEF RestoredPrestart
    <2>2. /\ back \in AppRecord
          /\ back.released = FALSE
          /\ back.prestarted = apps[a].prestarted
          /\ back.rePrestarting = apps[a].rePrestarting
          /\ back.sigTermSent = apps[a].sigTermSent
          /\ back.sigKillSent = apps[a].sigKillSent
      BY <1>2, SetterTypes, SetReleasedFields
    <2>3. back.releasedCount = apps[a].releasedCount /\ apps[a].releasedCount \in Nat
      BY <1>2 DEF SetReleased, AppRecord
    <2>4. RePrestartTrigger[a] \in Nat
      BY <1>2, ConfigAssumption
    <2>5. \/ apps'[a] = back
          \/ /\ apps'[a] = SetRePrestarting(back, TRUE)
             /\ back.releasedCount > RePrestartTrigger[a]
      BY <2>1 DEF Restored
    <2> HIDE DEF back
    <2>6. CASE apps'[a] = back
      <3>1. apps[a].prestarted \in BOOLEAN /\ apps[a].released
        BY <1>0, <1>2 DEF AppRecord
      <3>2. CASE apps[a].prestarted
        BY <2>2, <2>3, <2>6, <3>1, <3>2 DEF StageOf
      <3>3. CASE ~apps[a].prestarted
        BY <2>2, <2>3, <2>6, <3>1, <3>3 DEF StageOf
      <3>4. QED
        BY <3>1, <3>2, <3>3
    <2>7. CASE /\ apps'[a] = SetRePrestarting(back, TRUE)
               /\ back.releasedCount > RePrestartTrigger[a]
      <3>1. /\ apps'[a].released = FALSE
            /\ apps'[a].prestarted = apps[a].prestarted
            /\ apps'[a].releasedCount = apps[a].releasedCount
            /\ apps'[a].rePrestarting = TRUE
            /\ apps'[a].sigTermSent = apps[a].sigTermSent
            /\ apps'[a].sigKillSent = apps[a].sigKillSent
        BY <2>2, <2>3, <2>7 DEF SetRePrestarting, AppRecord
      <3>2. apps[a].prestarted \in BOOLEAN /\ apps[a].released
        BY <1>0, <1>2 DEF AppRecord
      <3>3. apps[a].releasedCount > 0
        BY <2>3, <2>4, <2>7
      <3>4. StageOf(apps'[a]) = IF StageOf(apps[a]) = "shown" THEN "ready"
                                ELSE StageOf(apps[a])
        <4>1. CASE apps[a].prestarted
          BY <3>1, <3>2, <4>1 DEF StageOf
        <4>2. CASE ~apps[a].prestarted
          BY <3>1, <3>2, <4>2 DEF StageOf
        <4>3. QED
          BY <3>2, <4>1, <4>2
      <3>5. QED
        BY <3>1, <3>3, <3>4
    <2>8. QED
      BY <2>5, <2>6, <2>7
  <1>4. \A a \in Apps \ A : apps'[a] = apps[a]
    BY <1>0 DEF RestoredPrestart
  <1>5. Life!Return(A)
    BY <1>1, <1>2, <1>3, <1>4 DEF Life!Return
  <1>6. QED
    BY <1>1, <1>2, <1>5 DEF LifeStep, Life!Next

(* The screen goes blank or comes back. *)
LEMMA ScreenStep ==
  ASSUME NEW newState \in BOOLEAN, HandleScreenBlanked(newState)
  PROVE  LifeStep
  <1>1. Life!Screen(newState)
    BY DEF HandleScreenBlanked, machineVars, Life!Screen, Life!sheet
  <1>2. QED
    BY <1>1 DEF HandleScreenBlanked, Listening, LifeStep, Life!Next

(* What killApp does to one record. *)
LEMMA KillAppFields ==
  ASSUME NEW app \in AppRecord, NEW gone \in SUBSET Pids
  PROVE  LET new == KillApp(app, gone)
         IN  /\ StageOf(new) = StageOf(app)
             /\ new.releasedCount = app.releasedCount
             /\ new.rePrestarting <=> app.rePrestarting /\ app.pid \notin gone
             /\ app.pid \notin gone =>
                  /\ new.sigTermSent
                  /\ new.sigKillSent <=> app.sigKillSent \/ app.sigTermSent
             /\ app.pid \in gone => ~new.sigTermSent /\ ~new.sigKillSent
  <1> DEFINE tried == IF app.sigTermSent THEN [app EXCEPT !.sigKillSent = TRUE]
                      ELSE [app EXCEPT !.sigTermSent = TRUE]
             new == KillApp(app, gone)
  <1>1. /\ tried \in AppRecord
        /\ tried.released = app.released /\ tried.prestarted = app.prestarted
        /\ tried.releasedCount = app.releasedCount
        /\ tried.rePrestarting = app.rePrestarting
        /\ tried.sigTermSent = TRUE
        /\ tried.sigKillSent <=> app.sigKillSent \/ app.sigTermSent
    BY DEF AppRecord
  <1> HIDE DEF tried
  <1>2. CASE app.pid \in gone
    <2>1. new = SetRePrestarting(tried, FALSE)
      BY <1>2 DEF KillApp, tried
    <2> HIDE DEF new
    <2>2. /\ new.released = app.released /\ new.prestarted = app.prestarted
          /\ new.releasedCount = app.releasedCount
          /\ ~new.rePrestarting /\ ~new.sigTermSent /\ ~new.sigKillSent
      BY <1>1, <2>1 DEF SetRePrestarting, AppRecord
    <2>3. QED
      BY <1>2, <2>2 DEF StageOf, new
  <1>3. CASE app.pid \notin gone
    <2>1. new = tried
      BY <1>3 DEF KillApp, tried
    <2>2. QED
      BY <1>1, <1>3, <2>1 DEF StageOf, AppRecord
  <1>4. QED
    BY <1>2, <1>3

(* The timeout: condemned applications that show no window are signalled.  *)
LEMMA StrikeStep ==
  ASSUME IInv, NEW gone \in SUBSET Pids, TriggerForcedRePrestarts(gone)
  PROVE  LifeStep
  <1>1. running /\ blanked /\ UNCHANGED <<queue, blanked, running>>
    BY DEF TriggerForcedRePrestarts, machineVars, Listening, IInv
  <1>2. apps \in [Apps -> AppRecord] /\ vectApps \subseteq Apps
    BY DEF IInv, TypeOK
  <1>3. PICK A \in SUBSET Apps :
           A = {a \in vectApps : apps[a].rePrestarting /\ ~apps[a].released}
    BY <1>2
  <1>4. PICK G \in SUBSET A : G = {a \in A : apps[a].pid \in gone}
    OBVIOUS
  <1>5. ASSUME NEW a \in A
        PROVE  /\ StageOf(apps'[a]) = StageOf(apps[a])
               /\ apps'[a].releasedCount = apps[a].releasedCount
               /\ apps'[a].rePrestarting <=> a \notin G
               /\ apps'[a].sigTermSent <=> a \notin G
               /\ apps'[a].sigKillSent <=>
                    a \notin G /\ (apps[a].sigKillSent \/ apps[a].sigTermSent)
    <2>1. apps[a] \in AppRecord /\ apps'[a] = KillApp(apps[a], gone)
      BY <1>2, <1>3 DEF TriggerForcedRePrestarts
    <2>2. apps[a].rePrestarting /\ (a \in G <=> apps[a].pid \in gone)
      BY <1>3, <1>4
    <2> DEFINE new == KillApp(apps[a], gone)
    <2>3. /\ StageOf(new) = StageOf(apps[a])
          /\ new.releasedCount = apps[a].releasedCount
          /\ new.rePrestarting <=> a \notin G
          /\ a \notin G => /\ new.sigTermSent
                           /\ new.sigKillSent <=> apps[a].sigKillSent \/ apps[a].sigTermSent
          /\ a \in G => ~new.sigTermSent /\ ~new.sigKillSent
      BY <2>1, <2>2, KillAppFields, Zenon
    <2> HIDE DEF new
    <2>4. apps'[a] = new
      BY <2>1 DEF new
    <2>5. QED
      BY <2>3, <2>4
  <1>6. \A a \in Apps \ A : apps'[a] = apps[a]
    BY <1>3 DEF TriggerForcedRePrestarts
  <1>7. \A a \in A : StageOf(apps[a]) # "shown" /\ apps[a].rePrestarting
    BY <1>3 DEF StageOf
  <1>8. Life!Strike(A, G)
    BY <1>1, <1>5, <1>6, <1>7 DEF Life!Strike
  <1>9. QED
    BY <1>1, <1>8 DEF LifeStep, Life!Next

(* The end of the daemon: the schedules go, every application is warned.   *)
LEMMA EndStep ==
  ASSUME IInv, NEW gone \in SUBSET Pids, KillPrestartedApplications(gone)
  PROVE  LifeStep
  <1>1. running /\ running' = FALSE /\ UNCHANGED <<queue, blanked>>
    BY DEF KillPrestartedApplications, machineVars, Listening
  <1>2. ASSUME NEW a \in Apps
        PROVE  /\ StageOf(apps'[a]) = StageOf(apps[a])
               /\ apps'[a].releasedCount = apps[a].releasedCount
               /\ ~apps'[a].rePrestarting /\ ~apps'[a].sigKillSent
    <2>1. apps[a] \in AppRecord
      BY DEF IInv, TypeOK
    <2>2. CASE a \in vectApps
      <3> DEFINE calm == SetRePrestarting(apps[a], FALSE)
                 new == KillApp(calm, gone)
      <3>1. calm \in AppRecord
        BY <2>1, SetterTypes
      <3>2. /\ StageOf(calm) = StageOf(apps[a])
            /\ calm.releasedCount = apps[a].releasedCount
            /\ ~calm.rePrestarting /\ ~calm.sigTermSent /\ ~calm.sigKillSent
        BY <2>1 DEF SetRePrestarting, AppRecord, StageOf
      <3> HIDE DEF calm
      <3>3. /\ StageOf(new) = StageOf(calm)
            /\ new.releasedCount = calm.releasedCount
            /\ ~new.rePrestarting /\ ~new.sigKillSent
        BY <3>1, <3>2, KillAppFields, Zenon
      <3> HIDE DEF new
      <3>4. apps'[a] = new
        BY <2>2 DEF KillPrestartedApplications, new, calm
      <3>5. QED
        BY <3>2, <3>3, <3>4
    <2>3. CASE a \notin vectApps
      <3>1. apps[a] = NewApp /\ apps'[a] = apps[a]
        BY <2>3 DEF IInv, TypeOK, KillPrestartedApplications
      <3>2. QED
        BY <3>1, NewAppClean DEF Clean
    <2>4. QED
      BY <2>2, <2>3
  <1>3. Life!Terminate
    BY <1>1, <1>2 DEF Life!Terminate
  <1>4. QED
    BY <1>1, <1>3 DEF LifeStep, Life!Next

(* The daemon leaves without touching the applications. *)
LEMMA ExitStep ==
  ASSUME running, running' = FALSE, UNCHANGED <<apps, queue, blanked>>
  PROVE  LifeStep
  <1>1. Life!Exit
    BY DEF Life!Exit, Life!sheet
  <1>2. QED
    BY <1>1 DEF LifeStep, Life!Next

-----------------------------------------------------------------------------
(* Every step of the core is a step of the life cycle or leaves it alone.  *)
LEMMA CoreStep == IInv /\ [Next]_vars => LifeStep
  <1> SUFFICES ASSUME IInv, [Next]_vars PROVE LifeStep
    OBVIOUS
  <1>1. CASE UNCHANGED vars
    BY <1>1, OutOfSight DEF vars
  <1>2. ASSUME NEW listed \in SUBSET (Apps \ vectApps),
               NEW named \in BusAnswers(listed),
               NEW windowed \in SUBSET Pids,
               RunPrestarts(listed, named, windowed)
        PROVE  LifeStep
    BY <1>2, ManageStep
  <1>3. CASE RunPrestartsFails \/ ExitTestMode
    BY <1>3, ExitStep DEF RunPrestartsFails, ExitTestMode, Listening, machineVars
  <1>4. ASSUME NEW a \in Apps, NEW hadOwner \in BOOLEAN, NEW hasOwner \in BOOLEAN,
               NEW pid \in Pids \cup {NoPid},
               HandleServiceOwnerChange(a, hadOwner, hasOwner, pid)
        PROVE  LifeStep
    BY <1>1, <1>4, ArriveStep, LeaveStep DEF HandleServiceOwnerChange
  <1>5. ASSUME NEW l \in Loads, UpdateCPULoad(l) PROVE LifeStep
    BY <1>5, StartStep
  <1>6. ASSUME NEW pid \in Pids \cup {NoPid},
               ReleasedPrestart(pid) \/ RestoredPrestart(pid)
        PROVE  LifeStep
    BY <1>6, ShowStep, ReturnStep
  <1>7. ASSUME NEW newState \in BOOLEAN, HandleScreenBlanked(newState) PROVE LifeStep
    BY <1>7, ScreenStep
  <1>8. ASSUME NEW gone \in SUBSET Pids,
               TriggerForcedRePrestarts(gone) \/ KillPrestartedApplications(gone)
        PROVE  LifeStep
    BY <1>8, StrikeStep, EndStep
  <1>9. ASSUME NEW a \in Apps, AnswerPing(a) PROVE LifeStep
    BY <1>9, OutOfSight DEF AnswerPing
  <1>10. QED
    BY <1>1, <1>2, <1>3, <1>4, <1>5, <1>6, <1>7, <1>8, <1>9 DEF Next, Step

(* The core implements the life cycle: an application that leaves the bus  *)
(* is owed a start exactly if it showed a window, only applications that   *)
(* returned are condemned, and only condemned ones are signalled.          *)
THEOREM PrestarterImplementsLifecycle == Spec => LifecycleSpec
  BY LifeInit, CoreStep, IInvAlways, PTL DEF Spec, LifecycleSpec, Life!Spec, LifeStep

(* So does the daemon among real processes: whatever the bus, the X server *)
(* and the applications do, the life cycle of every service is the one     *)
(* Lifecycle promises.                                                     *)
THEOREM SystemImplementsLifecycle == SystemSpec => LifecycleSpec
  BY SystemRefinesPrestarter, PrestarterImplementsLifecycle, PTL DEF PrestarterSpec
=============================================================================
