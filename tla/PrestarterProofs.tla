-------------------------- MODULE PrestarterProofs --------------------------
(***************************************************************************)
(* Proofs about Prestarter, for every set of applications and every        *)
(* configuration.                                                          *)
(***************************************************************************)
EXTENDS Prestarter, Sequences, FiniteSets, WellFoundedInduction, TLAPS

(***************************************************************************)
(* The setters of a record.                                                *)
(***************************************************************************)

(* A new record has the type of a record. *)
LEMMA NewAppType == NewApp \in AppRecord
  BY DEF NewApp, AppRecord

(* The setters of PrestartApp return records. *)
LEMMA SetterTypes ==
  ASSUME NEW app \in AppRecord, NEW b \in BOOLEAN, NEW pid \in Pids \cup {NoPid}
  PROVE  /\ SetPid(app, pid) \in AppRecord
         /\ SetReleased(app, b) \in AppRecord
         /\ ResetReleasedCount(app) \in AppRecord
         /\ SetRePrestarting(app, b) \in AppRecord
  <1>1. SetPid(app, pid) \in AppRecord
    BY DEF SetPid, AppRecord
  <1>2. SetReleased(app, b) \in AppRecord
    <2>1. CASE b /\ ~app.released
      <3>1. PICK n \in Nat : n = app.releasedCount + 1
        BY DEF AppRecord
      <3>2. SetReleased(app, b) = [app EXCEPT !.releasedCount = n, !.released = TRUE]
        BY <2>1, <3>1, Zenon DEF SetReleased
      <3>3. QED
        BY <3>2 DEF AppRecord
    <2>2. CASE ~(b /\ ~app.released)
      BY <2>2 DEF SetReleased, AppRecord
    <2>3. QED
      BY <2>1, <2>2
  <1>3. ResetReleasedCount(app) \in AppRecord
    BY DEF ResetReleasedCount, AppRecord
  <1>4. SetRePrestarting(app, b) \in AppRecord
    BY DEF SetRePrestarting, AppRecord
  <1>5. QED
    BY <1>1, <1>2, <1>3, <1>4

(* setPrestarted returns a record. *)
LEMMA SetPrestartedType ==
  ASSUME NEW app \in AppRecord, NEW b \in BOOLEAN
  PROVE  SetPrestarted(app, b) \in AppRecord
  <1>1. SetReleased(ResetReleasedCount(SetRePrestarting(app, FALSE)), FALSE) \in AppRecord
    BY SetterTypes
  <1>2. QED
    BY <1>1 DEF SetPrestarted, AppRecord

(* killApp returns a record. *)
LEMMA KillAppType ==
  ASSUME NEW app \in AppRecord, NEW gone \in SUBSET Pids
  PROVE  KillApp(app, gone) \in AppRecord
  BY DEF KillApp, SetRePrestarting, AppRecord

(* setReleased touches the flag and the count only, and never lowers the   *)
(* count.                                                                  *)
LEMMA SetReleasedFields ==
  ASSUME NEW app \in AppRecord, NEW b \in BOOLEAN
  PROVE  LET new == SetReleased(app, b)
         IN  /\ new.released = b
             /\ new.releasedCount >= app.releasedCount
             /\ new.prestarted = app.prestarted
             /\ new.rePrestarting = app.rePrestarting
             /\ new.pid = app.pid
             /\ new.sigTermSent = app.sigTermSent
             /\ new.sigKillSent = app.sigKillSent
  BY DEF SetReleased, AppRecord

(* setPrestarted(false) clears the schedule, the count and the signals.    *)
LEMMA SetPrestartedFields ==
  ASSUME NEW app \in AppRecord
  PROVE  LET new == SetPrestarted(app, FALSE)
         IN  /\ new.prestarted = FALSE
             /\ new.released = FALSE
             /\ new.releasedCount = 0
             /\ new.rePrestarting = FALSE
             /\ new.sigTermSent = FALSE
             /\ new.sigKillSent = FALSE
  BY DEF SetPrestarted, SetReleased, ResetReleasedCount, SetRePrestarting, AppRecord

-----------------------------------------------------------------------------
(***************************************************************************)
(* The invariant of one record.  up says whether the daemon is running.    *)
(***************************************************************************)
AppInv(a, app, up) ==
    /\ app \in AppRecord
    /\ app.rePrestarting => /\ ~ForcedRePrestartNotAllowed[a]
                           /\ app.releasedCount > RePrestartTrigger[a]
    /\ app.sigTermSent => app.rePrestarting \/ ~up
    /\ app.sigKillSent => app.rePrestarting /\ app.sigTermSent

(* The constructor establishes the invariant of a record. *)
LEMMA NewAppInv ==
  ASSUME NEW a \in Apps, NEW up \in BOOLEAN
  PROVE  AppInv(a, NewApp, up)
  BY NewAppType DEF AppInv, NewApp

(* setPid keeps the invariant of a record. *)
LEMMA SetPidInv ==
  ASSUME NEW a \in Apps, NEW app, NEW up \in BOOLEAN, AppInv(a, app, up),
         NEW pid \in Pids \cup {NoPid}
  PROVE  AppInv(a, SetPid(app, pid), up)
  <1>1. SetPid(app, pid) \in AppRecord
    BY SetterTypes DEF AppInv
  <1>2. QED
    BY <1>1 DEF AppInv, SetPid, AppRecord

(* setReleased keeps it: the count only grows. *)
LEMMA SetReleasedInv ==
  ASSUME NEW a \in Apps, NEW app, NEW up \in BOOLEAN, AppInv(a, app, up),
         NEW b \in BOOLEAN
  PROVE  AppInv(a, SetReleased(app, b), up)
  <1>1. SetReleased(app, b) \in AppRecord
    BY SetterTypes DEF AppInv
  <1>2. app.releasedCount \in Nat /\ SetReleased(app, b).releasedCount \in Nat
    BY <1>1 DEF AppInv, AppRecord
  <1>3. RePrestartTrigger[a] \in Nat
    BY ConfigAssumption
  <1>4. QED
    BY <1>1, <1>2, <1>3, SetReleasedFields DEF AppInv

(* setPrestarted(true) keeps it. *)
LEMMA PrestartedInv ==
  ASSUME NEW a \in Apps, NEW app, NEW up \in BOOLEAN, AppInv(a, app, up)
  PROVE  AppInv(a, SetPrestarted(app, TRUE), up)
  <1>1. SetPrestarted(app, TRUE) \in AppRecord
    BY SetPrestartedType DEF AppInv
  <1>2. QED
    BY <1>1 DEF AppInv, SetPrestarted, AppRecord

(* setPrestarted(false) establishes it on any record. *)
LEMMA NotPrestartedInv ==
  ASSUME NEW a \in Apps, NEW app \in AppRecord, NEW up \in BOOLEAN
  PROVE  AppInv(a, SetPrestarted(app, FALSE), up)
  BY SetPrestartedType, SetPrestartedFields DEF AppInv

(* restoredPrestart schedules an application only when it may.             *)
LEMMA RestoredInv ==
  ASSUME NEW a \in Apps, NEW app, NEW up \in BOOLEAN, AppInv(a, app, up)
  PROVE  AppInv(a, Restored(a, app), up)
  <1> DEFINE back == SetReleased(app, FALSE)
  <1>1. AppInv(a, back, up)
    BY SetReleasedInv
  <1> HIDE DEF back
  <1>2. CASE ~ForcedRePrestartNotAllowed[a] /\ back.releasedCount > RePrestartTrigger[a]
    <2>1. SetRePrestarting(back, TRUE) \in AppRecord
      BY <1>1, SetterTypes DEF AppInv
    <2>2. AppInv(a, SetRePrestarting(back, TRUE), up)
      BY <1>1, <1>2, <2>1 DEF AppInv, SetRePrestarting, AppRecord
    <2>3. QED
      BY <1>2, <2>2 DEF Restored, back
  <1>3. CASE ~(~ForcedRePrestartNotAllowed[a] /\ back.releasedCount > RePrestartTrigger[a])
    BY <1>1, <1>3 DEF Restored, back
  <1>4. QED
    BY <1>2, <1>3

(* killApp keeps the invariant of an application that is scheduled.        *)
LEMMA KillAppInv ==
  ASSUME NEW a \in Apps, NEW app, AppInv(a, app, TRUE), app.rePrestarting,
         NEW gone \in SUBSET Pids
  PROVE  AppInv(a, KillApp(app, gone), TRUE)
  <1>1. KillApp(app, gone) \in AppRecord
    BY KillAppType DEF AppInv
  <1>2. QED
    BY <1>1 DEF AppInv, KillApp, SetRePrestarting, AppRecord

(* killPrestartedApplications clears the schedule and sends SIGTERM only. *)
LEMMA TerminateInv ==
  ASSUME NEW a \in Apps, NEW app, AppInv(a, app, TRUE), NEW gone \in SUBSET Pids
  PROVE  AppInv(a, KillApp(SetRePrestarting(app, FALSE), gone), FALSE)
  <1>1. KillApp(SetRePrestarting(app, FALSE), gone) \in AppRecord
    BY SetterTypes, KillAppType DEF AppInv
  <1>2. QED
    BY <1>1 DEF AppInv, KillApp, SetRePrestarting, AppRecord

-----------------------------------------------------------------------------
(***************************************************************************)
(* The state machine.                                                      *)
(***************************************************************************)

(* What a handler may hand over to the state machine: records and a queue  *)
(* of the applications in vect.                                            *)
Handed(ap, q, vect) ==
    /\ ap \in [Apps -> AppRecord]
    /\ q \in [Apps -> Nat]
    /\ \A a \in Apps : AppInv(a, ap[a], TRUE)
    /\ \A a \in Apps \ vect : ap[a] = NewApp /\ q[a] = 0

MachineOK ==
    /\ state \in {"Init", "WaitForPrestart", "WaitForCPU"}
    /\ polling \in BOOLEAN
    /\ polling <=> state = "WaitForCPU"
    /\ pings \subseteq Apps
    /\ ~IsEmpty(queue) => polling

(* Looking for work: polling starts if there is any.  From the state       *)
(* "WaitForCPU" this is reached through startPrestartActions only, which   *)
(* has put something in the queue or found it empty and polling off.       *)
LEMMA StateWaitForPrestartInv ==
  ASSUME NEW ap, NEW q, NEW vect, Handed(ap, q, vect),
         MachineOK, StateWaitForPrestart(ap, q),
         IsEmpty(q) => state # "WaitForCPU"
  PROVE  MachineOK' /\ Handed(apps', queue', vect)
  BY DEF StateWaitForPrestart, MachineOK, Handed

(* A request leaves a record without schedule, pid and signals.            *)
LEMMA SendPrestartRequestInv ==
  ASSUME NEW ap, NEW q, NEW vect, Handed(ap, q, vect), vect \subseteq Apps,
         NEW a \in vect, pings \subseteq Apps, SendPrestartRequest(ap, a)
  PROVE  Handed(apps', q, vect) /\ pings' \subseteq Apps
  <1>1. CASE ap[a].prestarted
    BY <1>1 DEF SendPrestartRequest, Handed
  <1>2. CASE ~ap[a].prestarted
    <2>1. AppInv(a, Requested(ap[a]), TRUE)
      <3>1. AppInv(a, SetPrestarted(ap[a], FALSE), TRUE)
        BY NotPrestartedInv DEF Handed
      <3>2. AppInv(a, SetReleased(SetPrestarted(ap[a], FALSE), FALSE), TRUE)
        BY <3>1, SetReleasedInv
      <3>3. QED
        BY <3>2, SetPidInv DEF Requested
    <2>2. Requested(ap[a]) \in AppRecord
      BY <2>1 DEF AppInv
    <2>3. apps' = [ap EXCEPT ![a] = Requested(ap[a])] /\ pings' = pings \cup {a}
      BY <1>2 DEF SendPrestartRequest
    <2>4. QED
      BY <2>1, <2>2, <2>3 DEF Handed
  <1>3. QED
    BY <1>1, <1>2

(* Taking one entry out of the queue leaves a queue.                       *)
LEMMA PopInv ==
  ASSUME NEW ap, NEW q, NEW vect, Handed(ap, q, vect), NEW top \in Tops(q)
  PROVE  top \in vect /\ Handed(ap, Pop(q, top), vect)
  <1>1. top \in Apps /\ q[top] > 0 /\ q[top] \in Nat
    BY DEF Tops, IsQueued, Handed
  <1>2. top \in vect
    BY <1>1 DEF Handed
  <1>3. q[top] - 1 \in Nat
    BY <1>1
  <1>4. QED
    BY <1>1, <1>2, <1>3 DEF Handed, Pop

(* Serving the queue keeps polling on until the queue is empty. *)
LEMMA StateWaitForCPUInv ==
  ASSUME NEW ap, NEW q, NEW ld, NEW vect, Handed(ap, q, vect), vect \subseteq Apps,
         MachineOK, state = "WaitForCPU", StateWaitForCPU(ap, q, ld)
  PROVE  MachineOK' /\ Handed(apps', queue', vect)
  <1>1. CASE /\ IsEmpty(q) /\ apps' = ap /\ queue' = q
             /\ state' = "WaitForPrestart" /\ polling' = FALSE /\ UNCHANGED pings
    BY <1>1 DEF MachineOK, Handed
  <1>2. CASE /\ \E top \in Tops(q) :
                  IF ld < CpuLoadThreshold[top]
                  THEN queue' = Pop(q, top) /\ SendPrestartRequest(ap, top)
                  ELSE queue' = q /\ apps' = ap /\ UNCHANGED pings
             /\ UNCHANGED <<state, polling>>
    <2>1. PICK top \in Tops(q) :
             IF ld < CpuLoadThreshold[top]
             THEN queue' = Pop(q, top) /\ SendPrestartRequest(ap, top)
             ELSE queue' = q /\ apps' = ap /\ UNCHANGED pings
      BY <1>2
    <2>2. pings' \subseteq Apps /\ Handed(apps', queue', vect)
      <3>1. CASE ld < CpuLoadThreshold[top]
        <4>1. top \in vect /\ Handed(ap, Pop(q, top), vect)
          BY PopInv
        <4>2. QED
          BY <2>1, <3>1, <4>1, SendPrestartRequestInv DEF MachineOK
      <3>2. CASE ~(ld < CpuLoadThreshold[top])
        BY <2>1, <3>2 DEF MachineOK
      <3>3. QED
        BY <3>1, <3>2
    <2>3. QED
      BY <1>2, <2>2 DEF MachineOK
  <1>3. QED
    BY <1>1, <1>2 DEF StateWaitForCPU

(* One run of the state machine keeps the queue served. *)
LEMMA RunStateInv ==
  ASSUME NEW ap, NEW q, NEW ld, NEW vect, Handed(ap, q, vect), vect \subseteq Apps,
         MachineOK, RunState(ap, q, ld)
  PROVE  MachineOK' /\ Handed(apps', queue', vect)
  <1>1. CASE state = "WaitForPrestart" /\ StateWaitForPrestart(ap, q)
    BY <1>1, StateWaitForPrestartInv
  <1>2. CASE state = "WaitForCPU" /\ StateWaitForCPU(ap, q, ld)
    BY <1>2, StateWaitForCPUInv
  <1>3. QED
    BY <1>1, <1>2 DEF RunState

-----------------------------------------------------------------------------
(***************************************************************************)
(* The inductive invariant.  The machine polls only when something was     *)
(* configured: without that, startPrestartActions on an empty              *)
(* configuration could stop waiting with polling on.                       *)
(***************************************************************************)
IInv ==
    /\ TypeOK
    /\ MachineOK
    /\ polling => vectApps # {}
    /\ forcedTimer => blanked
    /\ \A a \in Apps : AppInv(a, apps[a], running)

(* The initial state satisfies the invariant. *)
LEMMA InitIInv == Init => IInv
  <1> SUFFICES ASSUME Init PROVE IInv
    OBVIOUS
  <1>1. \A a \in Apps : AppInv(a, apps[a], running) /\ AppInv(a, apps[a], TRUE)
    BY NewAppInv DEF Init
  <1>2. TypeOK
    <2>1. /\ apps \in [Apps -> AppRecord]
          /\ queue \in [Apps -> Nat]
          /\ \A a \in Apps : apps[a] = NewApp /\ queue[a] = 0
      BY NewAppType DEF Init
    <2>2. load \in Int
      BY DEF Init, InitialLoad
    <2>3. QED
      BY <2>1, <2>2, Zenon DEF Init, TypeOK
  <1>3. MachineOK
    <2>1. IsEmpty(queue)
      BY DEF Init, IsEmpty, IsQueued
    <2>2. state # "WaitForCPU"
      BY DEF Init
    <2>3. QED
      BY <2>1, <2>2, Zenon DEF Init, MachineOK
  <1>4. QED
    BY <1>1, <1>2, <1>3 DEF Init, IInv

(* What the invariant says while the daemon runs. *)
LEMMA RunningIInv ==
  ASSUME IInv, running
  PROVE  Handed(apps, queue, vectApps)
  BY DEF IInv, Handed, TypeOK

(* The parts of the invariant again, after a step that leaves the daemon   *)
(* running.                                                                *)
LEMMA IInvFromParts ==
  ASSUME vectApps' \subseteq Apps, Handed(apps', queue', vectApps'), MachineOK',
         load' \in Int, forcedTimer' \in BOOLEAN,
         blanked' \in BOOLEAN, running' = TRUE,
         polling' => vectApps' # {}, forcedTimer' => blanked'
  PROVE  IInv'
  BY DEF IInv, Handed, TypeOK, MachineOK

(* addPrestartApp builds a good record from any answer of the bus.         *)
LEMMA AddPrestartAppInv ==
  ASSUME NEW a \in Apps, NEW bus, bus[a] \in Pids \cup {NoPid, NoOwner}, NEW windowed
  PROVE  AppInv(a, AddPrestartApp(a, bus, windowed), TRUE)
  <1> DEFINE known == SetReleased(SetPrestarted(SetPid(NewApp, bus[a]), TRUE), FALSE)
  <1>1. CASE bus[a] = NoOwner
    BY <1>1, NewAppInv DEF AddPrestartApp
  <1>2. CASE bus[a] # NoOwner
    <2>1. bus[a] \in Pids \cup {NoPid}
      BY <1>2
    <2>2. AppInv(a, known, TRUE)
      BY <2>1, NewAppInv, SetPidInv, PrestartedInv, SetReleasedInv
    <2> HIDE DEF known
    <2>3. AppInv(a, SetReleased(known, TRUE), TRUE)
      BY <2>2, SetReleasedInv
    <2>4. QED
      BY <1>2, <2>2, <2>3 DEF AddPrestartApp, known
  <1>3. QED
    BY <1>1, <1>2

(* runPrestarts queues every application and starts polling for them.      *)
LEMMA RunPrestartsIInv ==
  ASSUME IInv, NEW listed \in SUBSET (Apps \ vectApps),
         NEW bus \in BusAnswers(listed), NEW windowed,
         RunPrestarts(listed, bus, windowed)
  PROVE  IInv'
  <1> DEFINE vect == vectApps \cup listed
             ap == ReadConfiguration(listed, bus, windowed)
             q == PushAll(queue, vect)
  <1>1. running /\ vect \subseteq Apps /\ Handed(apps, queue, vectApps)
    BY RunningIInv DEF RunPrestarts, IInv, TypeOK
  <1>2. \A a \in Apps : AppInv(a, ap[a], TRUE)
    <2>1. SUFFICES ASSUME NEW a \in Apps PROVE AppInv(a, ap[a], TRUE)
      OBVIOUS
    <2>2. CASE a \in listed \ vectApps
      <3>1. bus[a] \in Pids \cup {NoPid, NoOwner}
        BY <2>2 DEF BusAnswers
      <3>2. QED
        BY <2>2, <3>1, AddPrestartAppInv DEF ReadConfiguration
    <2>3. CASE a \notin listed \ vectApps
      BY <1>1, <2>3 DEF ReadConfiguration, Handed
    <2>4. QED
      BY <2>2, <2>3
  <1>3. ap \in [Apps -> AppRecord]
    <2>1. \A a \in Apps : ap[a] \in AppRecord
      BY <1>2 DEF AppInv
    <2>2. QED
      BY <2>1 DEF ReadConfiguration
  <1>4. \A a \in Apps \ vect : ap[a] = NewApp /\ q[a] = 0
    BY <1>1 DEF ReadConfiguration, Handed, PushAll
  <1>5. q \in [Apps -> Nat]
    BY <1>1 DEF Handed, PushAll
  <1>6. Handed(ap, q, vect)
    BY <1>2, <1>3, <1>4, <1>5 DEF Handed
  <1>7. vect # {} => ~IsEmpty(q)
    <2>1. ASSUME NEW a \in vect PROVE q[a] > 0
      BY <1>1 DEF Handed, PushAll
    <2>2. QED
      BY <1>1, <2>1 DEF IsEmpty, IsQueued
  <1>8. IsEmpty(q) => state # "WaitForCPU"
    BY <1>7 DEF IInv, MachineOK
  <1>9. StateWaitForPrestart(ap, q)
    BY DEF RunPrestarts, StateInit
  <1> HIDE DEF vect, ap, q
  <1>10. MachineOK' /\ Handed(apps', queue', vect)
    BY <1>6, <1>8, <1>9, StateWaitForPrestartInv DEF IInv
  <1>11. polling' => vect # {}
    <2>1. CASE IsEmpty(q)
      BY <1>9, <2>1 DEF StateWaitForPrestart, IInv, vect
    <2>2. CASE ~IsEmpty(q)
      BY <1>6, <2>2 DEF Handed, IsEmpty, IsQueued
    <2>3. QED
      BY <2>1, <2>2
  <1>12. vectApps' = vect /\ UNCHANGED <<load, forcedTimer, blanked, running>>
    BY DEF RunPrestarts, vect
  <1>13. QED
    BY <1>1, <1>10, <1>11, <1>12, IInvFromParts DEF IInv, TypeOK, MachineOK

(* A handler that changes records only keeps the invariant if it keeps     *)
(* that of each record and leaves unknown applications alone.              *)
LEMMA RecordsIInv ==
  ASSUME IInv, running,
         apps' \in [Apps -> AppRecord],
         \A a \in Apps : AppInv(a, apps'[a], TRUE),
         \A a \in Apps \ vectApps : apps'[a] = apps[a],
         UNCHANGED <<vectApps, machineVars, running>>,
         forcedTimer' \in BOOLEAN, blanked' \in BOOLEAN, forcedTimer' => blanked'
  PROVE  IInv'
  <1>1. Handed(apps', queue', vectApps')
    BY RunningIInv DEF Handed, machineVars
  <1>2. MachineOK'
    BY DEF IInv, MachineOK, machineVars, IsEmpty, IsQueued
  <1>3. QED
    BY <1>1, <1>2, IInvFromParts DEF IInv, TypeOK, machineVars

(* handleRegisteredService keeps the invariant.                            *)
LEMMA HandleRegisteredServiceIInv ==
  ASSUME IInv, NEW a \in Apps, NEW pid \in Pids \cup {NoPid},
         HandleRegisteredService(a, pid)
  PROVE  IInv'
  <1> DEFINE new == SetPrestarted(SetPid(apps[a], pid), TRUE)
  <1>1. running /\ a \in vectApps /\ Handed(apps, queue, vectApps)
    BY RunningIInv DEF HandleRegisteredService, Listening
  <1>2. AppInv(a, new, TRUE) /\ new \in AppRecord
    <2>1. AppInv(a, new, TRUE)
      BY <1>1, SetPidInv, PrestartedInv DEF Handed
    <2>2. QED
      BY <2>1 DEF AppInv
  <1>3. apps' = apps \/ apps' = [apps EXCEPT ![a] = new]
    BY DEF HandleRegisteredService
  <1> HIDE DEF new
  <1>4. /\ apps' \in [Apps -> AppRecord]
        /\ \A b \in Apps : AppInv(b, apps'[b], TRUE)
        /\ \A b \in Apps \ vectApps : apps'[b] = apps[b]
    BY <1>1, <1>2, <1>3 DEF Handed
  <1>5. UNCHANGED <<vectApps, machineVars, forcedTimer, blanked, running>>
    BY DEF HandleRegisteredService
  <1>6. QED
    BY <1>1, <1>4, <1>5, RecordsIInv DEF IInv, TypeOK

(* handleUnregisteredService keeps the invariant, with the run of the      *)
(* state machine that ends it.                                             *)
LEMMA HandleUnregisteredServiceIInv ==
  ASSUME IInv, NEW a \in Apps, HandleUnregisteredService(a)
  PROVE  IInv'
  <1> DEFINE app == SetReleased(apps[a], FALSE)
             q == IF app.rePrestarting \/ app.releasedCount > 0
                  THEN Push(queue, a) ELSE queue
             ap == [apps EXCEPT ![a] = SetPrestarted(app, FALSE)]
  <1>1. running /\ a \in vectApps /\ Handed(apps, queue, vectApps)
        /\ UNCHANGED <<vectApps, forcedTimer, blanked, running>>
    BY RunningIInv DEF HandleUnregisteredService, Listening
  <1>2. CASE ~apps[a].prestarted
    <2>1. UNCHANGED <<apps, machineVars>>
      BY <1>2 DEF HandleUnregisteredService
    <2>2. QED
      BY <1>1, <2>1, RecordsIInv DEF IInv, TypeOK, Handed
  <1>3. CASE apps[a].prestarted
    <2>1. /\ RunState(ap, q, load)
          /\ UNCHANGED load
      BY <1>3 DEF HandleUnregisteredService
    <2>2. AppInv(a, SetPrestarted(app, FALSE), TRUE)
      BY <1>1, SetterTypes, NotPrestartedInv DEF Handed
    <2>3. q \in [Apps -> Nat] /\ \A b \in Apps \ vectApps : q[b] = 0
      <3>1. q = queue \/ q = Push(queue, a)
        OBVIOUS
      <3> HIDE DEF q
      <3>2. QED
        BY <1>1, <3>1 DEF Push, Handed
    <2>4. SetPrestarted(app, FALSE) \in AppRecord
      BY <2>2 DEF AppInv
    <2> HIDE DEF app, q
    <2>5. Handed(ap, q, vectApps)
      BY <1>1, <2>2, <2>3, <2>4 DEF Handed
    <2>6. vectApps \subseteq Apps
      BY DEF IInv, TypeOK
    <2> HIDE DEF ap
    <2>7. MachineOK' /\ Handed(apps', queue', vectApps)
      BY <2>1, <2>5, <2>6, RunStateInv DEF IInv
    <2>8. QED
      BY <1>1, <2>1, <2>6, <2>7, IInvFromParts DEF IInv, TypeOK, MachineOK
  <1>4. QED
    BY <1>2, <1>3

(* updateCPULoad keeps the invariant.                                      *)
LEMMA UpdateCPULoadIInv ==
  ASSUME IInv, NEW l \in Loads, UpdateCPULoad(l)
  PROVE  IInv'
  <1>1. running /\ Handed(apps, queue, vectApps) /\ vectApps \subseteq Apps
        /\ l \in Int /\ vectApps # {}
    BY RunningIInv, LoadsAssumption DEF UpdateCPULoad, Listening, IInv, TypeOK
  <1>2. MachineOK' /\ Handed(apps', queue', vectApps)
    BY <1>1, RunStateInv DEF UpdateCPULoad, IInv
  <1>3. QED
    BY <1>1, <1>2, IInvFromParts DEF UpdateCPULoad, IInv, TypeOK, MachineOK

(* releasedPrestart keeps the invariant.                                   *)
LEMMA ReleasedPrestartIInv ==
  ASSUME IInv, NEW pid \in Pids \cup {NoPid}, ReleasedPrestart(pid)
  PROVE  IInv'
  <1>1. running /\ Handed(apps, queue, vectApps)
        /\ UNCHANGED <<vectApps, machineVars, forcedTimer, blanked, running>>
    BY RunningIInv DEF ReleasedPrestart, Listening
  <1>2. \A a \in Apps :
          \/ apps'[a] = apps[a]
          \/ a \in vectApps /\ apps'[a] = SetReleased(apps[a], TRUE)
    BY DEF ReleasedPrestart
  <1>3. \A a \in Apps : AppInv(a, apps'[a], TRUE)
    BY <1>1, <1>2, SetReleasedInv DEF Handed
  <1>4. apps' \in [Apps -> AppRecord]
    <2>1. \A a \in Apps : apps'[a] \in AppRecord
      BY <1>3 DEF AppInv
    <2>2. QED
      BY <2>1 DEF ReleasedPrestart
  <1>5. QED
    BY <1>1, <1>2, <1>3, <1>4, RecordsIInv DEF IInv, TypeOK

(* restoredPrestart keeps the invariant.                                   *)
LEMMA RestoredPrestartIInv ==
  ASSUME IInv, NEW pid \in Pids \cup {NoPid}, RestoredPrestart(pid)
  PROVE  IInv'
  <1>1. running /\ Handed(apps, queue, vectApps)
        /\ UNCHANGED <<vectApps, machineVars, forcedTimer, blanked, running>>
    BY RunningIInv DEF RestoredPrestart, Listening
  <1>2. \A a \in Apps :
          \/ apps'[a] = apps[a]
          \/ a \in vectApps /\ apps'[a] = Restored(a, apps[a])
    BY DEF RestoredPrestart
  <1>3. \A a \in Apps : AppInv(a, apps'[a], TRUE)
    BY <1>1, <1>2, RestoredInv DEF Handed
  <1>4. apps' \in [Apps -> AppRecord]
    <2>1. \A a \in Apps : apps'[a] \in AppRecord
      BY <1>3 DEF AppInv
    <2>2. QED
      BY <2>1 DEF RestoredPrestart
  <1>5. QED
    BY <1>1, <1>2, <1>3, <1>4, RecordsIInv DEF IInv, TypeOK

(* handleScreenBlanked keeps the invariant: it alone starts the timer.     *)
LEMMA HandleScreenBlankedIInv ==
  ASSUME IInv, NEW newState \in BOOLEAN, HandleScreenBlanked(newState)
  PROVE  IInv'
  <1>1. running /\ Handed(apps, queue, vectApps)
        /\ UNCHANGED <<apps, vectApps, machineVars, running>>
    BY RunningIInv DEF HandleScreenBlanked, Listening
  <1>2. forcedTimer' \in BOOLEAN /\ blanked' \in BOOLEAN /\ (forcedTimer' => blanked')
    BY DEF HandleScreenBlanked
  <1>3. QED
    BY <1>1, <1>2, RecordsIInv DEF Handed

(* triggerForcedRePrestarts keeps the invariant.                           *)
LEMMA TriggerForcedRePrestartsIInv ==
  ASSUME IInv, NEW gone \in SUBSET Pids, TriggerForcedRePrestarts(gone)
  PROVE  IInv'
  <1>1. running /\ Handed(apps, queue, vectApps) /\ forcedTimer' = FALSE
        /\ UNCHANGED <<vectApps, machineVars, blanked, running>>
    BY RunningIInv DEF TriggerForcedRePrestarts, Listening
  <1>2. \A a \in Apps :
          \/ apps'[a] = apps[a]
          \/ /\ a \in vectApps
             /\ apps[a].rePrestarting
             /\ apps'[a] = KillApp(apps[a], gone)
    BY DEF TriggerForcedRePrestarts
  <1>3. \A a \in Apps : AppInv(a, apps'[a], TRUE)
    BY <1>1, <1>2, KillAppInv DEF Handed
  <1>4. apps' \in [Apps -> AppRecord]
    <2>1. \A a \in Apps : apps'[a] \in AppRecord
      BY <1>3 DEF AppInv
    <2>2. QED
      BY <2>1 DEF TriggerForcedRePrestarts
  <1>5. QED
    BY <1>1, <1>2, <1>3, <1>4, RecordsIInv DEF IInv, TypeOK

(* The end of the daemon keeps the invariant.                              *)
LEMMA KillPrestartedApplicationsIInv ==
  ASSUME IInv, NEW gone \in SUBSET Pids, KillPrestartedApplications(gone)
  PROVE  IInv'
  <1>1. Handed(apps, queue, vectApps) /\ running' = FALSE
        /\ UNCHANGED <<vectApps, machineVars, forcedTimer, blanked>>
    BY RunningIInv DEF KillPrestartedApplications, Listening
  <1>2. \A a \in Apps :
          apps'[a] = IF a \in vectApps
                     THEN KillApp(SetRePrestarting(apps[a], FALSE), gone)
                     ELSE apps[a]
    BY DEF KillPrestartedApplications
  <1>3. \A a \in Apps : AppInv(a, apps'[a], FALSE)
    <2>1. SUFFICES ASSUME NEW a \in Apps PROVE AppInv(a, apps'[a], FALSE)
      OBVIOUS
    <2>2. CASE a \in vectApps
      <3>1. AppInv(a, apps[a], TRUE)
        BY <1>1 DEF Handed
      <3>2. AppInv(a, KillApp(SetRePrestarting(apps[a], FALSE), gone), FALSE)
        BY <3>1, TerminateInv
      <3>3. QED
        BY <1>2, <2>2, <3>2
    <2>3. CASE a \notin vectApps
      <3>1. apps'[a] = NewApp
        BY <1>1, <1>2, <2>3 DEF Handed
      <3>2. QED
        BY <3>1, NewAppInv
    <2>4. QED
      BY <2>2, <2>3
  <1>4. apps' \in [Apps -> AppRecord]
    <2>1. \A a \in Apps : apps'[a] \in AppRecord
      BY <1>3 DEF AppInv
    <2>2. QED
      BY <2>1 DEF KillPrestartedApplications
  <1>5. TypeOK'
    BY <1>1, <1>2, <1>4 DEF IInv, TypeOK, machineVars
  <1>6. MachineOK'
    BY <1>1 DEF IInv, MachineOK, machineVars, IsEmpty, IsQueued
  <1>7. QED
    BY <1>1, <1>3, <1>5, <1>6 DEF IInv, machineVars

(* An end without termination of the applications keeps the invariant.     *)
LEMMA StopIInv ==
  ASSUME IInv, running' = FALSE, running,
         UNCHANGED <<apps, vectApps, machineVars, forcedTimer, blanked>>
  PROVE  IInv'
  <1>1. \A a \in Apps : AppInv(a, apps'[a], FALSE)
    BY DEF IInv, AppInv
  <1>2. MachineOK'
    BY DEF IInv, MachineOK, machineVars, IsEmpty, IsQueued
  <1>3. QED
    BY <1>1, <1>2 DEF IInv, TypeOK, machineVars

(* The answer to a ping keeps the invariant.                               *)
LEMMA AnswerPingIInv ==
  ASSUME IInv, NEW a \in Apps, AnswerPing(a)
  PROVE  IInv'
  <1>1. running /\ Handed(apps, queue, vectApps)
    BY RunningIInv DEF AnswerPing
  <1>2. MachineOK'
    BY DEF AnswerPing, IInv, MachineOK, IsEmpty, IsQueued
  <1>3. QED
    BY <1>1, <1>2, IInvFromParts DEF AnswerPing, IInv, TypeOK, Handed

-----------------------------------------------------------------------------
(***************************************************************************)
(* The theorems.                                                           *)
(***************************************************************************)

(* Every step of the daemon keeps the invariant. *)
LEMMA StepIInv == IInv /\ [Next]_vars => IInv'
  <1> SUFFICES ASSUME IInv, [Next]_vars PROVE IInv'
    OBVIOUS
  <1>1. CASE UNCHANGED vars
    BY <1>1 DEF vars, IInv, TypeOK, MachineOK, IsEmpty, IsQueued
  <1>2. ASSUME NEW listed \in SUBSET (Apps \ vectApps),
               NEW bus \in BusAnswers(listed),
               NEW windowed \in SUBSET Pids,
               RunPrestarts(listed, bus, windowed)
        PROVE  IInv'
    BY <1>2, RunPrestartsIInv
  <1>3. CASE RunPrestartsFails
    BY <1>3, StopIInv DEF RunPrestartsFails
  <1>4. ASSUME NEW a \in Apps, NEW hadOwner \in BOOLEAN, NEW hasOwner \in BOOLEAN,
               NEW pid \in Pids \cup {NoPid},
               HandleServiceOwnerChange(a, hadOwner, hasOwner, pid)
        PROVE  IInv'
    BY <1>1, <1>4, HandleRegisteredServiceIInv, HandleUnregisteredServiceIInv
       DEF HandleServiceOwnerChange
  <1>5. ASSUME NEW l \in Loads, UpdateCPULoad(l) PROVE IInv'
    BY <1>5, UpdateCPULoadIInv
  <1>6. ASSUME NEW pid \in Pids \cup {NoPid},
               ReleasedPrestart(pid) \/ RestoredPrestart(pid)
        PROVE  IInv'
    BY <1>6, ReleasedPrestartIInv, RestoredPrestartIInv
  <1>7. ASSUME NEW newState \in BOOLEAN, HandleScreenBlanked(newState) PROVE IInv'
    BY <1>7, HandleScreenBlankedIInv
  <1>8. ASSUME NEW gone \in SUBSET Pids,
               TriggerForcedRePrestarts(gone) \/ KillPrestartedApplications(gone)
        PROVE  IInv'
    BY <1>8, TriggerForcedRePrestartsIInv, KillPrestartedApplicationsIInv
  <1>9. CASE ExitTestMode
    BY <1>9, StopIInv DEF ExitTestMode, Listening
  <1>10. ASSUME NEW a \in Apps, AnswerPing(a) PROVE IInv'
    BY <1>10, AnswerPingIInv
  <1>11. QED
    BY <1>1, <1>2, <1>3, <1>4, <1>5, <1>6, <1>7, <1>8, <1>9, <1>10 DEF Next, Step

(* The invariant holds in every reachable state. *)
LEMMA IInvAlways == Spec => []IInv
  BY InitIInv, StepIInv, PTL DEF Spec

(* Every variable keeps its type, for every configuration. *)
THEOREM TypeCorrect == Spec => []TypeOK
  BY IInvAlways, PTL DEF IInv

(* Polling is on exactly while the machine waits for the CPU, and always   *)
(* while something is queued: no push goes unserved.                       *)
THEOREM QueueAlwaysServed == Spec => []QueueServed
  <1>1. IInv => QueueServed
    BY DEF IInv, MachineOK, QueueServed
  <1>2. QED
    BY <1>1, IInvAlways, PTL

(* A schedule for a forced re-prestart is always justified by the          *)
(* configuration and the count of releases.                                *)
THEOREM RePrestartAlwaysJustified == Spec => []RePrestartJustified
  <1>1. IInv => RePrestartJustified
    BY DEF IInv, AppInv, RePrestartJustified
  <1>2. QED
    BY <1>1, IInvAlways, PTL

(* Recorded signals belong to a schedule or to the end of the daemon.      *)
THEOREM SignalsAlwaysAccounted == Spec => []SignalsAccounted
  <1>1. IInv => SignalsAccounted
    BY DEF IInv, AppInv, SignalsAccounted
  <1>2. QED
    BY <1>1, IInvAlways, PTL

(* The timer runs only behind a blank screen.                              *)
THEOREM TimerAlwaysBehindBlankScreen == Spec => []TimerOnlyWhileBlank
  <1>1. IInv => TimerOnlyWhileBlank
    BY DEF IInv, TimerOnlyWhileBlank
  <1>2. QED
    BY <1>1, IInvAlways, PTL

-----------------------------------------------------------------------------
(***************************************************************************)
(* The action properties.                                                  *)
(***************************************************************************)

(* A request forgets schedule and signals, and does not change who is on   *)
(* the bus.                                                                *)
LEMMA RequestedFields ==
  ASSUME NEW app \in AppRecord
  PROVE  /\ Requested(app).prestarted = FALSE
         /\ Requested(app).rePrestarting = FALSE
         /\ Requested(app).sigTermSent = FALSE
         /\ Requested(app).sigKillSent = FALSE
  <1> DEFINE down == SetPrestarted(app, FALSE)
             new == SetReleased(down, FALSE)
  <1>1. /\ down \in AppRecord
        /\ down.prestarted = FALSE
        /\ down.rePrestarting = FALSE
        /\ down.sigTermSent = FALSE
        /\ down.sigKillSent = FALSE
    BY SetPrestartedType, SetPrestartedFields
  <1> HIDE DEF down
  <1>2. new \in AppRecord
    BY <1>1, SetterTypes
  <1>3. /\ new.prestarted = FALSE
        /\ new.rePrestarting = FALSE
        /\ new.sigTermSent = FALSE
        /\ new.sigKillSent = FALSE
    BY <1>1, SetReleasedFields
  <1> HIDE DEF new
  <1>4. Requested(app) = SetPid(new, NoPid)
    BY DEF Requested, new, down
  <1>5. QED
    BY <1>2, <1>3, <1>4 DEF SetPid, AppRecord

(* The state machine changes a record only by a request, and only that of  *)
(* an application that is not on the bus.                                  *)
LEMMA RunStateRecords ==
  ASSUME NEW ap, NEW q, NEW ld, NEW vect, Handed(ap, q, vect), RunState(ap, q, ld),
         NEW a \in Apps
  PROVE  \/ apps'[a] = ap[a]
         \/ ~ap[a].prestarted /\ apps'[a] = Requested(ap[a])
  <1>1. apps' = ap \/ \E top \in Apps : SendPrestartRequest(ap, top)
    BY DEF RunState, StateWaitForPrestart, StateWaitForCPU, Tops
  <1>2. CASE apps' = ap
    BY <1>2
  <1>3. ASSUME NEW top \in Apps, SendPrestartRequest(ap, top)
        PROVE  \/ apps'[a] = ap[a]
               \/ ~ap[a].prestarted /\ apps'[a] = Requested(ap[a])
    BY <1>3 DEF SendPrestartRequest, Handed
  <1>4. QED
    BY <1>1, <1>2, <1>3

(* The records and the queue that an unregistration hands over.            *)
Unregistered(a) == SetReleased(apps[a], FALSE)
UnregisteredRecords(a) == [apps EXCEPT ![a] = SetPrestarted(Unregistered(a), FALSE)]
UnregisteredQueue(a) ==
    IF Unregistered(a).rePrestarting \/ Unregistered(a).releasedCount > 0
    THEN Push(queue, a) ELSE queue

LEMMA UnregisteredHanded ==
  ASSUME IInv, running, NEW a \in Apps, a \in vectApps
  PROVE  /\ Handed(UnregisteredRecords(a), UnregisteredQueue(a), vectApps)
         /\ UnregisteredRecords(a)[a].prestarted = FALSE
         /\ UnregisteredRecords(a)[a].rePrestarting = FALSE
         /\ UnregisteredRecords(a)[a].sigTermSent = FALSE
         /\ UnregisteredRecords(a)[a].sigKillSent = FALSE
         /\ \A b \in Apps \ {a} : UnregisteredRecords(a)[b] = apps[b]
  <1>1. Handed(apps, queue, vectApps)
    BY RunningIInv
  <1>2. Unregistered(a) \in AppRecord
    BY <1>1, SetterTypes DEF Handed, Unregistered
  <1>3. AppInv(a, SetPrestarted(Unregistered(a), FALSE), TRUE)
    BY <1>2, NotPrestartedInv
  <1>4. SetPrestarted(Unregistered(a), FALSE) \in AppRecord
    BY <1>3 DEF AppInv
  <1>5. UnregisteredQueue(a) = queue \/ UnregisteredQueue(a) = Push(queue, a)
    BY DEF UnregisteredQueue
  <1>6. Handed(UnregisteredRecords(a), UnregisteredQueue(a), vectApps)
    <2>1. /\ UnregisteredQueue(a) \in [Apps -> Nat]
          /\ \A b \in Apps \ vectApps : UnregisteredQueue(a)[b] = 0
      BY <1>1, <1>5 DEF Handed, Push
    <2> DEFINE down == SetPrestarted(Unregistered(a), FALSE)
    <2> HIDE DEF down
    <2>2. AppInv(a, down, TRUE) /\ down \in AppRecord
      BY <1>3, <1>4 DEF down
    <2>3. UnregisteredRecords(a) = [apps EXCEPT ![a] = down]
      BY DEF UnregisteredRecords, down
    <2>4. QED
      BY <1>1, <2>1, <2>2, <2>3 DEF Handed
  <1>7. QED
    BY <1>1, <1>2, <1>6, SetPrestartedFields DEF UnregisteredRecords, Handed

NoNewSignal(a) ==
    /\ apps'[a].sigTermSent => apps[a].sigTermSent
    /\ apps'[a].sigKillSent => apps[a].sigKillSent

(* Handing a record to the state machine signals nobody.                   *)
LEMMA RunStateSignalsNobody ==
  ASSUME NEW ap, NEW q, NEW ld, NEW vect, Handed(ap, q, vect), RunState(ap, q, ld),
         NEW a \in Apps,
         ap[a].sigTermSent => apps[a].sigTermSent,
         ap[a].sigKillSent => apps[a].sigKillSent
  PROVE  NoNewSignal(a)
  <1>1. ap[a] \in AppRecord
    BY DEF Handed
  <1>2. QED
    BY <1>1, RunStateRecords, RequestedFields DEF NoNewSignal

(* No step of a running daemon but triggerForcedRePrestarts signals.       *)
LEMMA OnlyTriggerSignals ==
  ASSUME IInv, [Next]_vars, running', NEW a \in Apps
  PROVE  NoNewSignal(a) \/ \E gone \in SUBSET Pids : TriggerForcedRePrestarts(gone)
  <1>1. ASSUME apps' = apps PROVE NoNewSignal(a)
    BY <1>1 DEF NoNewSignal
  <1>2. ASSUME NEW listed \in SUBSET (Apps \ vectApps),
               NEW bus \in BusAnswers(listed),
               NEW windowed \in SUBSET Pids,
               RunPrestarts(listed, bus, windowed)
        PROVE  NoNewSignal(a)
    <2>1. apps'[a] = ReadConfiguration(listed, bus, windowed)[a]
      BY <1>2 DEF RunPrestarts, StateInit, StateWaitForPrestart
    <2>2. CASE a \in listed \ vectApps
      <3>1. bus[a] \in Pids \cup {NoPid, NoOwner}
        BY <2>2 DEF BusAnswers
      <3>2. running
        BY <1>2 DEF RunPrestarts
      <3>3. apps'[a] = AddPrestartApp(a, bus, windowed)
        BY <2>1, <2>2 DEF ReadConfiguration
      <3>4. ~apps'[a].sigTermSent /\ ~apps'[a].sigKillSent
        <4> DEFINE asked == SetPrestarted(SetPid(NewApp, bus[a]), TRUE)
                   known == SetReleased(asked, FALSE)
        <4>1. CASE bus[a] = NoOwner
          BY <3>3, <4>1 DEF AddPrestartApp, NewApp
        <4>2. CASE bus[a] # NoOwner
          <5>1. asked \in AppRecord /\ ~asked.sigTermSent /\ ~asked.sigKillSent
            BY <3>1, <4>2, NewAppType DEF SetPid, SetPrestarted, AppRecord, NewApp
          <5> HIDE DEF asked
          <5>2. known \in AppRecord /\ ~known.sigTermSent /\ ~known.sigKillSent
            BY <5>1, SetterTypes, SetReleasedFields
          <5> HIDE DEF known
          <5>3. /\ ~SetReleased(known, TRUE).sigTermSent
                /\ ~SetReleased(known, TRUE).sigKillSent
            BY <5>2, SetReleasedFields
          <5>4. QED
            BY <3>3, <4>2, <5>2, <5>3 DEF AddPrestartApp, known, asked
        <4>3. QED
          BY <4>1, <4>2
      <3>5. QED
        BY <3>4 DEF NoNewSignal
    <2>3. CASE a \notin listed \ vectApps
      BY <2>1, <2>3 DEF ReadConfiguration, NoNewSignal
    <2>4. QED
      BY <2>2, <2>3
  <1>3. ASSUME NEW b \in Apps, NEW pid \in Pids \cup {NoPid},
               HandleRegisteredService(b, pid)
        PROVE  NoNewSignal(a)
    BY <1>3 DEF HandleRegisteredService, SetPrestarted, SetPid, NoNewSignal, IInv, TypeOK,
       AppRecord
  <1>4. ASSUME NEW b \in Apps, HandleUnregisteredService(b) PROVE NoNewSignal(a)
    <2>1. CASE ~apps[b].prestarted
      <3>1. apps' = apps
        BY <1>4, <2>1 DEF HandleUnregisteredService
      <3>2. QED
        BY <1>1, <3>1
    <2>2. CASE apps[b].prestarted
      <3>1. RunState(UnregisteredRecords(b), UnregisteredQueue(b), load)
        BY <1>4, <2>2 DEF HandleUnregisteredService, UnregisteredRecords,
           UnregisteredQueue, Unregistered
      <3>2. running /\ b \in vectApps
        BY <1>4 DEF HandleUnregisteredService, Listening
      <3>3. /\ UnregisteredRecords(b)[a].sigTermSent => apps[a].sigTermSent
            /\ UnregisteredRecords(b)[a].sigKillSent => apps[a].sigKillSent
        BY <3>2, UnregisteredHanded
      <3>4. QED
        BY <3>1, <3>2, <3>3, UnregisteredHanded, RunStateSignalsNobody
    <2>3. QED
      BY <2>1, <2>2
  <1>5. ASSUME NEW l \in Loads, UpdateCPULoad(l) PROVE NoNewSignal(a)
    BY <1>5, RunningIInv, RunStateSignalsNobody DEF UpdateCPULoad, Listening
  <1>6. ASSUME NEW pid \in Pids \cup {NoPid}, ReleasedPrestart(pid)
        PROVE  NoNewSignal(a)
    BY <1>6, SetReleasedFields DEF ReleasedPrestart, NoNewSignal, IInv, TypeOK
  <1>7. ASSUME NEW pid \in Pids \cup {NoPid}, RestoredPrestart(pid)
        PROVE  NoNewSignal(a)
    <2>1. apps'[a] = apps[a] \/ apps'[a] = Restored(a, apps[a])
      BY <1>7 DEF RestoredPrestart
    <2>2. apps[a] \in AppRecord
      BY DEF IInv, TypeOK
    <2>3. SetReleased(apps[a], FALSE) \in AppRecord
      BY <2>2, SetterTypes
    <2> DEFINE back == SetReleased(apps[a], FALSE)
    <2>4. /\ back \in AppRecord
          /\ back.sigTermSent = apps[a].sigTermSent
          /\ back.sigKillSent = apps[a].sigKillSent
      BY <2>2, <2>3, SetReleasedFields
    <2>5. Restored(a, apps[a]) = back \/ Restored(a, apps[a]) = SetRePrestarting(back, TRUE)
      BY DEF Restored
    <2> HIDE DEF back
    <2>6. /\ SetRePrestarting(back, TRUE).sigTermSent = back.sigTermSent
          /\ SetRePrestarting(back, TRUE).sigKillSent = back.sigKillSent
      BY <2>4 DEF SetRePrestarting, AppRecord
    <2>7. QED
      BY <2>1, <2>4, <2>5, <2>6 DEF NoNewSignal
  <1>8. ASSUME NEW gone \in SUBSET Pids, KillPrestartedApplications(gone)
        PROVE  FALSE
    BY <1>8 DEF KillPrestartedApplications
  <1>9. ASSUME RunPrestartsFails
               \/ ExitTestMode
               \/ (\E newState \in BOOLEAN : HandleScreenBlanked(newState))
               \/ (\E b \in Apps : AnswerPing(b))
               \/ UNCHANGED vars
        PROVE  apps' = apps
    BY <1>9 DEF RunPrestartsFails, ExitTestMode, HandleScreenBlanked, AnswerPing, vars
  <1>10. QED
    BY <1>1, <1>2, <1>3, <1>4, <1>5, <1>6, <1>7, <1>8, <1>9
       DEF Next, Step, HandleServiceOwnerChange

(* While the daemon goes on, it signals only applications that are behind  *)
(* a blank screen, show no window and returned too often.                  *)
THEOREM SignalsOnlyBehindBlankScreen == Spec => SignalledOnlyBehindBlankScreen
  <1> DEFINE Allowed(a) == /\ blanked
                           /\ ~apps[a].released
                           /\ apps[a].releasedCount > RePrestartTrigger[a]
  <1>1. ASSUME IInv, [Next]_vars, NEW a \in Apps, Signalled(a), running'
        PROVE  Allowed(a)
    <2>1. PICK gone \in SUBSET Pids : TriggerForcedRePrestarts(gone)
      BY <1>1, OnlyTriggerSignals DEF Signalled, NoNewSignal
    <2>2. apps'[a] # apps[a]
      BY <1>1 DEF Signalled
    <2>3. apps[a].rePrestarting /\ ~apps[a].released /\ forcedTimer
      BY <2>1, <2>2 DEF TriggerForcedRePrestarts
    <2>4. QED
      BY <1>1, <2>3 DEF IInv, AppInv
  <1>2. IInv /\ [Next]_vars
          => [\A a \in Apps : Signalled(a) /\ running' => Allowed(a)]_vars
    BY <1>1
  <1>3. QED
    BY <1>2, IInvAlways, PTL DEF Spec, SignalledOnlyBehindBlankScreen

(* No step but the handling of an unregistration takes an application off  *)
(* the bus, and it takes off that application only.                        *)
LEMMA OnlyUnregistrationLeaves ==
  ASSUME IInv, [Next]_vars, NEW a \in Apps, LeavesBus(a)
  PROVE  HandleUnregisteredService(a)
  <1>1. apps[a] \in AppRecord /\ apps[a].prestarted /\ ~apps'[a].prestarted
    BY DEF IInv, TypeOK, LeavesBus
  <1>2. ASSUME NEW listed \in SUBSET (Apps \ vectApps),
               NEW bus \in BusAnswers(listed),
               NEW windowed \in SUBSET Pids,
               RunPrestarts(listed, bus, windowed)
        PROVE  FALSE
    <2>1. a \in vectApps
      BY <1>1 DEF IInv, TypeOK, NewApp
    <2>2. apps'[a] = ReadConfiguration(listed, bus, windowed)[a]
      BY <1>2 DEF RunPrestarts, StateInit, StateWaitForPrestart
    <2>3. QED
      BY <1>1, <2>1, <2>2 DEF ReadConfiguration
  <1>3. ASSUME NEW b \in Apps, NEW pid \in Pids \cup {NoPid},
               HandleRegisteredService(b, pid)
        PROVE  FALSE
    BY <1>1, <1>3 DEF HandleRegisteredService, SetPrestarted, SetPid, IInv, TypeOK,
       AppRecord
  <1>4. ASSUME NEW b \in Apps, HandleUnregisteredService(b), b # a PROVE FALSE
    <2>1. CASE ~apps[b].prestarted
      BY <1>1, <1>4, <2>1 DEF HandleUnregisteredService
    <2>2. CASE apps[b].prestarted
      <3>1. RunState(UnregisteredRecords(b), UnregisteredQueue(b), load)
        BY <1>4, <2>2 DEF HandleUnregisteredService, UnregisteredRecords,
           UnregisteredQueue, Unregistered
      <3>2. running /\ b \in vectApps
        BY <1>4 DEF HandleUnregisteredService, Listening
      <3>3. UnregisteredRecords(b)[a] = apps[a]
        BY <1>4, <3>2, UnregisteredHanded
      <3>4. apps'[a] = apps[a]
        BY <1>1, <3>1, <3>2, <3>3, UnregisteredHanded, RunStateRecords
      <3>5. QED
        BY <1>1, <3>4
    <2>3. QED
      BY <2>1, <2>2
  <1>5. ASSUME NEW l \in Loads, UpdateCPULoad(l) PROVE FALSE
    BY <1>1, <1>5, RunningIInv, RunStateRecords DEF UpdateCPULoad, Listening
  <1>6. ASSUME NEW pid \in Pids \cup {NoPid}, ReleasedPrestart(pid) PROVE FALSE
    BY <1>1, <1>6, SetReleasedFields DEF ReleasedPrestart
  <1>7. ASSUME NEW pid \in Pids \cup {NoPid}, RestoredPrestart(pid) PROVE FALSE
    <2> DEFINE back == SetReleased(apps[a], FALSE)
    <2>1. apps'[a] = apps[a] \/ apps'[a] = back \/ apps'[a] = SetRePrestarting(back, TRUE)
      BY <1>7 DEF RestoredPrestart, Restored
    <2>2. back \in AppRecord /\ back.prestarted
      BY <1>1, SetterTypes, SetReleasedFields
    <2> HIDE DEF back
    <2>3. SetRePrestarting(back, TRUE).prestarted
      BY <2>2 DEF SetRePrestarting, AppRecord
    <2>4. QED
      BY <1>1, <2>1, <2>2, <2>3
  <1>8. ASSUME NEW gone \in SUBSET Pids,
               TriggerForcedRePrestarts(gone) \/ KillPrestartedApplications(gone)
        PROVE  FALSE
    <2>1. ASSUME NEW app \in AppRecord, app.prestarted
          PROVE  KillApp(app, gone).prestarted
      BY <2>1 DEF KillApp, SetRePrestarting, AppRecord
    <2>2. /\ SetRePrestarting(apps[a], FALSE) \in AppRecord
          /\ SetRePrestarting(apps[a], FALSE).prestarted
      <3>1. SetRePrestarting(apps[a], FALSE) \in AppRecord
        BY <1>1, SetterTypes
      <3>2. SetRePrestarting(apps[a], FALSE).prestarted
        BY <1>1 DEF SetRePrestarting, AppRecord
      <3>3. QED
        BY <3>1, <3>2
    <2>3. \/ apps'[a] = apps[a]
          \/ apps'[a] = KillApp(apps[a], gone)
          \/ apps'[a] = KillApp(SetRePrestarting(apps[a], FALSE), gone)
      BY <1>8 DEF TriggerForcedRePrestarts, KillPrestartedApplications
    <2>4. QED
      BY <1>1, <2>1, <2>2, <2>3
  <1>9. ASSUME RunPrestartsFails
               \/ ExitTestMode
               \/ (\E newState \in BOOLEAN : HandleScreenBlanked(newState))
               \/ (\E b \in Apps : AnswerPing(b))
               \/ UNCHANGED vars
        PROVE  FALSE
    BY <1>1, <1>9 DEF RunPrestartsFails, ExitTestMode, HandleScreenBlanked, AnswerPing, vars
  <1>10. QED
    BY <1>2, <1>3, <1>4, <1>5, <1>6, <1>7, <1>8, <1>9
       DEF Next, Step, HandleServiceOwnerChange

(* What the state machine does with the entries of an application that is  *)
(* not on the bus: it loses one only to a request.                         *)
LEMMA EntriesLostToRequests ==
  ASSUME NEW ap, NEW q, NEW ld, NEW vect, Handed(ap, q, vect), RunState(ap, q, ld),
         NEW a \in Apps, ~ap[a].prestarted
  PROVE  \/ queue'[a] = q[a]
         \/ queue'[a] = q[a] - 1 /\ a \in pings'
  <1>1. CASE queue' = q
    BY <1>1
  <1>2. ASSUME NEW top \in Tops(q), queue' = Pop(q, top), SendPrestartRequest(ap, top)
        PROVE  \/ queue'[a] = q[a]
               \/ queue'[a] = q[a] - 1 /\ a \in pings'
    <2>1. CASE top = a
      BY <1>2, <2>1 DEF SendPrestartRequest, Pop, Handed
    <2>2. CASE top # a
      BY <1>2, <2>2 DEF Pop, Handed
    <2>3. QED
      BY <2>1, <2>2
  <1>3. queue' = q \/ \E top \in Tops(q) : queue' = Pop(q, top) /\ SendPrestartRequest(ap, top)
    BY DEF RunState, StateWaitForPrestart, StateWaitForCPU
  <1>4. QED
    BY <1>1, <1>2, <1>3

(* An application that leaves the bus comes back exactly if it was shown:  *)
(* it is queued or pinged in that very step, or the queue gains nothing.   *)
THEOREM ShownAppsComeBack == Spec => OnlyShownAppsComeBack
  <1> DEFINE Owed(a) == IF apps[a].releasedCount > 0
                        THEN IsQueued(queue', a) \/ a \in pings'
                        ELSE queue'[a] <= queue[a]
  <1>1. ASSUME IInv, [Next]_vars, NEW a \in Apps, LeavesBus(a)
        PROVE  Owed(a)
    <2>1. HandleUnregisteredService(a)
      BY <1>1, OnlyUnregistrationLeaves
    <2>2. /\ running /\ a \in vectApps
          /\ RunState(UnregisteredRecords(a), UnregisteredQueue(a), load)
      BY <1>1, <2>1 DEF HandleUnregisteredService, Listening, LeavesBus,
         UnregisteredRecords, UnregisteredQueue, Unregistered
    <2>3. \/ queue'[a] = UnregisteredQueue(a)[a]
          \/ queue'[a] = UnregisteredQueue(a)[a] - 1 /\ a \in pings'
      BY <1>1, <2>2, UnregisteredHanded, EntriesLostToRequests
    <2>4. queue[a] \in Nat /\ apps[a] \in AppRecord /\ queue \in [Apps -> Nat]
      BY <1>1 DEF IInv, TypeOK
    <2>5. /\ Unregistered(a).releasedCount = apps[a].releasedCount
          /\ Unregistered(a).rePrestarting = apps[a].rePrestarting
      BY <2>4 DEF Unregistered, SetReleased, AppRecord
    <2>6. CASE apps[a].releasedCount > 0
      <3>1. UnregisteredQueue(a)[a] = queue[a] + 1
        BY <2>4, <2>5, <2>6 DEF UnregisteredQueue, Push
      <3>2. IsQueued(queue', a) \/ a \in pings'
        BY <2>3, <2>4, <3>1 DEF IsQueued
      <3>3. QED
        BY <2>6, <3>2
    <2>7. CASE ~(apps[a].releasedCount > 0)
      <3>1. ~apps[a].rePrestarting
        <4>1. AppInv(a, apps[a], running)
          BY <1>1 DEF IInv
        <4>2. RePrestartTrigger[a] \in Nat /\ apps[a].releasedCount \in Nat
          BY <2>4, ConfigAssumption DEF AppRecord
        <4>3. QED
          BY <2>7, <4>1, <4>2 DEF AppInv
      <3>2. UnregisteredQueue(a)[a] = queue[a]
        BY <2>5, <2>7, <3>1 DEF UnregisteredQueue
      <3>3. QED
        BY <2>3, <2>4, <2>7, <3>2
    <2>8. QED
      BY <2>6, <2>7
  <1>2. IInv /\ [Next]_vars => [\A a \in Apps : LeavesBus(a) => Owed(a)]_vars
    BY <1>1
  <1>3. QED
    BY <1>2, IInvAlways, PTL DEF Spec, OnlyShownAppsComeBack

-----------------------------------------------------------------------------
(***************************************************************************)
(* The order of service.                                                   *)
(***************************************************************************)

(* What a step may do for application a when it finds the queue q and the  *)
(* load ld.                                                                *)
InTurn(a, ld) ==
    /\ a \in pings' \/ apps'[a].prestarted
    /\ ld < CpuLoadThreshold[a]
    /\ \A b \in Apps : IsQueued(queue', b) => Priority[a] <= Priority[b]

ServedFrom(q, a) == queue'[a] < q[a] \/ a \in pings' \ pings

(* The state machine serves one application per run, from the top of the   *)
(* queue, and what stays behind was in the queue before.                   *)
LEMMA RunStateServesInTurn ==
  ASSUME NEW ap, NEW q, NEW ld, NEW vect, Handed(ap, q, vect), RunState(ap, q, ld),
         NEW a \in Apps, ServedFrom(q, a)
  PROVE  InTurn(a, ld)
  <1>1. q \in [Apps -> Nat] /\ ap \in [Apps -> AppRecord]
    BY DEF Handed
  <1>2. \/ queue' = q /\ pings' = pings
        \/ \E top \in Tops(q) : /\ ld < CpuLoadThreshold[top]
                                /\ queue' = Pop(q, top)
                                /\ SendPrestartRequest(ap, top)
    BY DEF RunState, StateWaitForPrestart, StateWaitForCPU
  <1>3. ~(queue' = q /\ pings' = pings)
    BY <1>1 DEF ServedFrom
  <1>4. PICK top \in Tops(q) : /\ ld < CpuLoadThreshold[top]
                               /\ queue' = Pop(q, top)
                               /\ SendPrestartRequest(ap, top)
    BY <1>2, <1>3
  <1>5. top \in Apps /\ \A b \in Apps : IsQueued(q, b) => Priority[top] <= Priority[b]
    BY DEF Tops
  <1>6. a = top
    <2>1. SUFFICES ASSUME a # top PROVE FALSE
      OBVIOUS
    <2>2. queue'[a] = q[a] /\ a \notin pings' \ pings
      BY <1>1, <1>4, <1>5, <2>1 DEF Pop, SendPrestartRequest
    <2>3. QED
      BY <1>1, <2>2 DEF ServedFrom
  <1>7. top \in pings' \/ apps'[top].prestarted
    BY <1>4 DEF SendPrestartRequest
  <1>8. ASSUME NEW b \in Apps, IsQueued(queue', b) PROVE IsQueued(q, b)
    BY <1>1, <1>4, <1>5, <1>8 DEF Pop, IsQueued
  <1>9. QED
    BY <1>4, <1>5, <1>6, <1>7, <1>8 DEF InTurn

(* An entry leaves the queue, and a service is pinged, only when the load  *)
(* last delivered is below its threshold and nothing more important stays  *)
(* behind (stateWaitForCPU, ComparePriority, sendPrestartRequest).  Only   *)
(* the two handlers that run the state machine serve anybody: a read of    *)
(* the configuration fills the queue, the others leave it alone.           *)
THEOREM AlwaysServedInTurn == Spec => ServedInTurn
  <1>1. ASSUME IInv, [Next]_vars, NEW a \in Apps, Served(a)
        PROVE  InTurn(a, load')
    <2>1. queue \in [Apps -> Nat] /\ vectApps \subseteq Apps
      BY <1>1 DEF IInv, TypeOK
    <2>2. ASSUME NEW l \in Loads, UpdateCPULoad(l) PROVE InTurn(a, load')
      <3>1. running /\ load' = l /\ RunState(apps, queue, l)
        BY <2>2 DEF UpdateCPULoad, Listening
      <3>2. Handed(apps, queue, vectApps)
        BY <1>1, <3>1, RunningIInv
      <3>3. ServedFrom(queue, a)
        BY <1>1 DEF Served, ServedFrom
      <3>4. QED
        BY <3>1, <3>2, <3>3, RunStateServesInTurn
    <2>3. ASSUME NEW b \in Apps, HandleUnregisteredService(b) PROVE InTurn(a, load')
      <3>1. apps[b].prestarted
        <4>1. ~apps[b].prestarted => queue' = queue /\ pings' = pings
          BY <2>3 DEF HandleUnregisteredService, machineVars
        <4>2. QED
          BY <1>1, <2>1, <4>1 DEF Served
      <3>2. /\ running /\ b \in vectApps /\ load' = load
            /\ RunState(UnregisteredRecords(b), UnregisteredQueue(b), load)
        BY <2>3, <3>1 DEF HandleUnregisteredService, Listening,
           UnregisteredRecords, UnregisteredQueue, Unregistered
      <3>3. Handed(UnregisteredRecords(b), UnregisteredQueue(b), vectApps)
        BY <1>1, <3>2, UnregisteredHanded
      <3>4. queue[a] <= UnregisteredQueue(b)[a] /\ UnregisteredQueue(b)[a] \in Nat
        BY <2>1 DEF UnregisteredQueue, Push
      <3>5. queue'[a] \in Nat \/ ~(queue'[a] < queue[a])
        <4>1. queue' \in [Apps -> Nat]
          BY <1>1, StepIInv DEF IInv, TypeOK
        <4>2. QED
          BY <4>1
      <3>6. ServedFrom(UnregisteredQueue(b), a)
        BY <1>1, <2>1, <3>4, <3>5 DEF Served, ServedFrom
      <3>7. QED
        BY <3>2, <3>3, <3>6, RunStateServesInTurn
    <2>4. ASSUME NEW listed, NEW bus, NEW windowed, RunPrestarts(listed, bus, windowed)
          PROVE  FALSE
      <3>1. queue' = PushAll(queue, vectApps \cup listed) /\ pings' = pings
        BY <2>4 DEF RunPrestarts, StateInit, StateWaitForPrestart
      <3>2. ~(queue'[a] < queue[a])
        BY <2>1, <3>1 DEF PushAll
      <3>3. QED
        BY <1>1, <3>1, <3>2 DEF Served
    <2>5. ASSUME NEW b, AnswerPing(b) PROVE FALSE
      BY <1>1, <2>1, <2>5 DEF AnswerPing, Served
    <2>6. ASSUME queue' = queue, pings' = pings PROVE FALSE
      BY <1>1, <2>1, <2>6 DEF Served
    <2>7. ASSUME NEW b, NEW pid, HandleRegisteredService(b, pid) PROVE FALSE
      BY <2>6, <2>7 DEF HandleRegisteredService, machineVars
    <2>8. ASSUME NEW pid, ReleasedPrestart(pid) \/ RestoredPrestart(pid) PROVE FALSE
      BY <2>6, <2>8 DEF ReleasedPrestart, RestoredPrestart, machineVars
    <2>9. ASSUME NEW gone, TriggerForcedRePrestarts(gone) \/ KillPrestartedApplications(gone)
          PROVE  FALSE
      BY <2>6, <2>9 DEF TriggerForcedRePrestarts, KillPrestartedApplications, machineVars
    <2>10. ASSUME \/ RunPrestartsFails \/ ExitTestMode
                  \/ \E newState \in BOOLEAN : HandleScreenBlanked(newState)
                  \/ UNCHANGED vars
           PROVE  FALSE
      BY <2>6, <2>10 DEF RunPrestartsFails, ExitTestMode, HandleScreenBlanked, machineVars, vars
    <2>11. QED
      BY <1>1, <2>2, <2>3, <2>4, <2>5, <2>6, <2>7, <2>8, <2>9, <2>10
         DEF Next, Step, HandleServiceOwnerChange, vars
  <1>2. IInv /\ [Next]_vars => [\A a \in Apps : Served(a) => InTurn(a, load')]_vars
    BY <1>1
  <1>3. QED
    BY <1>2, IInvAlways, PTL DEF Spec, ServedInTurn, InTurn

-----------------------------------------------------------------------------
(***************************************************************************)
(* From SIGTERM to SIGKILL.                                                *)
(***************************************************************************)
KillSettled(a) == \/ apps[a].sigKillSent
                  \/ apps[a].released \/ ~apps[a].rePrestarting
                  \/ ~blanked \/ ~running

(* What the state machine does with an application that is not scheduled,  *)
(* and with one that is as it was.                                         *)
LEMMA RunStateSchedule ==
  ASSUME NEW ap, NEW q, NEW ld, NEW vect, Handed(ap, q, vect), RunState(ap, q, ld),
         NEW a \in Apps, ap[a] = apps[a] \/ ~ap[a].rePrestarting
  PROVE  apps'[a] = apps[a] \/ ~apps'[a].rePrestarting
  <1>1. ap[a] \in AppRecord
    BY DEF Handed
  <1>2. QED
    BY <1>1, RunStateRecords, RequestedFields

(* An application that was sent SIGTERM and is still there keeps its       *)
(* schedule and the timer that will send SIGKILL, until that is sent, the  *)
(* user looks at the device or at the application, or its process turns    *)
(* out to be gone: the safety half of ForcedRePrestartCarriedOut.  The     *)
(* timer is stopped only by the end of the blank screen, and another       *)
(* "blanked" while it runs does not lose it (handleScreenBlanked,          *)
(* triggerForcedRePrestarts, killApp).                                     *)
THEOREM SurvivorsStayScheduled ==
  Spec => [][\A a \in Apps : SurvivedSigterm(a) =>
                SurvivedSigterm(a)' \/ KillSettled(a)']_vars
  <1>1. ASSUME IInv, [Next]_vars, NEW a \in Apps, SurvivedSigterm(a), ~UNCHANGED vars
        PROVE  SurvivedSigterm(a)' \/ KillSettled(a)'
    <2> DEFINE Goal == SurvivedSigterm(a)' \/ KillSettled(a)'
    <2>1. /\ apps \in [Apps -> AppRecord] /\ apps[a] \in AppRecord
          /\ forcedTimer /\ apps[a].sigTermSent
          /\ apps[a].rePrestarting /\ ~apps[a].released
      BY <1>1 DEF IInv, TypeOK, SurvivedSigterm
    <2>2. a \in vectApps
      BY <1>1, <2>1 DEF IInv, TypeOK, NewApp
    <2>3. ASSUME apps'[a] = apps[a] \/ ~apps'[a].rePrestarting, forcedTimer' = forcedTimer
          PROVE  Goal
      BY <2>1, <2>3 DEF SurvivedSigterm, KillSettled
    <2>4. ASSUME running' = FALSE PROVE Goal
      BY <2>4 DEF KillSettled
    <2>5. ASSUME NEW listed, NEW bus, NEW windowed, RunPrestarts(listed, bus, windowed)
          PROVE  Goal
      BY <2>2, <2>3, <2>5 DEF RunPrestarts, StateInit, StateWaitForPrestart, ReadConfiguration
    <2>6. ASSUME NEW b \in Apps, NEW pid \in Pids \cup {NoPid}, HandleRegisteredService(b, pid)
          PROVE  Goal
      <3>1. /\ forcedTimer' = forcedTimer
            /\ \/ apps'[a] = apps[a]
               \/ apps'[a] = SetPrestarted(SetPid(apps[a], pid), TRUE)
        BY <2>1, <2>6 DEF HandleRegisteredService
      <3>2. LET app == SetPrestarted(SetPid(apps[a], pid), TRUE)
            IN  app.sigTermSent /\ app.rePrestarting /\ ~app.released
        BY <2>1 DEF SetPrestarted, SetPid, AppRecord
      <3>3. QED
        BY <2>1, <2>3, <3>1, <3>2, Zenon DEF SurvivedSigterm
    <2>7. ASSUME NEW b \in Apps, HandleUnregisteredService(b) PROVE Goal
      <3>1. forcedTimer' = forcedTimer
        BY <2>7 DEF HandleUnregisteredService
      <3>2. CASE ~apps[b].prestarted
        <4>1. apps' = apps
          BY <2>7, <3>2 DEF HandleUnregisteredService
        <4>2. QED
          BY <2>3, <3>1, <4>1
      <3>3. CASE apps[b].prestarted
        <4>1. /\ running /\ b \in vectApps
              /\ RunState(UnregisteredRecords(b), UnregisteredQueue(b), load)
          BY <2>7, <3>3 DEF HandleUnregisteredService, Listening, UnregisteredRecords,
             UnregisteredQueue, Unregistered
        <4>2. /\ Handed(UnregisteredRecords(b), UnregisteredQueue(b), vectApps)
              /\ \/ UnregisteredRecords(b)[a] = apps[a]
                 \/ ~UnregisteredRecords(b)[a].rePrestarting
          BY <1>1, <4>1, UnregisteredHanded
        <4>3. apps'[a] = apps[a] \/ ~apps'[a].rePrestarting
          BY <4>1, <4>2, RunStateSchedule
        <4>4. QED
          BY <2>3, <3>1, <4>3
      <3>4. QED
        BY <3>2, <3>3
    <2>8. ASSUME NEW l \in Loads, UpdateCPULoad(l) PROVE Goal
      <3>1. running /\ RunState(apps, queue, l) /\ forcedTimer' = forcedTimer
        BY <2>8 DEF UpdateCPULoad, Listening
      <3>2. apps'[a] = apps[a] \/ ~apps'[a].rePrestarting
        BY <1>1, <3>1, RunningIInv, RunStateSchedule
      <3>3. QED
        BY <2>3, <3>1, <3>2
    <2>9. ASSUME NEW pid, ReleasedPrestart(pid) PROVE Goal
      <3>1. /\ forcedTimer' = forcedTimer
            /\ apps'[a] = apps[a] \/ apps'[a] = SetReleased(apps[a], TRUE)
        BY <2>9 DEF ReleasedPrestart
      <3>2. SetReleased(apps[a], TRUE).released
        BY <2>1, SetReleasedFields
      <3>3. QED
        BY <2>3, <3>1, <3>2 DEF KillSettled
    <2>10. ASSUME NEW pid, RestoredPrestart(pid) PROVE Goal
      BY <2>1, <2>3, <2>10 DEF RestoredPrestart
    <2>11. ASSUME NEW newState, HandleScreenBlanked(newState) PROVE Goal
      BY <2>1, <2>11 DEF HandleScreenBlanked, SurvivedSigterm, KillSettled
    <2>12. ASSUME NEW gone, TriggerForcedRePrestarts(gone) PROVE Goal
      <3>1. apps'[a] = KillApp(apps[a], gone)
        BY <2>1, <2>2, <2>12 DEF TriggerForcedRePrestarts
      <3>2. KillApp(apps[a], gone).sigKillSent \/ ~KillApp(apps[a], gone).rePrestarting
        BY <2>1 DEF KillApp, SetRePrestarting, AppRecord
      <3>3. QED
        BY <3>1, <3>2 DEF KillSettled
    <2>13. ASSUME \/ RunPrestartsFails \/ ExitTestMode
                  \/ \E gone : KillPrestartedApplications(gone)
           PROVE  Goal
      BY <2>4, <2>13 DEF RunPrestartsFails, ExitTestMode, KillPrestartedApplications
    <2>14. ASSUME NEW b, AnswerPing(b) PROVE Goal
      BY <2>3, <2>14 DEF AnswerPing
    <2> HIDE DEF Goal
    <2>15. Goal
      BY <1>1, <2>5, <2>6, <2>7, <2>8, <2>9, <2>10, <2>11, <2>12, <2>13, <2>14
         DEF Next, Step, HandleServiceOwnerChange
    <2>16. QED
      BY <2>15 DEF Goal
  <1>2. IInv /\ [Next]_vars =>
          [\A a \in Apps : SurvivedSigterm(a) => SurvivedSigterm(a)' \/ KillSettled(a)']_vars
    BY <1>1
  <1>3. QED
    BY <1>2, IInvAlways, PTL DEF Spec

-----------------------------------------------------------------------------
(***************************************************************************)
(* The queue drains.  What follows are the steps the liveness of the queue *)
(* is made of; that the steps are taken is a matter of fairness.           *)
(***************************************************************************)

(* A set of natural numbers has a least element. *)
LEMMA LeastNatural ==
  ASSUME NEW T \in SUBSET Nat, T # {}
  PROVE  \E x \in T : \A y \in T : x <= y
  <1> DEFINE Less == {p \in Nat \X Nat : p[1] < p[2]}
  <1>1. IsWellFoundedOn(Less, Nat)
    BY NatLessThanWellFounded, Zenon DEF OpToRel
  <1>2. PICK x \in T : \A y \in T : ~(<<y, x>> \in Less)
    <2> HIDE DEF Less
    <2>1. QED
      BY <1>1, WFMin
  <1>3. ASSUME NEW y \in T PROVE x <= y
    <2>1. x \in Nat /\ y \in Nat
      OBVIOUS
    <2>2. <<y, x>> \in Nat \X Nat /\ <<y, x>>[1] = y /\ <<y, x>>[2] = x
      BY <2>1
    <2>3. ~(y < x)
      BY <1>2, <2>2
    <2>4. QED
      BY <2>1, <2>3
  <1>4. QED
    BY <1>3

(* A queue that is not empty has a top, if there are finitely many         *)
(* applications: among the first k of them there is one as soon as one of  *)
(* them is queued, by induction over k.                                    *)
LEMMA QueueHasTop ==
  ASSUME IsFiniteSet(Apps), NEW q \in [Apps -> Nat], ~IsEmpty(q)
  PROVE  Tops(q) # {}
  <1>1. PICK listed \in Seq(Apps) : \A a \in Apps : \E i \in 1..Len(listed) : listed[i] = a
    BY DEF IsFiniteSet
  <1>2. Len(listed) \in Nat /\ \A i \in 1..Len(listed) : listed[i] \in Apps
    OBVIOUS
  <1> DEFINE n == Len(listed)
             Queued(k) == {i \in 1..k : IsQueued(q, listed[i])}
             Top(k, i) == \A j \in Queued(k) : Priority[listed[i]] <= Priority[listed[j]]
             Bad == {k \in 0..n : Queued(k) # {} /\ \A i \in Queued(k) : ~Top(k, i)}
  <1>3. \A i \in 1..n : Priority[listed[i]] \in Int
    BY <1>2, ConfigAssumption
  <1>4. Bad = {}
    <2>1. SUFFICES ASSUME Bad # {} PROVE FALSE
      OBVIOUS
    <2>2. Bad \in SUBSET Nat
      BY <1>2
    <2>3. PICK k \in Bad : \A m \in Bad : k <= m
      <3> HIDE DEF Bad
      <3>1. QED
        BY <2>1, <2>2, LeastNatural
    <2>4. k \in 1..n /\ k - 1 \in 0..n /\ Queued(k) # {} /\ \A i \in Queued(k) : ~Top(k, i)
      BY <1>2
    <2>5. k - 1 \notin Bad
      <3>1. ~(k <= k - 1)
        BY <2>4
      <3> HIDE DEF Bad
      <3>2. QED
        BY <2>3, <3>1
    <2>6. /\ Queued(k - 1) \subseteq Queued(k) /\ Queued(k) \subseteq Queued(k - 1) \cup {k}
          /\ Queued(k) \subseteq 1..n
      BY <1>2, <2>4
    <2>7. CASE Queued(k - 1) = {}
      <3>1. Queued(k) = {k}
        BY <2>4, <2>6, <2>7
      <3>2. Priority[listed[k]] \in Int
        BY <1>3, <2>4
      <3> HIDE DEF Queued
      <3>3. Top(k, k)
        BY <3>1, <3>2
      <3>4. QED
        BY <2>4, <3>1, <3>3
    <2>8. CASE Queued(k - 1) # {}
      <3>1. PICK t \in Queued(k - 1) : Top(k - 1, t)
        BY <2>4, <2>5, <2>8
      <3>2. t \in Queued(k) /\ t \in 1..n
        BY <2>6
      <3>3. Priority[listed[t]] \in Int /\ Priority[listed[k]] \in Int
        BY <1>3, <2>4, <3>2
      <3>4. CASE k \in Queued(k) /\ Priority[listed[k]] < Priority[listed[t]]
        <4>1. Top(k, k)
          <5>1. SUFFICES ASSUME NEW j \in Queued(k)
                         PROVE  Priority[listed[k]] <= Priority[listed[j]]
            OBVIOUS
          <5> HIDE DEF Queued
          <5>2. CASE j = k
            <6>1. Priority[listed[k]] <= Priority[listed[k]]
              BY <3>3
            <6>2. QED
              BY <5>2, <6>1, Zenon
          <5>3. CASE j \in Queued(k - 1)
            <6>1. Priority[listed[t]] <= Priority[listed[j]] /\ Priority[listed[j]] \in Int
              BY <1>3, <2>6, <3>1, <5>3
            <6>2. QED
              BY <3>3, <3>4, <6>1
          <5>4. QED
            BY <2>6, <5>2, <5>3
        <4>2. QED
          BY <2>4, <3>4, <4>1
      <3>5. CASE ~(k \in Queued(k) /\ Priority[listed[k]] < Priority[listed[t]])
        <4>1. ASSUME NEW j \in Queued(k)
              PROVE  Priority[listed[t]] <= Priority[listed[j]]
          <5> HIDE DEF Queued
          <5>1. CASE j = k
            <6>1. k \in Queued(k)
              BY <5>1
            <6>2. Priority[listed[t]] <= Priority[listed[k]]
              BY <3>3, <3>5, <6>1
            <6>3. QED
              BY <5>1, <6>2, Zenon
          <5>2. CASE j \in Queued(k - 1)
            BY <3>1, <5>2
          <5>3. QED
            BY <2>6, <5>1, <5>2
        <4>2. QED
          BY <2>4, <3>2, <4>1
      <3>6. QED
        BY <3>4, <3>5
    <2>9. QED
      BY <2>7, <2>8
  <1>5. Queued(n) # {}
    BY <1>1 DEF IsEmpty
  <1>6. n \in 0..n
    BY <1>2
  <1>7. PICK i \in Queued(n) : Top(n, i)
    BY <1>4, <1>5, <1>6
  <1>8. listed[i] \in Apps /\ IsQueued(q, listed[i])
    BY <1>2
  <1>9. ASSUME NEW b \in Apps, IsQueued(q, b)
        PROVE  Priority[listed[i]] <= Priority[b]
    <2>1. PICK j \in 1..n : listed[j] = b
      BY <1>1
    <2>2. j \in Queued(n)
      BY <1>9, <2>1
    <2>3. QED
      BY <1>7, <2>1, <2>2
  <1>10. listed[i] \in Tops(q)
    BY <1>8, <1>9 DEF Tops
  <1>11. QED
    BY <1>10

(* A queue that is not empty is polled for and has a top. *)
PollFindsSomebody == ~IsEmpty(queue) => polling /\ Tops(queue) # {}

(* Whatever is queued, the timer runs and finds somebody to start, so no   *)
(* poll is lost on a queue that is not empty (stateWaitForCPU,             *)
(* ComparePriority).                                                       *)
THEOREM QueueNeverStuck ==
  ASSUME IsFiniteSet(Apps)
  PROVE  Spec => []PollFindsSomebody
  <1>1. IInv => PollFindsSomebody
    BY QueueHasTop DEF IInv, MachineOK, TypeOK, PollFindsSomebody
  <1>2. QED
    BY <1>1, IInvAlways, PTL

(* What a poll below every threshold does: it takes one entry from the top *)
(* and pings its application, unless that is there already; only when      *)
(* nothing is queued does it take none, and then it stops the polling.  So *)
(* duplicates and applications that run already hold up nobody             *)
(* (updateCPULoad, stateWaitForCPU, sendPrestartRequest).                  *)
TakesTop(a) == /\ queue' = Pop(queue, a)
               /\ a \in pings' \/ apps[a].prestarted

Drains == IF IsEmpty(queue)
          THEN queue' = queue /\ pings' = pings /\ ~polling'
          ELSE polling' /\ \E a \in Tops(queue) : TakesTop(a)

(* The other steps take a most important application out of the queue by   *)
(* serving it only, so between two quiet polls it keeps its place.         *)
KeepsItsPlace(a) == IsQueued(queue', a) \/ a \in pings' \/ apps'[a].prestarted

(* Every quiet poll brings the queue nearer to its end, and the most       *)
(* important application in it is served by the first one: the safety      *)
(* halves of QueueDrains and MostImportantServed (stateWaitForCPU,         *)
(* ComparePriority).                                                       *)
THEOREM QuietPollsDrain ==
  Spec => /\ [][\A l \in QuietLoads : UpdateCPULoad(l) => Drains]_vars
          /\ [][\A a \in MostImportant : IsQueued(queue, a) =>
                  /\ KeepsItsPlace(a)
                  /\ \A l \in QuietLoads : UpdateCPULoad(l) => TakesTop(a)]_vars
  <1>1. ASSUME IInv, NEW l \in QuietLoads, UpdateCPULoad(l)
        PROVE  Drains
    <2>1. state = "WaitForCPU" /\ polling /\ queue \in [Apps -> Nat]
      BY <1>1 DEF IInv, MachineOK, TypeOK, UpdateCPULoad
    <2>2. StateWaitForCPU(apps, queue, l)
      BY <1>1, <2>1 DEF UpdateCPULoad, RunState
    <2>3. CASE /\ IsEmpty(queue) /\ queue' = queue /\ polling' = FALSE /\ UNCHANGED pings
      BY <2>3 DEF Drains
    <2>4. ASSUME UNCHANGED polling, NEW top \in Tops(queue),
                 queue' = Pop(queue, top) /\ SendPrestartRequest(apps, top)
          PROVE  Drains
      <3>1. top \in Apps /\ IsQueued(queue, top)
        BY DEF Tops
      <3>2. ~IsEmpty(queue)
        BY <3>1 DEF IsEmpty
      <3>3. TakesTop(top)
        BY <2>4 DEF TakesTop, SendPrestartRequest
      <3>4. QED
        BY <2>1, <2>4, <3>2, <3>3 DEF Drains
    <2>5. \A top \in Tops(queue) : l < CpuLoadThreshold[top]
      BY DEF Tops, QuietLoads
    <2>6. QED
      BY <2>2, <2>3, <2>4, <2>5 DEF StateWaitForCPU
  <1>2. ASSUME IInv, NEW l \in QuietLoads, UpdateCPULoad(l),
               NEW a \in MostImportant, IsQueued(queue, a)
        PROVE  TakesTop(a)
    <2>1. a \in Apps /\ ~IsEmpty(queue)
      BY <1>2 DEF MostImportant, IsEmpty
    <2>2. PICK b \in Tops(queue) : TakesTop(b)
      BY <1>1, <1>2, <2>1 DEF Drains
    <2>3. b = a
      <3>1. SUFFICES ASSUME b # a PROVE FALSE
        OBVIOUS
      <3>2. b \in Apps \ {a} /\ Priority[b] <= Priority[a]
        BY <1>2, <2>1, <3>1 DEF Tops
      <3>3. Priority[a] < Priority[b]
        BY <3>2 DEF MostImportant
      <3>4. Priority[a] \in Int /\ Priority[b] \in Int
        BY <2>1, <3>2, ConfigAssumption
      <3>5. QED
        BY <3>2, <3>3, <3>4
    <2>4. QED
      BY <2>2, <2>3
  <1>3. ASSUME IInv, IInv', NEW a \in Apps, IsQueued(queue, a),
               Served(a) => InTurn(a, load')
        PROVE  KeepsItsPlace(a)
    <2>1. queue \in [Apps -> Nat] /\ queue' \in [Apps -> Nat]
      BY <1>3 DEF IInv, TypeOK
    <2>2. CASE queue'[a] < queue[a]
      BY <1>3, <2>2 DEF Served, InTurn, KeepsItsPlace
    <2>3. CASE ~(queue'[a] < queue[a])
      BY <1>3, <2>1, <2>3 DEF IsQueued, KeepsItsPlace
    <2>4. QED
      BY <2>2, <2>3
  <1>4. MostImportant \subseteq Apps
    BY DEF MostImportant
  <1> DEFINE Turns == \A a \in Apps : Served(a) => InTurn(a, load')
             Polls == \A l \in QuietLoads : UpdateCPULoad(l) => Drains
             First == \A a \in MostImportant : IsQueued(queue, a) =>
                        /\ KeepsItsPlace(a)
                        /\ \A l \in QuietLoads : UpdateCPULoad(l) => TakesTop(a)
  <1>5. IInv /\ IInv' /\ [Turns]_vars => [Polls]_vars /\ [First]_vars
    BY <1>1, <1>2, <1>3, <1>4
  <1>6. ServedInTurn => [][Turns]_vars
    <2>1. [\A a \in Apps : Served(a) =>
             /\ a \in pings' \/ apps'[a].prestarted
             /\ load' < CpuLoadThreshold[a]
             /\ \A b \in Apps : IsQueued(queue', b) => Priority[a] <= Priority[b]]_vars
          => [Turns]_vars
      BY DEF InTurn
    <2>2. QED
      BY <2>1, PTL DEF ServedInTurn
  <1>7. QED
    BY <1>5, <1>6, IInvAlways, AlwaysServedInTurn, PTL
=============================================================================
