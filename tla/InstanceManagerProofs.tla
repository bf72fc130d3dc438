------------------------ MODULE InstanceManagerProofs ------------------------
(***************************************************************************)
(* InstanceManager: the invariants that the runs check on small instances, *)
(* proved for every set of instances, any number of runs and all           *)
(* thresholds.                                                             *)
(*                                                                         *)
(* The inductive invariant is IInv: the types, what the call in progress   *)
(* relies on (CallInv), handle and run number agree (HandleInv), and the   *)
(* six safety properties themselves, which need each other. There is one   *)
(* lemma per action; its first step collects the parts the action leaves   *)
(* alone, the others are the parts it can disturb.                         *)
(***************************************************************************)
EXTENDS InstanceManager, TLAPS

USE IdsAssumption, MaxRunsAssumption, ThresholdAssumption

\* health.rs, assess_layers: whatever was observed, the new counters are within
\* the width of the counters and the new state is one the health loop may write.
LEMMA AssessLayersType ==
  ASSUME NEW alive \in BOOLEAN, NEW up \in BOOLEAN, NEW current,
         NEW failures \in Counter, NEW successes \in Counter
  PROVE  LET v == AssessLayers(alive, up, current, failures, successes)
         IN  /\ v.state \in {"Healthy", "Degraded", "Failed"}
             /\ v.failures \in Counter
             /\ v.successes \in Counter
<1>1. /\ 0 \in Counter
      /\ SaturatingInc(failures) \in Counter
      /\ SaturatingInc(successes) \in Counter
  BY DEF Counter, SaturatingInc
<1> QED BY <1>1 DEF AssessLayers

\* reconciler: a new registry entry, for an instance of which nothing runs.
LEMMA RegistryInsertPreserves ==
  ASSUME NEW i \in Ids, IInv, RegistryInsert(i)
  PROVE  IInv'
<1> USE DEF RegistryInsert, runsTable, numbers, procs, watchers, caller
<1>1. /\ RunsTypeOK' /\ ProcsTypeOK' /\ WatchersTypeOK' /\ CallerTypeOK'
      /\ HealthTypeOK' /\ HandleInv' /\ ProcessesOwned' /\ WatchersCurrent'
      /\ StoppedIsDead' /\ PidIsCurrent' /\ HealthyIsVerified'
  BY DEF IInv, TypeOK, RunsTypeOK, ProcsTypeOK, WatchersTypeOK, CallerTypeOK,
         HealthTypeOK, HandleInv, ProcessesOwned, WatchersCurrent,
         StoppedIsDead, PidIsCurrent, HealthyIsVerified
<1>2. RegistryTypeOK'
  BY DEF IInv, TypeOK, RegistryTypeOK, States, Counter
<1>3. CallInv'
  BY DEF IInv, CallInv
<1>4. InServiceIsManaged'
  BY DEF IInv, InServiceIsManaged, InService
<1> QED BY <1>1, <1>2, <1>3, <1>4 DEF IInv, TypeOK

\* manager.rs, start: only an instance without a handle is started.
LEMMA CallStartPreserves ==
  ASSUME NEW i \in Ids, IInv, CallStart(i)
  PROVE  IInv'
<1> USE DEF CallStart, Acquire, registry, runsTable, numbers, procs, watchers
<1>1. /\ RegistryTypeOK' /\ RunsTypeOK' /\ ProcsTypeOK' /\ WatchersTypeOK'
      /\ HealthTypeOK' /\ HandleInv' /\ InServiceIsManaged'
      /\ HealthyIsVerified'
  BY DEF IInv, TypeOK, RegistryTypeOK, RunsTypeOK, ProcsTypeOK, WatchersTypeOK,
         HealthTypeOK, HandleInv, InServiceIsManaged, HealthyIsVerified
<1>2. CallerTypeOK'
  BY DEF IInv, CallerTypeOK, StartPcs, Kinds
<1>3. CallInv'
  BY DEF IInv, CallInv, StopPcs
<1>4. ProcessesOwned'
  BY DEF IInv, ProcessesOwned, Spawned, Verifying
<1>5. WatchersCurrent'
  BY DEF IInv, WatchersCurrent, Verifying
<1>6. StoppedIsDead'
  BY DEF IInv, CallInv, StoppedIsDead
<1>7. PidIsCurrent'
  BY DEF IInv, PidIsCurrent, Verifying
<1> QED BY <1>1, <1>2, <1>3, <1>4, <1>5, <1>6, <1>7 DEF IInv, TypeOK

\* manager.rs, do_stop: the watcher is told to end before it is joined, and an
\* instance that is being stopped is out of service from the first step on.
LEMMA CallDoStopPreserves ==
  ASSUME NEW i \in Ids, NEW k \in Kinds, IInv, CallDoStop(i, k)
  PROVE  IInv'
<1> USE DEF CallDoStop, SetState, CancelWatcher, Acquire, Release, numbers,
    procs
<1>1. /\ RunsTypeOK' /\ ProcsTypeOK' /\ HealthTypeOK' /\ HandleInv'
      /\ HealthyIsVerified'
  BY DEF IInv, TypeOK, RunsTypeOK, ProcsTypeOK, HealthTypeOK, HandleInv,
         HealthyIsVerified
<1>2. RegistryTypeOK'
  BY DEF IInv, TypeOK, RegistryTypeOK, States, Counter
<1>3. WatchersTypeOK'
  BY DEF IInv, TypeOK, WatchersTypeOK, CallInv, Runs, WatcherActive
<1>4. CallerTypeOK'
  BY DEF IInv, CallerTypeOK, StopPcs, Kinds
<1>5. CallInv'
  BY DEF IInv, TypeOK, RegistryTypeOK, RunsTypeOK, CallInv, StoppedIsDead,
         StartPcs, Spawned, Verifying
<1>6. ProcessesOwned'
  BY DEF IInv, ProcessesOwned, Spawned, Verifying
<1>7. WatchersCurrent'
  BY DEF IInv, WatchersCurrent, WatcherActive, Verifying
<1>8. InServiceIsManaged'
  BY DEF IInv, TypeOK, RegistryTypeOK, InServiceIsManaged, InService
<1>9. StoppedIsDead'
  BY DEF IInv, CallInv, StoppedIsDead
<1>10. PidIsCurrent'
  BY DEF IInv, PidIsCurrent, Verifying
<1> QED BY <1>1, <1>2, <1>3, <1>4, <1>5, <1>6, <1>7, <1>8, <1>9, <1>10 DEF IInv, TypeOK

\* manager.rs, stop of an instance without a handle: there is nothing to stop.
LEMMA CallStopIdlePreserves ==
  ASSUME NEW i \in Ids, NEW k \in Kinds, IInv, CallStopIdle(i, k)
  PROVE  IInv'
<1> USE DEF CallStopIdle, SetState, RemoveEntry, runsTable, numbers, procs,
    watchers, caller
<1>1. /\ RunsTypeOK' /\ ProcsTypeOK' /\ WatchersTypeOK' /\ CallerTypeOK'
      /\ HealthTypeOK' /\ HandleInv' /\ ProcessesOwned' /\ WatchersCurrent'
  BY DEF IInv, TypeOK, RunsTypeOK, ProcsTypeOK, WatchersTypeOK, CallerTypeOK,
         HealthTypeOK, HandleInv, ProcessesOwned, WatchersCurrent
<1>2. RegistryTypeOK'
  BY DEF IInv, TypeOK, RegistryTypeOK, States, Counter
<1>3. CallInv'
  BY DEF IInv, CallInv, StartPcs, StopPcs, Spawned, Verifying
<1>4. InServiceIsManaged'
  BY DEF IInv, TypeOK, RegistryTypeOK, InServiceIsManaged, InService
<1>5. StoppedIsDead'
  <2>1. lock # i
    BY DEF IInv, CallInv
  <2>2. svcLive[i] = {} /\ \A q \in Runs : wpc[i][q] \notin WatcherActive
    BY <2>1 DEF IInv, TypeOK, ProcsTypeOK, ProcessesOwned, WatchersCurrent, Runs
  <2>3. ASSUME NEW j \in Ids \ {i} PROVE state'[j] = state[j]
    BY DEF IInv, TypeOK, RegistryTypeOK
  <2> QED BY <2>2, <2>3 DEF IInv, StoppedIsDead
<1>6. PidIsCurrent'
  BY DEF IInv, TypeOK, RegistryTypeOK, PidIsCurrent
<1>7. HealthyIsVerified'
  BY DEF IInv, TypeOK, RegistryTypeOK, HealthyIsVerified
<1> QED BY <1>1, <1>2, <1>3, <1>4, <1>5, <1>6, <1>7 DEF IInv, TypeOK

\* manager.rs, restart of an instance without a handle is a start.
LEMMA CallRestartIdlePreserves ==
  ASSUME NEW i \in Ids, IInv, CallRestartIdle(i)
  PROVE  IInv'
<1> USE DEF CallRestartIdle, Acquire, registry, runsTable, numbers, procs,
    watchers
<1>1. /\ RegistryTypeOK' /\ RunsTypeOK' /\ ProcsTypeOK' /\ WatchersTypeOK'
      /\ HealthTypeOK' /\ HandleInv' /\ InServiceIsManaged'
      /\ HealthyIsVerified'
  BY DEF IInv, TypeOK, RegistryTypeOK, RunsTypeOK, ProcsTypeOK, WatchersTypeOK,
         HealthTypeOK, HandleInv, InServiceIsManaged, HealthyIsVerified
<1>2. CallerTypeOK'
  BY DEF IInv, CallerTypeOK, StartPcs, Kinds
<1>3. CallInv'
  BY DEF IInv, CallInv, StopPcs
<1>4. ProcessesOwned'
  BY DEF IInv, ProcessesOwned, Spawned, Verifying
<1>5. WatchersCurrent'
  BY DEF IInv, WatchersCurrent, Verifying
<1>6. StoppedIsDead'
  BY DEF IInv, CallInv, StoppedIsDead
<1>7. PidIsCurrent'
  BY DEF IInv, PidIsCurrent, Verifying
<1> QED BY <1>1, <1>2, <1>3, <1>4, <1>5, <1>6, <1>7 DEF IInv, TypeOK

\* manager.rs, do_start: the new run begins when no watcher and no process of an
\* earlier one is left, so that moving on run and generation outdates nobody.
LEMMA BeginPreserves ==
  ASSUME IInv, Begin
  PROVE  IInv'
<1> USE DEF Begin, Goto, StartFails, SaturatingInc, Release, runsTable, procs,
    watchers
<1>1. /\ ProcsTypeOK' /\ WatchersTypeOK' /\ HealthTypeOK'
  BY DEF IInv, TypeOK, ProcsTypeOK, WatchersTypeOK, HealthTypeOK
<1>2. RegistryTypeOK'
  BY DEF IInv, TypeOK, RegistryTypeOK, States, Counter
<1>3. RunsTypeOK'
  BY DEF IInv, TypeOK, RunsTypeOK, CallerTypeOK, CallInv
<1>4. CallerTypeOK'
  BY DEF IInv, TypeOK, CallerTypeOK, StartPcs, Kinds
<1>5. CallInv'
  BY DEF IInv, TypeOK, RegistryTypeOK, RunsTypeOK, CallerTypeOK, CallInv,
         StartPcs, StopPcs, Spawned, Verifying
<1>6. HandleInv'
  BY DEF IInv, CallInv, HandleInv, StartPcs
<1>7. ProcessesOwned'
  BY DEF IInv, TypeOK, ProcsTypeOK, CallerTypeOK, CallInv, HandleInv,
         ProcessesOwned, Spawned, Verifying, Runs
<1>8. WatchersCurrent'
  <2>1. lock \in Ids /\ handle[lock] = 0
    BY DEF IInv, TypeOK, CallerTypeOK, CallInv, StartPcs
  <2>2. \A q \in Runs : wpc[lock][q] \notin WatcherActive
    BY <2>1 DEF IInv, WatchersCurrent, Verifying, Runs
  <2>3. ASSUME NEW j \in Ids \ {lock} PROVE gen'[j] = gen[j] /\ run'[j] = run[j]
    BY DEF IInv, TypeOK, RunsTypeOK
  <2> QED BY <2>1, <2>2, <2>3 DEF IInv, WatchersCurrent
<1>9. InServiceIsManaged'
  BY DEF IInv, TypeOK, RegistryTypeOK, InServiceIsManaged, InService
<1>10. StoppedIsDead'
  BY DEF IInv, TypeOK, RegistryTypeOK, StoppedIsDead
<1>11. PidIsCurrent'
  BY DEF IInv, CallInv, PidIsCurrent, StartPcs, Verifying
<1>12. HealthyIsVerified'
  BY DEF IInv, TypeOK, RegistryTypeOK, HealthyIsVerified
<1> QED BY <1>1, <1>2, <1>3, <1>4, <1>5, <1>6, <1>7, <1>8, <1>9, <1>10, <1>11,
    <1>12 DEF IInv, TypeOK

\* manager.rs, do_start: credentials fail or are in place; no process yet.
LEMMA ResolvePreserves ==
  ASSUME IInv, Resolve
  PROVE  IInv'
<1> USE DEF Resolve, Goto, StartFails, SaturatingInc, Release, registry,
    runsTable, numbers, procs, watchers
<1>1. /\ RunsTypeOK' /\ ProcsTypeOK' /\ WatchersTypeOK' /\ HealthTypeOK'
      /\ HandleInv'
  BY DEF IInv, TypeOK, RunsTypeOK, ProcsTypeOK, WatchersTypeOK, HealthTypeOK,
         HandleInv
<1>2. RegistryTypeOK'
  BY DEF IInv, TypeOK, RegistryTypeOK, States, Counter
<1>3. CallerTypeOK'
  BY DEF IInv, TypeOK, CallerTypeOK, StartPcs, Kinds
<1>4. CallInv'
  BY DEF IInv, CallInv, StartPcs, StopPcs, Spawned, Verifying
<1>5. ProcessesOwned'
  BY DEF IInv, ProcessesOwned, Spawned, Verifying
<1>6. WatchersCurrent'
  BY DEF IInv, WatchersCurrent, Verifying
<1>7. InServiceIsManaged'
  BY DEF IInv, TypeOK, RegistryTypeOK, InServiceIsManaged, InService
<1>8. StoppedIsDead'
  BY DEF IInv, TypeOK, RegistryTypeOK, StoppedIsDead
<1>9. PidIsCurrent'
  BY DEF IInv, PidIsCurrent, Verifying
<1>10. HealthyIsVerified'
  BY DEF IInv, TypeOK, RegistryTypeOK, HealthyIsVerified
<1> QED BY <1>1, <1>2, <1>3, <1>4, <1>5, <1>6, <1>7, <1>8, <1>9, <1>10 DEF IInv, TypeOK

\* dbus.rs, start: the daemon; its failure is a failed start.
LEMMA StartDbusPreserves ==
  ASSUME IInv, StartDbus
  PROVE  IInv'
<1> USE DEF StartDbus, Goto, StartFails, SaturatingInc, Release, registry,
    runsTable, numbers, watchers
<1>1. /\ RunsTypeOK' /\ WatchersTypeOK' /\ HealthTypeOK' /\ HandleInv'
  BY DEF IInv, TypeOK, RunsTypeOK, WatchersTypeOK, HealthTypeOK, HandleInv
<1>2. RegistryTypeOK'
  BY DEF IInv, TypeOK, RegistryTypeOK, States, Counter
<1>3. ProcsTypeOK'
  BY DEF IInv, TypeOK, RunsTypeOK, ProcsTypeOK, CallInv, Runs, StartPcs
<1>4. CallerTypeOK'
  BY DEF IInv, TypeOK, CallerTypeOK, StartPcs, Kinds
<1>5. CallInv'
  BY DEF IInv, CallInv, StartPcs, StopPcs, Spawned, Verifying
<1>6. ProcessesOwned'
  BY DEF IInv, ProcessesOwned, Spawned, Verifying
<1>7. WatchersCurrent'
  BY DEF IInv, WatchersCurrent, Verifying
<1>8. InServiceIsManaged'
  BY DEF IInv, TypeOK, RegistryTypeOK, InServiceIsManaged, InService
<1>9. StoppedIsDead'
  BY DEF IInv, TypeOK, RegistryTypeOK, StoppedIsDead
<1>10. PidIsCurrent'
  BY DEF IInv, PidIsCurrent, Verifying
<1>11. HealthyIsVerified'
  BY DEF IInv, TypeOK, RegistryTypeOK, HealthyIsVerified
<1> QED BY <1>1, <1>2, <1>3, <1>4, <1>5, <1>6, <1>7, <1>8, <1>9, <1>10, <1>11 DEF IInv, TypeOK

\* service.rs, start: the process belongs to the call in progress.
LEMMA StartSvcPreserves ==
  ASSUME IInv, StartSvc
  PROVE  IInv'
<1> USE DEF StartSvc, Goto, StartFails, SaturatingInc, Release, registry,
    runsTable, numbers, watchers
<1>1. /\ RunsTypeOK' /\ WatchersTypeOK' /\ HealthTypeOK' /\ HandleInv'
  BY DEF IInv, TypeOK, RunsTypeOK, WatchersTypeOK, HealthTypeOK, HandleInv
<1>2. RegistryTypeOK'
  BY DEF IInv, TypeOK, RegistryTypeOK, States, Counter
<1>3. ProcsTypeOK'
  BY DEF IInv, TypeOK, RunsTypeOK, ProcsTypeOK, CallInv, Runs, StartPcs
<1>4. CallerTypeOK'
  BY DEF IInv, TypeOK, CallerTypeOK, StartPcs, Spawned, Kinds
<1>5. CallInv'
  BY DEF IInv, CallInv, StartPcs, StopPcs, Spawned, Verifying
<1>6. ProcessesOwned'
  BY DEF IInv, TypeOK, ProcsTypeOK, ProcessesOwned, PidIsCurrent, WatcherActive,
         Spawned, Verifying, Runs
<1>7. WatchersCurrent'
  BY DEF IInv, WatchersCurrent, Verifying
<1>8. InServiceIsManaged'
  BY DEF IInv, TypeOK, RegistryTypeOK, InServiceIsManaged, InService
<1>9. StoppedIsDead'
  BY DEF IInv, TypeOK, RegistryTypeOK, ProcsTypeOK, StoppedIsDead
<1>10. PidIsCurrent'
  BY DEF IInv, PidIsCurrent, Verifying
<1>11. HealthyIsVerified'
  BY DEF IInv, TypeOK, RegistryTypeOK, HealthyIsVerified
<1> QED BY <1>1, <1>2, <1>3, <1>4, <1>5, <1>6, <1>7, <1>8, <1>9, <1>10, <1>11 DEF IInv, TypeOK

\* manager.rs, do_start: the process passes from the call to the new watcher, whose
\* generation is the current one.
LEMMA ControlPlanePreserves ==
  ASSUME IInv, ControlPlane
  PROVE  IInv'
<1> USE DEF ControlPlane, Goto, OnStarted, registry, runsTable, numbers, procs,
    watchers
<1>1. /\ RunsTypeOK' /\ ProcsTypeOK' /\ HealthTypeOK' /\ HandleInv'
  BY DEF IInv, TypeOK, RunsTypeOK, ProcsTypeOK, HealthTypeOK, HandleInv
<1>2. RegistryTypeOK'
  BY DEF IInv, TypeOK, RegistryTypeOK, RunsTypeOK, States, Counter
<1>3. WatchersTypeOK'
  <2>1. lock \in Ids /\ run[lock] \in Runs /\ gen[lock] \in Nat
    BY DEF IInv, TypeOK, CallerTypeOK, RunsTypeOK, CallInv, StartPcs, Spawned, Runs
  <2>2. CASE UNCHANGED watchers
    BY <2>2 DEF IInv, TypeOK, WatchersTypeOK
  <2>3. CASE /\ wpc' = [wpc EXCEPT ![lock][run[lock]] = "watching"]
             /\ wgen' = [wgen EXCEPT ![lock][run[lock]] = gen[lock]]
    <3>1. /\ [wpc[lock] EXCEPT ![run[lock]] = "watching"]
               \in [Runs -> WatcherActive \cup {"none", "ended", "panicked"}]
          /\ [wgen[lock] EXCEPT ![run[lock]] = gen[lock]] \in [Runs -> Nat]
      BY <2>1 DEF IInv, TypeOK, WatchersTypeOK, WatcherActive
    <3> QED BY <2>1, <2>3, <3>1 DEF IInv, TypeOK, WatchersTypeOK
  <2> QED BY <2>2, <2>3
<1>4. CallerTypeOK'
  BY DEF IInv, TypeOK, CallerTypeOK, StartPcs, Spawned, Verifying, Kinds
<1>5. CallInv'
  BY DEF IInv, TypeOK, RegistryTypeOK, CallerTypeOK, CallInv, StopPcs
<1>6. ProcessesOwned'
  BY DEF IInv, ProcessesOwned, Spawned, Verifying
<1>7. WatchersCurrent'
  <2>1. lock \in Ids /\ run[lock] \in Runs /\ handle[lock] = 0
    BY DEF IInv, TypeOK, CallerTypeOK, RunsTypeOK, CallInv, StartPcs, Spawned, Runs
  <2> SUFFICES ASSUME NEW j \in Ids, NEW q \in Runs, wpc'[j][q] \in WatcherActive
               PROVE  /\ q = run[j]
                      /\ wgen'[j][q] = gen[j]
                      /\ \/ handle[j] = q /\ (task[j] \/ (lock = j /\ pc' = "join"))
                         \/ lock = j /\ pc' \in Verifying
    BY DEF WatchersCurrent
  <2>2. CASE j = lock /\ q = run[lock]
    BY <2>1, <2>2 DEF IInv, TypeOK, WatchersTypeOK, WatchersCurrent, Verifying, Runs
  <2>3. CASE j # lock \/ q # run[lock]
    <3>1. wpc'[j][q] = wpc[j][q] /\ wgen'[j][q] = wgen[j][q]
      BY <2>1, <2>3 DEF IInv, TypeOK, WatchersTypeOK
    <3> QED BY <2>1, <3>1 DEF IInv, WatchersCurrent, Verifying, Runs
  <2> QED BY <2>2, <2>3
<1>8. InServiceIsManaged'
  BY DEF IInv, TypeOK, RegistryTypeOK, InServiceIsManaged, InService
<1>9. StoppedIsDead'
  BY DEF IInv, TypeOK, RegistryTypeOK, WatchersTypeOK, StoppedIsDead
<1>10. PidIsCurrent'
  BY DEF IInv, TypeOK, RegistryTypeOK, PidIsCurrent, Verifying
<1>11. HealthyIsVerified'
  BY DEF IInv, TypeOK, RegistryTypeOK, HealthyIsVerified
<1> QED BY <1>1, <1>2, <1>3, <1>4, <1>5, <1>6, <1>7, <1>8, <1>9, <1>10, <1>11 DEF IInv, TypeOK

\* manager.rs, do_start: a start that failed late takes its process down.
LEMMA CleanupPreserves ==
  ASSUME IInv, Cleanup
  PROVE  IInv'
<1> USE DEF Cleanup, StartFails, SaturatingInc, Release, runsTable, numbers,
    watchers
<1>1. /\ RunsTypeOK' /\ WatchersTypeOK' /\ HealthTypeOK' /\ HandleInv'
      /\ HealthyIsVerified'
  BY DEF IInv, TypeOK, RunsTypeOK, WatchersTypeOK, HealthTypeOK, HandleInv,
         HealthyIsVerified
<1>2. RegistryTypeOK'
  BY DEF IInv, TypeOK, RegistryTypeOK, CallerTypeOK, CallInv, States, Counter
<1>3. ProcsTypeOK'
  BY DEF IInv, TypeOK, ProcsTypeOK, Runs
<1>4. CallerTypeOK'
  BY DEF IInv, CallerTypeOK, Kinds
<1>5. CallInv'
  BY DEF IInv, CallInv, StartPcs, StopPcs, Spawned, Verifying
<1>6. ProcessesOwned'
  BY DEF IInv, TypeOK, ProcsTypeOK, ProcessesOwned
<1>7. WatchersCurrent'
  BY DEF IInv, WatchersCurrent, Verifying
<1>8. InServiceIsManaged'
  BY DEF IInv, InServiceIsManaged, InService
<1>9. StoppedIsDead'
  BY DEF IInv, TypeOK, RegistryTypeOK, StoppedIsDead
<1>10. PidIsCurrent'
  BY DEF IInv, PidIsCurrent, Verifying
<1> QED BY <1>1, <1>2, <1>3, <1>4, <1>5, <1>6, <1>7, <1>8, <1>9, <1>10 DEF IInv, TypeOK

\* manager.rs, verify_data_plane: warp=on is remembered for this run only.
LEMMA VerifyPreserves ==
  ASSUME IInv, Verify
  PROVE  IInv'
<1> USE DEF Verify, Goto, registry, runsTable, numbers, procs, watchers
<1>1. /\ RegistryTypeOK' /\ RunsTypeOK' /\ ProcsTypeOK' /\ WatchersTypeOK'
      /\ HealthTypeOK' /\ HandleInv' /\ InServiceIsManaged' /\ StoppedIsDead'
  BY DEF IInv, TypeOK, RegistryTypeOK, RunsTypeOK, ProcsTypeOK, WatchersTypeOK,
         HealthTypeOK, HandleInv, InServiceIsManaged, StoppedIsDead
<1>2. CallerTypeOK'
  BY DEF IInv, TypeOK, CallerTypeOK, StartPcs, Spawned, Verifying, Kinds
<1>3. CallInv'
  BY DEF IInv, TypeOK, RunsTypeOK, CallerTypeOK, CallInv, StopPcs
<1>4. ProcessesOwned'
  BY DEF IInv, ProcessesOwned, Spawned, Verifying
<1>5. WatchersCurrent'
  BY DEF IInv, WatchersCurrent, Verifying
<1>6. PidIsCurrent'
  BY DEF IInv, PidIsCurrent, Verifying
<1>7. HealthyIsVerified'
  BY DEF IInv, TypeOK, RunsTypeOK, HealthyIsVerified
<1> QED BY <1>1, <1>2, <1>3, <1>4, <1>5, <1>6, <1>7 DEF IInv, TypeOK

\* manager.rs, do_start: a verified instance enters service with its handle in the
\* runs table.
LEMMA SetHealthyPreserves ==
  ASSUME IInv, SetHealthy
  PROVE  IInv'
<1> USE DEF SetHealthy, SetState, StartReturns, Release, numbers, procs,
    watchers
<1>1. /\ ProcsTypeOK' /\ WatchersTypeOK' /\ HealthTypeOK' /\ HandleInv'
  BY DEF IInv, TypeOK, ProcsTypeOK, WatchersTypeOK, HealthTypeOK, HandleInv
<1>2. RegistryTypeOK'
  BY DEF IInv, TypeOK, RegistryTypeOK, States, InService, Counter
<1>3. RunsTypeOK'
  BY DEF IInv, TypeOK, RunsTypeOK
<1>4. CallerTypeOK'
  BY DEF IInv, CallerTypeOK, Kinds
<1>5. CallInv'
  BY DEF IInv, CallInv, StartPcs, StopPcs, Spawned, Verifying
<1>6. ProcessesOwned'
  BY DEF IInv, TypeOK, RunsTypeOK, ProcessesOwned
<1>7. WatchersCurrent'
  BY DEF IInv, TypeOK, RunsTypeOK, WatchersCurrent
<1>8. InServiceIsManaged'
  BY DEF IInv, TypeOK, RunsTypeOK, CallInv, InServiceIsManaged, StartPcs,
         Spawned, Verifying
<1>9. StoppedIsDead'
  BY DEF IInv, TypeOK, CallerTypeOK, CallInv, StoppedIsDead
<1>10. PidIsCurrent'
  BY DEF IInv, TypeOK, RunsTypeOK, PidIsCurrent
<1>11. HealthyIsVerified'
  BY DEF IInv, CallInv, HealthyIsVerified
<1> QED BY <1>1, <1>2, <1>3, <1>4, <1>5, <1>6, <1>7, <1>8, <1>9, <1>10, <1>11 DEF IInv, TypeOK

\* manager.rs, do_start: a start found crashed returns, handle and watcher in place.
LEMMA CheckStartingPreserves ==
  ASSUME IInv, CheckStarting
  PROVE  IInv'
<1> USE DEF CheckStarting, Goto, StartReturns, Release, registry, runsTable,
    numbers, procs, watchers
<1>1. /\ RegistryTypeOK' /\ ProcsTypeOK' /\ WatchersTypeOK' /\ HealthTypeOK'
      /\ HealthyIsVerified'
  BY DEF IInv, TypeOK, RegistryTypeOK, ProcsTypeOK, WatchersTypeOK,
         HealthTypeOK, HealthyIsVerified
<1>2. RunsTypeOK'
  <2>1. CASE state[lock] = "Starting"
    BY <2>1 DEF IInv, TypeOK, RunsTypeOK
  <2>2. CASE state[lock] # "Starting"
    BY <2>2 DEF IInv, TypeOK, RunsTypeOK
  <2> QED BY <2>1, <2>2
<1>3. CallerTypeOK'
  BY DEF IInv, TypeOK, CallerTypeOK, StartPcs, Spawned, Verifying, Kinds
<1>4. CallInv'
  BY DEF IInv, CallInv, StartPcs, StopPcs, Spawned, Verifying
<1>5. HandleInv'
  BY DEF IInv, TypeOK, RunsTypeOK, HandleInv
<1>6. ProcessesOwned'
  BY DEF IInv, TypeOK, RunsTypeOK, ProcessesOwned, Spawned, Verifying
<1>7. WatchersCurrent'
  BY DEF IInv, TypeOK, RunsTypeOK, WatchersCurrent, Verifying
<1>8. InServiceIsManaged'
  BY DEF IInv, TypeOK, RunsTypeOK, InServiceIsManaged
<1>9. StoppedIsDead'
  BY DEF IInv, TypeOK, RunsTypeOK, CallerTypeOK, CallInv, StoppedIsDead
<1>10. PidIsCurrent'
  BY DEF IInv, TypeOK, RunsTypeOK, PidIsCurrent, Verifying
<1> QED BY <1>1, <1>2, <1>3, <1>4, <1>5, <1>6, <1>7, <1>8, <1>9, <1>10 DEF IInv, TypeOK

\* manager.rs, do_start: an unverified instance enters service, Degraded.
LEMMA SetDegradedPreserves ==
  ASSUME IInv, SetDegraded
  PROVE  IInv'
<1> USE DEF SetDegraded, SetState, StartReturns, Release, numbers, procs,
    watchers
<1>1. /\ ProcsTypeOK' /\ WatchersTypeOK' /\ HealthTypeOK' /\ HandleInv'
      /\ HealthyIsVerified'
  BY DEF IInv, TypeOK, ProcsTypeOK, WatchersTypeOK, HealthTypeOK, HandleInv,
         HealthyIsVerified
<1>2. RegistryTypeOK'
  BY DEF IInv, TypeOK, RegistryTypeOK, CallerTypeOK, CallInv, States, InService,
         Counter
<1>3. RunsTypeOK'
  BY DEF IInv, TypeOK, RunsTypeOK
<1>4. CallerTypeOK'
  BY DEF IInv, CallerTypeOK, Kinds
<1>5. CallInv'
  BY DEF IInv, CallInv, StartPcs, StopPcs, Spawned, Verifying
<1>6. ProcessesOwned'
  BY DEF IInv, TypeOK, RunsTypeOK, ProcessesOwned
<1>7. WatchersCurrent'
  BY DEF IInv, TypeOK, RunsTypeOK, WatchersCurrent
<1>8. InServiceIsManaged'
  BY DEF IInv, TypeOK, RunsTypeOK, CallInv, InServiceIsManaged, StartPcs,
         Spawned, Verifying
<1>9. StoppedIsDead'
  BY DEF IInv, TypeOK, CallerTypeOK, CallInv, StoppedIsDead
<1>10. PidIsCurrent'
  BY DEF IInv, TypeOK, RunsTypeOK, PidIsCurrent
<1> QED BY <1>1, <1>2, <1>3, <1>4, <1>5, <1>6, <1>7, <1>8, <1>9, <1>10 DEF IInv, TypeOK

\* manager.rs, do_stop: after the join no watcher of the instance can speak.
LEMMA JoinPreserves ==
  ASSUME IInv, Join
  PROVE  IInv'
<1> USE DEF Join, Goto, registry, runsTable, numbers, procs, watchers
<1>1. /\ RegistryTypeOK' /\ RunsTypeOK' /\ ProcsTypeOK' /\ WatchersTypeOK'
      /\ HealthTypeOK' /\ HandleInv' /\ ProcessesOwned' /\ InServiceIsManaged'
      /\ StoppedIsDead' /\ HealthyIsVerified'
  BY DEF IInv, TypeOK, RegistryTypeOK, RunsTypeOK, ProcsTypeOK, WatchersTypeOK,
         HealthTypeOK, HandleInv, ProcessesOwned, InServiceIsManaged,
         StoppedIsDead, HealthyIsVerified
<1>2. CallerTypeOK'
  BY DEF IInv, TypeOK, CallerTypeOK, StopPcs, Kinds
<1>3. CallInv'
  BY DEF IInv, TypeOK, CallerTypeOK, CallInv, StartPcs, Spawned, Verifying
<1>4. WatchersCurrent'
  BY DEF IInv, WatchersCurrent, WatcherActive, Verifying
<1>5. PidIsCurrent'
  BY DEF IInv, PidIsCurrent, Verifying
<1> QED BY <1>1, <1>2, <1>3, <1>4, <1>5 DEF IInv, TypeOK

\* manager.rs, do_stop: a stop that cannot get the handle back leaves the entry, and no
\* process, for the watcher that panicked had found it dead.
LEMMA JoinFailsPreserves ==
  ASSUME IInv, SeenIsGone, JoinFails
  PROVE  IInv'
<1> USE DEF JoinFails, Release, registry, runsTable, numbers, procs, watchers
<1>0. /\ lock \in Ids /\ handle[lock] \in Runs /\ ~task[lock]
      /\ handle[lock] = run[lock] /\ state[lock] \in {"Stopping", "Failed"}
      /\ lock' = NoId /\ NoId \notin Ids
  BY IdsAssumption DEF IInv, TypeOK, RunsTypeOK, CallerTypeOK, CallInv, HandleInv, StopPcs, Runs
<1>1. svcLive[lock] = {}
  BY <1>0 DEF IInv, TypeOK, ProcsTypeOK, ProcessesOwned, SeenIsGone
<1>2. \A q \in Runs : wpc[lock][q] \notin WatcherActive
  BY <1>0 DEF IInv, WatchersCurrent, Verifying, WatcherActive
<1>3. /\ RegistryTypeOK' /\ RunsTypeOK' /\ ProcsTypeOK' /\ WatchersTypeOK'
      /\ HealthTypeOK' /\ HandleInv' /\ HealthyIsVerified'
  BY DEF IInv, TypeOK, RegistryTypeOK, RunsTypeOK, ProcsTypeOK, WatchersTypeOK,
         HealthTypeOK, HandleInv, HealthyIsVerified
<1>4. CallerTypeOK' /\ CallInv'
  BY DEF IInv, TypeOK, CallerTypeOK, CallInv, StartPcs, StopPcs, Spawned, Verifying, Kinds
<1>5. ProcessesOwned'
  BY <1>0, <1>1 DEF IInv, TypeOK, ProcsTypeOK, ProcessesOwned, Spawned, Verifying
<1>6. WatchersCurrent'
  BY <1>0, <1>2 DEF IInv, WatchersCurrent, Verifying
<1>7. InServiceIsManaged' /\ StoppedIsDead' /\ PidIsCurrent'
  BY <1>0, <1>1, <1>2 DEF IInv, InServiceIsManaged, InService, StoppedIsDead, PidIsCurrent,
     Verifying
<1> QED BY <1>3, <1>4, <1>5, <1>6, <1>7 DEF IInv, TypeOK

\* stop.rs: the process that goes is the one of the handle.
LEMMA KillPreserves ==
  ASSUME IInv, Kill
  PROVE  IInv'
<1> USE DEF Kill, Goto, registry, runsTable, numbers, watchers
<1>1. /\ RegistryTypeOK' /\ RunsTypeOK' /\ WatchersTypeOK' /\ HealthTypeOK'
      /\ HandleInv' /\ InServiceIsManaged' /\ StoppedIsDead'
      /\ HealthyIsVerified'
  BY DEF IInv, TypeOK, RegistryTypeOK, RunsTypeOK, WatchersTypeOK, HealthTypeOK,
         HandleInv, InServiceIsManaged, StoppedIsDead, HealthyIsVerified
<1>2. ProcsTypeOK'
  BY DEF IInv, TypeOK, ProcsTypeOK, Runs
<1>3. CallerTypeOK'
  BY DEF IInv, TypeOK, CallerTypeOK, StopPcs, Kinds
<1>4. CallInv'
  BY DEF IInv, TypeOK, CallerTypeOK, CallInv, StartPcs, Spawned, Verifying
<1>5. ProcessesOwned'
  BY DEF IInv, TypeOK, ProcsTypeOK, CallerTypeOK, CallInv, HandleInv,
         ProcessesOwned, StartPcs, Spawned, Verifying, Runs
<1>6. WatchersCurrent'
  BY DEF IInv, WatchersCurrent, Verifying
<1>7. PidIsCurrent'
  BY DEF IInv, PidIsCurrent, Verifying
<1> QED BY <1>1, <1>2, <1>3, <1>4, <1>5, <1>6, <1>7 DEF IInv, TypeOK

\* manager.rs, do_stop: Stopped is written when process and watcher are gone; a
\* stop that fails leaves the entry neither stopped nor in service.
LEMMA RmdirPreserves ==
  ASSUME IInv, Rmdir
  PROVE  IInv'
<1> USE DEF Rmdir, RemoveEntry, OnStopped, Goto, Release, registry, procs,
    watchers
<1>1. /\ ProcsTypeOK' /\ WatchersTypeOK' /\ HealthTypeOK'
  BY DEF IInv, TypeOK, ProcsTypeOK, WatchersTypeOK, HealthTypeOK
<1>2. RegistryTypeOK'
  BY DEF IInv, TypeOK, RegistryTypeOK, States, Counter
<1>3. RunsTypeOK'
  BY DEF IInv, TypeOK, RunsTypeOK
<1>4. CallerTypeOK'
  BY DEF IInv, TypeOK, CallerTypeOK, StartPcs, Kinds
<1>5. CallInv'
  BY DEF IInv, TypeOK, RunsTypeOK, CallerTypeOK, CallInv, StartPcs, StopPcs,
         Spawned, Verifying
<1>6. HandleInv'
  BY DEF IInv, TypeOK, RunsTypeOK, HandleInv
<1>7. ProcessesOwned'
  BY DEF IInv, TypeOK, RunsTypeOK, CallerTypeOK, CallInv, ProcessesOwned,
         Spawned, Verifying
<1>8. WatchersCurrent'
  BY DEF IInv, TypeOK, RunsTypeOK, CallerTypeOK, CallInv, WatchersCurrent,
         Verifying
<1>9. InServiceIsManaged'
  BY DEF IInv, TypeOK, RegistryTypeOK, RunsTypeOK, InServiceIsManaged, InService
<1>10. StoppedIsDead'
  <2>1. lock \in Ids /\ handle[lock] # 0 /\ ~task[lock]
    BY DEF IInv, TypeOK, CallerTypeOK, CallInv, StopPcs
  <2>2. svcLive[lock] = {} /\ \A q \in Runs : wpc[lock][q] \notin WatcherActive
    BY <2>1 DEF IInv, TypeOK, ProcsTypeOK, ProcessesOwned, WatchersCurrent, Runs,
               Spawned, Verifying
  <2>3. ASSUME NEW j \in Ids \ {lock}
        PROVE  state'[j] = state[j] /\ handle'[j] = handle[j]
    BY DEF IInv, TypeOK, RegistryTypeOK, RunsTypeOK
  <2>4. state'[lock] \in {"Stopped", "Absent"} /\ lock' # lock => handle'[lock] = 0
    BY <2>1 DEF IInv, TypeOK, RegistryTypeOK, RunsTypeOK, CallInv, StopPcs
  <2> QED BY <2>1, <2>2, <2>3, <2>4 DEF IInv, StoppedIsDead
<1>11. PidIsCurrent'
  BY DEF IInv, TypeOK, RegistryTypeOK, RunsTypeOK, PidIsCurrent, Verifying
<1>12. HealthyIsVerified'
  BY DEF IInv, TypeOK, RegistryTypeOK, HealthyIsVerified
<1> QED BY <1>1, <1>2, <1>3, <1>4, <1>5, <1>6, <1>7, <1>8, <1>9, <1>10, <1>11,
    <1>12 DEF IInv, TypeOK

\* crash.rs: a cancelled watcher ends without a word.
LEMMA WatcherCancelledPreserves ==
  ASSUME NEW i \in Ids, NEW r \in Runs, IInv, WatcherCancelled(i, r)
  PROVE  IInv'
<1> USE DEF WatcherCancelled, registry, runsTable, numbers, procs, caller
<1>1. /\ RegistryTypeOK' /\ RunsTypeOK' /\ ProcsTypeOK' /\ WatchersTypeOK'
      /\ CallerTypeOK' /\ HealthTypeOK' /\ HandleInv' /\ ProcessesOwned'
      /\ InServiceIsManaged' /\ PidIsCurrent' /\ HealthyIsVerified'
  BY DEF IInv, TypeOK, RegistryTypeOK, RunsTypeOK, ProcsTypeOK, WatchersTypeOK,
         CallerTypeOK, HealthTypeOK, HandleInv, ProcessesOwned,
         InServiceIsManaged, PidIsCurrent, HealthyIsVerified
<1>2. CallInv'
  BY DEF IInv, CallInv
<1>3. WatchersCurrent'
  BY DEF IInv, WatchersCurrent, WatcherActive
<1>4. StoppedIsDead'
  BY DEF IInv, StoppedIsDead, WatcherActive
<1> QED BY <1>1, <1>2, <1>3, <1>4 DEF IInv, TypeOK

\* crash.rs: a watcher finds its process gone.
LEMMA WatcherSeesExitPreserves ==
  ASSUME NEW i \in Ids, NEW r \in Runs, IInv, WatcherSeesExit(i, r)
  PROVE  IInv'
<1> USE DEF WatcherSeesExit, registry, runsTable, numbers, procs, caller
<1>1. /\ RegistryTypeOK' /\ RunsTypeOK' /\ ProcsTypeOK' /\ CallerTypeOK'
      /\ HealthTypeOK' /\ HandleInv' /\ ProcessesOwned' /\ InServiceIsManaged'
      /\ PidIsCurrent' /\ HealthyIsVerified'
  BY DEF IInv, TypeOK, RegistryTypeOK, RunsTypeOK, ProcsTypeOK, CallerTypeOK,
         HealthTypeOK, HandleInv, ProcessesOwned, InServiceIsManaged,
         PidIsCurrent, HealthyIsVerified
<1>2. WatchersTypeOK'
  BY DEF IInv, TypeOK, WatchersTypeOK, Runs, WatcherActive
<1>3. CallInv'
  BY DEF IInv, CallInv
<1>4. WatchersCurrent'
  BY DEF IInv, WatchersCurrent, WatcherActive
<1>5. StoppedIsDead'
  BY DEF IInv, StoppedIsDead, WatcherActive
<1> QED BY <1>1, <1>2, <1>3, <1>4, <1>5 DEF IInv, TypeOK

\* service.rs, tail_summary: a watcher that panics speaks no more.
LEMMA WatcherPanicsPreserves ==
  ASSUME NEW i \in Ids, NEW r \in Runs, IInv, WatcherPanics(i, r)
  PROVE  IInv'
<1> USE DEF WatcherPanics, registry, runsTable, numbers, procs, caller
<1>1. /\ RegistryTypeOK' /\ RunsTypeOK' /\ ProcsTypeOK' /\ CallerTypeOK'
      /\ HealthTypeOK' /\ HandleInv' /\ ProcessesOwned' /\ InServiceIsManaged'
      /\ PidIsCurrent' /\ HealthyIsVerified'
  BY DEF IInv, TypeOK, RegistryTypeOK, RunsTypeOK, ProcsTypeOK, CallerTypeOK,
         HealthTypeOK, HandleInv, ProcessesOwned, InServiceIsManaged,
         PidIsCurrent, HealthyIsVerified
<1>2. WatchersTypeOK'
  BY DEF IInv, TypeOK, WatchersTypeOK, Runs, WatcherActive
<1>3. CallInv'
  BY DEF IInv, CallInv
<1>4. WatchersCurrent'
  BY DEF IInv, WatchersCurrent, WatcherActive
<1>5. StoppedIsDead'
  BY DEF IInv, StoppedIsDead, WatcherActive
<1> QED BY <1>1, <1>2, <1>3, <1>4, <1>5 DEF IInv, TypeOK

\* manager.rs, spawn_crash_watcher: the generation guard.
LEMMA WatcherChecksGenerationPreserves ==
  ASSUME NEW i \in Ids, NEW r \in Runs, IInv, WatcherChecksGeneration(i, r)
  PROVE  IInv'
<1> USE DEF WatcherChecksGeneration, registry, runsTable, numbers, procs, caller
<1>1. /\ RegistryTypeOK' /\ RunsTypeOK' /\ ProcsTypeOK' /\ CallerTypeOK'
      /\ HealthTypeOK' /\ HandleInv' /\ ProcessesOwned' /\ InServiceIsManaged'
      /\ PidIsCurrent' /\ HealthyIsVerified'
  BY DEF IInv, TypeOK, RegistryTypeOK, RunsTypeOK, ProcsTypeOK, CallerTypeOK,
         HealthTypeOK, HandleInv, ProcessesOwned, InServiceIsManaged,
         PidIsCurrent, HealthyIsVerified
<1>2. WatchersTypeOK'
  BY DEF IInv, TypeOK, WatchersTypeOK, Runs, WatcherActive
<1>3. CallInv'
  BY DEF IInv, CallInv
<1>4. WatchersCurrent'
  BY DEF IInv, WatchersCurrent, WatcherActive
<1>5. StoppedIsDead'
  BY DEF IInv, StoppedIsDead, WatcherActive
<1> QED BY <1>1, <1>2, <1>3, <1>4, <1>5 DEF IInv, TypeOK

\* registry.rs, on_crash: the crash is written to the run that crashed.
LEMMA WatcherReportsPreserves ==
  ASSUME NEW i \in Ids, NEW r \in Runs, IInv, WatcherReports(i, r)
  PROVE  IInv'
<1> USE DEF WatcherReports, OnCrash, SetState, SaturatingInc, runsTable,
    numbers, procs, caller
<1>1. /\ RunsTypeOK' /\ ProcsTypeOK' /\ WatchersTypeOK' /\ CallerTypeOK'
      /\ HealthTypeOK' /\ HandleInv' /\ ProcessesOwned' /\ PidIsCurrent'
      /\ HealthyIsVerified'
  BY DEF IInv, TypeOK, RunsTypeOK, ProcsTypeOK, WatchersTypeOK, CallerTypeOK,
         HealthTypeOK, HandleInv, ProcessesOwned, PidIsCurrent,
         HealthyIsVerified
<1>2. RegistryTypeOK'
  BY DEF IInv, TypeOK, RegistryTypeOK, States, Counter
<1>3. CallInv'
  BY DEF IInv, CallInv
<1>4. WatchersCurrent'
  BY DEF IInv, WatchersCurrent, WatcherActive
<1>5. InServiceIsManaged'
  BY DEF IInv, InServiceIsManaged, InService
<1>6. StoppedIsDead'
  BY DEF IInv, StoppedIsDead, WatcherActive
<1> QED BY <1>1, <1>2, <1>3, <1>4, <1>5, <1>6 DEF IInv, TypeOK

\* A process that ends by itself.
LEMMA SvcExitsPreserves ==
  ASSUME NEW i \in Ids, NEW r \in Runs, IInv, SvcExits(i, r)
  PROVE  IInv'
<1> USE DEF SvcExits, registry, runsTable, numbers, watchers, caller
<1>1. /\ RegistryTypeOK' /\ RunsTypeOK' /\ ProcsTypeOK' /\ WatchersTypeOK'
      /\ CallerTypeOK' /\ HealthTypeOK' /\ HandleInv' /\ ProcessesOwned'
      /\ WatchersCurrent' /\ InServiceIsManaged' /\ StoppedIsDead'
      /\ PidIsCurrent' /\ HealthyIsVerified'
  BY DEF IInv, TypeOK, RegistryTypeOK, RunsTypeOK, ProcsTypeOK, WatchersTypeOK,
         CallerTypeOK, HealthTypeOK, HandleInv, ProcessesOwned, WatchersCurrent,
         InServiceIsManaged, StoppedIsDead, PidIsCurrent, HealthyIsVerified
<1>2. CallInv'
  BY DEF IInv, CallInv
<1> QED BY <1>1, <1>2 DEF IInv, TypeOK

\* manager.rs, collect_health_layers: a snapshot of an instance in service.
LEMMA CollectPreserves ==
  ASSUME NEW i \in Ids, IInv, Collect(i)
  PROVE  IInv'
<1> USE DEF Collect, registry, runsTable, numbers, procs, watchers, caller
<1>1. /\ RegistryTypeOK' /\ RunsTypeOK' /\ ProcsTypeOK' /\ WatchersTypeOK'
      /\ CallerTypeOK' /\ HandleInv' /\ ProcessesOwned' /\ WatchersCurrent'
      /\ InServiceIsManaged' /\ StoppedIsDead' /\ PidIsCurrent'
      /\ HealthyIsVerified'
  BY DEF IInv, TypeOK, RegistryTypeOK, RunsTypeOK, ProcsTypeOK, WatchersTypeOK,
         CallerTypeOK, HandleInv, ProcessesOwned, WatchersCurrent,
         InServiceIsManaged, StoppedIsDead, PidIsCurrent, HealthyIsVerified
<1>2. HealthTypeOK'
  BY DEF IInv, TypeOK, RegistryTypeOK, HealthTypeOK, States, Counter, Runs
<1>3. CallInv'
  BY DEF IInv, CallInv
<1> QED BY <1>1, <1>2, <1>3 DEF IInv, TypeOK

\* manager.rs, apply_health_verdict: a late verdict is written only to an instance
\* that is in service, and makes it Healthy only on a probe of the present run.
LEMMA ApplyPreserves ==
  ASSUME NEW up \in BOOLEAN, IInv, Apply(up)
  PROVE  IInv'
<1> USE DEF Apply, NoCheck, AssessLayers, SaturatingInc, runsTable, numbers,
    procs, watchers, caller
<1>1. /\ ProcsTypeOK' /\ WatchersTypeOK' /\ CallerTypeOK' /\ HandleInv'
      /\ ProcessesOwned' /\ WatchersCurrent' /\ PidIsCurrent'
  BY DEF IInv, TypeOK, ProcsTypeOK, WatchersTypeOK, CallerTypeOK, HandleInv,
         ProcessesOwned, WatchersCurrent, PidIsCurrent
<1>2. RegistryTypeOK'
  <2> HIDE DEF AssessLayers, SaturatingInc
  <2> DEFINE v == AssessLayers(hm.pid # 0, up, hm.state, hm.failures, hm.successes)
  <2>1. hm.failures \in Counter /\ hm.successes \in Counter
    BY DEF IInv, TypeOK, HealthTypeOK
  <2>2. /\ v.state \in {"Healthy", "Degraded", "Failed"}
        /\ v.failures \in Counter
        /\ v.successes \in Counter
    BY <2>1, AssessLayersType
  <2>3. CASE state[hm.id] \in InService
    <3>1. /\ state' = [state EXCEPT ![hm.id] = v.state]
          /\ fails' = [fails EXCEPT ![hm.id] = v.failures]
          /\ succs' = [succs EXCEPT ![hm.id] = v.successes]
          /\ warpPid' = warpPid
      BY <2>3
    <3> HIDE DEF v
    <3> QED BY <2>2, <3>1 DEF IInv, TypeOK, RegistryTypeOK, States, InService
  <2>4. CASE state[hm.id] \notin InService
    BY <2>4 DEF IInv, TypeOK, RegistryTypeOK
  <2> QED BY <2>3, <2>4
<1>3. RunsTypeOK'
  <2>1. CASE up
    BY <2>1 DEF IInv, TypeOK, RunsTypeOK, HealthTypeOK
  <2>2. CASE ~up
    BY <2>2 DEF IInv, TypeOK, RunsTypeOK
  <2> QED BY <2>1, <2>2
<1>4. HealthTypeOK'
  BY DEF IInv, HealthTypeOK, States, Counter
<1>5. CallInv'
  BY DEF IInv, TypeOK, RegistryTypeOK, CallerTypeOK, CallInv, InService,
         StartPcs, StopPcs, Spawned, Verifying
<1>6. InServiceIsManaged'
  BY DEF IInv, TypeOK, RegistryTypeOK, InServiceIsManaged
<1>7. StoppedIsDead'
  BY DEF IInv, TypeOK, RegistryTypeOK, StoppedIsDead
<1>8. HealthyIsVerified'
  BY DEF IInv, TypeOK, RegistryTypeOK, RunsTypeOK, HealthyIsVerified
<1> QED BY <1>1, <1>2, <1>3, <1>4, <1>5, <1>6, <1>7, <1>8 DEF IInv, TypeOK

\* A step that changes nothing.
LEMMA StutterPreserves ==
  ASSUME IInv, UNCHANGED vars
  PROVE  IInv'
<1> USE DEF vars, registry, runsTable, numbers, procs, watchers, caller
<1>1. TypeOK'
  BY DEF IInv, TypeOK, RegistryTypeOK, RunsTypeOK, ProcsTypeOK, WatchersTypeOK,
         CallerTypeOK, HealthTypeOK
<1>2. /\ CallInv' /\ HandleInv' /\ ProcessesOwned' /\ WatchersCurrent'
      /\ InServiceIsManaged' /\ StoppedIsDead' /\ PidIsCurrent' /\ HealthyIsVerified'
  BY DEF IInv, CallInv, HandleInv, ProcessesOwned, WatchersCurrent,
         InServiceIsManaged, StoppedIsDead, PidIsCurrent, HealthyIsVerified
<1> QED BY <1>1, <1>2 DEF IInv

\* crash.rs: what a watcher found dead stays dead. Only service.rs adds a process,
\* and when it does no watcher of that run exists yet.
LEMMA SeenIsGonePreserved ==
  ASSUME IInv, SeenIsGone, PanickedHasRun, Next
  PROVE  SeenIsGone'
<1> USE DEF SeenIsGone
<1>0. /\ wpc \in [Ids -> [Runs -> WatcherActive \cup {"none", "ended", "panicked"}]]
      /\ svcLive \in [Ids -> SUBSET Runs]
  BY DEF IInv, TypeOK, WatchersTypeOK, ProcsTypeOK
<1>1. CASE UNCHANGED <<wpc, svcLive>>
  BY <1>0, <1>1
<1>2. ASSUME NEW i \in Ids, NEW k, CallDoStop(i, k) PROVE SeenIsGone'
  BY <1>0, <1>2 DEF CallDoStop, CancelWatcher, procs
<1>3. CASE StartSvc
  <2>1. lock \in Ids /\ \A q \in Runs : wpc[lock][q] \notin WatcherActive
    BY <1>3 DEF StartSvc, IInv, TypeOK, CallerTypeOK, CallInv, WatchersCurrent,
                StartPcs, Verifying, Runs
  <2>2. wpc[lock][run[lock]] # "panicked" \/ run[lock] \notin Runs
    BY <1>3, <2>1 DEF StartSvc, IInv, TypeOK, RunsTypeOK, PanickedHasRun, StartPcs,
                      Spawned, Verifying, Runs
  <2>3. /\ wpc' = wpc
        /\ \A i \in Ids : svcLive'[i] = svcLive[i]
             \/ (i = lock /\ svcLive'[i] = svcLive[i] \cup {run[lock]})
    BY <1>0, <1>3, <2>1 DEF StartSvc, watchers
  <2> SUFFICES ASSUME NEW i \in Ids, NEW r \in Runs,
                      wpc[i][r] \in {"seen", "matched", "panicked"}, r \in svcLive'[i]
               PROVE  FALSE
    BY <2>3
  <2>4. i = lock /\ r = run[lock]
    BY <2>3
  <2> QED BY <2>1, <2>2, <2>4 DEF WatcherActive
<1>4. CASE ControlPlane
  BY <1>0, <1>4 DEF ControlPlane, watchers, procs
<1>5. CASE Cleanup \/ Kill
  BY <1>0, <1>5 DEF Cleanup, Kill, watchers
<1>6. ASSUME NEW i \in Ids, NEW r \in Runs, Watcher(i, r) \/ SvcExits(i, r)
      PROVE  SeenIsGone'
  BY <1>0, <1>6 DEF Watcher, WatcherCancelled, WatcherSeesExit, WatcherPanics,
                    WatcherChecksGeneration, WatcherReports, SvcExits, procs, watchers
<1>7. CASE Call
  BY <1>1, <1>2, <1>7 DEF Call, RegistryInsert, CallStart, CallRestartIdle, CallStopIdle,
                          procs, watchers
<1>8. CASE DoStart
  BY <1>1, <1>3, <1>4, <1>5, <1>8 DEF DoStart, Begin, Resolve, StartDbus, Verify, SetHealthy,
                          CheckStarting, SetDegraded, procs, watchers
<1>9. CASE DoStop
  BY <1>1, <1>5, <1>9 DEF DoStop, Join, JoinFails, Rmdir, procs, watchers
<1>10. CASE HealthCheck
  BY <1>1, <1>10 DEF HealthCheck, Collect, Apply, procs, watchers
<1> QED BY <1>6, <1>7, <1>8, <1>9, <1>10 DEF Next

\* manager.rs, do_start: a start counts its run before it has a watcher, and spawns the
\* watcher last.
LEMMA PanickedHasRunPreserved ==
  ASSUME IInv, PanickedHasRun, Next
  PROVE  PanickedHasRun'
<1> USE DEF PanickedHasRun
<1>0. /\ wpc \in [Ids -> [Runs -> WatcherActive \cup {"none", "ended", "panicked"}]]
      /\ run \in [Ids -> 0 .. MaxRuns]
      /\ lock \in Ids \cup {NoId} /\ NoId \notin Ids
  BY IdsAssumption DEF IInv, TypeOK, WatchersTypeOK, RunsTypeOK, CallerTypeOK
<1>1. ASSUME UNCHANGED <<wpc, run>>, pc' \notin {"resolve", "dbus", "svc", "control", "cleanup"}
      PROVE  PanickedHasRun'
  BY <1>0, <1>1
<1>2. ASSUME UNCHANGED <<wpc, run, lock>>, pc \in {"resolve", "dbus", "svc", "control", "cleanup"}
      PROVE  PanickedHasRun'
  BY <1>0, <1>2
<1>3. ASSUME NEW i \in Ids, NEW k, CallDoStop(i, k) PROVE PanickedHasRun'
  <2>1. /\ run' = run /\ pc' \in {"join", "idle"}
        /\ \A j \in Ids, q \in Runs : wpc'[j][q] = "panicked" => wpc[j][q] = "panicked"
    BY <1>0, <1>3 DEF CallDoStop, CancelWatcher, numbers, Acquire, Release
  <2> QED BY <1>0, <2>1
<1>4. CASE Begin
  <2>1. lock \in Ids /\ lock' \in {lock, NoId} /\ wpc' = wpc
    BY <1>0, <1>4 DEF Begin, StartFails, Goto, Release, watchers, IInv, CallInv
  <2>2. run'[lock] = run[lock] + 1 /\ \A i \in Ids \ {lock} : run'[i] = run[i]
    BY <1>0, <1>4, <2>1 DEF Begin
  <2>3. \A i \in Ids, r \in Runs : wpc[i][r] = "panicked" => r <= run[i] /\ run[i] \in Nat
    BY <1>0
  <2> QED BY <1>0, <2>1, <2>2, <2>3 DEF Runs
<1>5. CASE ControlPlane
  <2>1. /\ run' = run /\ lock' = lock /\ pc = "control"
        /\ \A j \in Ids, q \in Runs : wpc'[j][q] = "panicked" => wpc[j][q] = "panicked"
    BY <1>0, <1>5 DEF ControlPlane, numbers, Goto, watchers
  <2> QED BY <1>0, <2>1
<1>6. ASSUME NEW i \in Ids, NEW r \in Runs, Watcher(i, r) \/ SvcExits(i, r)
      PROVE  PanickedHasRun'
  <2>1. wpc[i][r] \in WatcherActive =>
          r = run[i] /\ (lock = i => pc \notin {"resolve", "dbus", "svc", "control", "cleanup"})
    BY <1>0 DEF IInv, TypeOK, RunsTypeOK, WatchersCurrent, CallInv, StartPcs, Spawned,
       Verifying, Runs
  <2> QED BY <1>0, <1>6, <2>1 DEF Watcher, WatcherCancelled, WatcherSeesExit, WatcherPanics,
       WatcherChecksGeneration, WatcherReports, SvcExits, numbers, watchers, caller,
       WatcherActive, Runs
<1>7. CASE Call
  BY <1>1, <1>3, <1>7 DEF Call, RegistryInsert, CallStart, CallRestartIdle, CallStopIdle,
     Acquire, numbers, watchers, caller
<1>8. CASE DoStart
  <2>1. CASE Resolve \/ StartDbus \/ StartSvc \/ Cleanup
    BY <1>1, <1>2, <2>1 DEF Resolve, StartDbus, StartSvc, Cleanup, StartFails, Release,
       Goto, numbers, watchers
  <2>2. CASE Verify \/ SetHealthy \/ CheckStarting \/ SetDegraded
    BY <1>1, <2>2 DEF Verify, SetHealthy, CheckStarting, SetDegraded, StartReturns, Release,
       Goto, numbers, watchers, StartPcs, Spawned, Verifying
  <2> QED BY <1>4, <1>5, <1>8, <2>1, <2>2 DEF DoStart
<1>9. CASE DoStop
  BY <1>1, <1>9 DEF DoStop, Join, JoinFails, Kill, Rmdir, Release, Goto, numbers, watchers,
     StartPcs, Spawned, Verifying
<1>10. CASE HealthCheck
  BY <1>0, <1>10 DEF HealthCheck, Collect, Apply, numbers, watchers, caller
<1> QED BY <1>6, <1>7, <1>8, <1>9, <1>10 DEF Next

\* Every step of the manager, of a watcher, of a process or of the health loop
\* keeps the inductive invariant.
LEMMA NextPreserves ==
  ASSUME IInv, SeenIsGone, [Next]_vars
  PROVE  IInv'
<1>1. CASE Call
  <2>1. PICK i \in Ids :
           \/ RegistryInsert(i)
           \/ CallStart(i)
           \/ CallRestartIdle(i)
           \/ \E k \in {"stop", "restart", "delete", "retire"} : CallDoStop(i, k)
           \/ \E k \in {"stop", "delete", "retire"} : CallStopIdle(i, k)
    BY <1>1 DEF Call
  <2>2. CASE RegistryInsert(i) BY <2>2, RegistryInsertPreserves
  <2>3. CASE CallStart(i) BY <2>3, CallStartPreserves
  <2>4. CASE CallRestartIdle(i) BY <2>4, CallRestartIdlePreserves
  <2>5. CASE \E k \in {"stop", "restart", "delete", "retire"} : CallDoStop(i, k)
    BY <2>5, CallDoStopPreserves DEF Kinds
  <2>6. CASE \E k \in {"stop", "delete", "retire"} : CallStopIdle(i, k)
    BY <2>6, CallStopIdlePreserves DEF Kinds
  <2> QED BY <2>1, <2>2, <2>3, <2>4, <2>5, <2>6
<1>2. CASE DoStart
  BY <1>2, BeginPreserves, ResolvePreserves, StartDbusPreserves, StartSvcPreserves,
     ControlPlanePreserves, CleanupPreserves, VerifyPreserves, SetHealthyPreserves,
     CheckStartingPreserves, SetDegradedPreserves DEF DoStart
<1>3. CASE DoStop
  BY <1>3, JoinPreserves, JoinFailsPreserves, KillPreserves, RmdirPreserves DEF DoStop
<1>4. ASSUME NEW i \in Ids, NEW r \in Runs, Watcher(i, r) PROVE IInv'
  BY <1>4, WatcherCancelledPreserves, WatcherSeesExitPreserves, WatcherPanicsPreserves,
     WatcherChecksGenerationPreserves, WatcherReportsPreserves DEF Watcher
<1>5. ASSUME NEW i \in Ids, NEW r \in Runs, SvcExits(i, r) PROVE IInv'
  BY <1>5, SvcExitsPreserves
<1>6. CASE HealthCheck
  BY <1>6, CollectPreserves, ApplyPreserves DEF HealthCheck
<1>7. CASE UNCHANGED vars
  BY <1>7, StutterPreserves
<1> QED BY <1>1, <1>2, <1>3, <1>4, <1>5, <1>6, <1>7 DEF Next

\* The empty manager satisfies it.
LEMMA InitEstablishes == Init => IInv
<1> SUFFICES ASSUME Init PROVE IInv
  OBVIOUS
<1>1. TypeOK
  BY DEF Init, TypeOK, RegistryTypeOK, RunsTypeOK, ProcsTypeOK, WatchersTypeOK,
         CallerTypeOK, HealthTypeOK, NoCheck, States, Counter, Kinds
<1>2. CallInv /\ HandleInv
  BY DEF Init, CallInv, HandleInv, StartPcs, StopPcs, Spawned, Verifying
<1>3. ProcessesOwned /\ WatchersCurrent /\ InServiceIsManaged /\ StoppedIsDead
      /\ PidIsCurrent /\ HealthyIsVerified
  BY DEF Init, ProcessesOwned, WatchersCurrent, InServiceIsManaged,
         StoppedIsDead, PidIsCurrent, HealthyIsVerified, InService,
         WatcherActive
<1> QED BY <1>1, <1>2, <1>3 DEF IInv

\* The invariant holds in every reachable state of the manager.
THEOREM Invariance == Spec => []IInv
<1>1. Init => IInv /\ SeenIsGone /\ PanickedHasRun
  BY InitEstablishes DEF Init, SeenIsGone, PanickedHasRun
<1>2. IInv /\ SeenIsGone /\ PanickedHasRun /\ [Next]_vars
        => IInv' /\ SeenIsGone' /\ PanickedHasRun'
  <2> SUFFICES ASSUME IInv, SeenIsGone, PanickedHasRun, [Next]_vars
               PROVE  SeenIsGone' /\ PanickedHasRun'
    BY NextPreserves
  <2>1. CASE UNCHANGED vars
    BY <2>1 DEF SeenIsGone, PanickedHasRun, vars, procs, watchers, numbers, caller
  <2> QED BY <2>1, SeenIsGonePreserved, PanickedHasRunPreserved
<1> QED BY <1>1, <1>2, PTL DEF Spec

\* manager.rs and registry.rs: types, and counters within their width.
THEOREM TypeCorrect == Spec => []TypeOK
BY Invariance, PTL DEF IInv

\* manager.rs: a live warp-svc process always has an owner that will stop it.
THEOREM NoProcessIsLost == Spec => []ProcessesOwned
BY Invariance, PTL DEF IInv

\* manager.rs, spawn_crash_watcher: no watcher outlives the run it speaks for.
THEOREM NoStaleWatcher == Spec => []WatchersCurrent
BY Invariance, PTL DEF IInv

\* manager.rs: whatever is shown in service is in the runs table with its watcher.
THEOREM InServiceCanBeStopped == Spec => []InServiceIsManaged
BY Invariance, PTL DEF IInv

\* manager.rs, do_stop: Stopped means that nothing of the instance is running.
THEOREM StoppedMeansDead == Spec => []StoppedIsDead
BY Invariance, PTL DEF IInv

\* registry.rs: the pid the health loop reads is never one of an earlier process.
THEOREM PidNeverStale == Spec => []PidIsCurrent
BY Invariance, PTL DEF IInv

\* registry.rs: what is checked together as Inv, the registry's entry at its word.
THEOREM RegistryTrusted == Spec => []Inv
BY TypeCorrect, InServiceCanBeStopped, StoppedMeansDead, PidNeverStale, PTL DEF Inv

\* manager.rs, do_start: Healthy takes a data plane that was seen up.
THEOREM HealthyMeansVerified == Spec => []HealthyIsVerified
BY Invariance, PTL DEF IInv

\* manager.rs: do_start under the lock is the only way into service. Every other
\* step that writes a state writes one out of service, and the health loop writes
\* only where the instance is in service already.
LEMMA EntersServiceByStart ==
  ASSUME IInv, Next, NEW i \in Ids, state[i] \notin InService, state'[i] \in InService
  PROVE  lock = i
<1> USE DEF InService, registry
<1>0. state \in [Ids -> States]
  BY DEF IInv, TypeOK, RegistryTypeOK
<1>1. CASE Call
  <2>1. PICK j \in Ids :
           \/ RegistryInsert(j)
           \/ CallStart(j)
           \/ CallRestartIdle(j)
           \/ \E k \in {"stop", "restart", "delete", "retire"} : CallDoStop(j, k)
           \/ \E k \in {"stop", "delete", "retire"} : CallStopIdle(j, k)
    BY <1>1 DEF Call
  <2> QED BY <1>0, <2>1 DEF RegistryInsert, CallStart, CallRestartIdle, CallDoStop,
                CallStopIdle, SetState, RemoveEntry
<1>2. CASE DoStart
  BY <1>0, <1>2 DEF DoStart, Begin, Resolve, StartDbus, StartSvc, ControlPlane, Cleanup,
       Verify, SetHealthy, CheckStarting, SetDegraded, SetState, OnStarted, StartFails
<1>3. CASE DoStop
  BY <1>0, <1>3 DEF DoStop, Join, JoinFails, Kill, Rmdir, OnStopped, RemoveEntry
<1>4. ASSUME NEW j \in Ids, NEW r \in Runs, Watcher(j, r) PROVE FALSE
  BY <1>0, <1>4 DEF Watcher, WatcherCancelled, WatcherSeesExit, WatcherPanics,
       WatcherChecksGeneration, WatcherReports, OnCrash, SetState
<1>5. ASSUME NEW j \in Ids, NEW r \in Runs, SvcExits(j, r) PROVE FALSE
  BY <1>5 DEF SvcExits
<1>6. CASE HealthCheck
  <2>1. ASSUME NEW j \in Ids, Collect(j) PROVE FALSE
    BY <2>1 DEF Collect
  <2>2. ASSUME NEW up \in BOOLEAN, Apply(up) PROVE FALSE
    BY <1>0, <2>2 DEF Apply
  <2> QED BY <1>6, <2>1, <2>2 DEF HealthCheck
<1> QED BY <1>1, <1>2, <1>3, <1>4, <1>5, <1>6 DEF Next

\* manager.rs, apply_health_verdict and do_start: only a start puts an instance
\* into service; a health verdict that comes late never revives one.
THEOREM OnlyStartEntersService == Spec => OnlyStartPutsInService
<1>1. IInv /\ [Next]_vars =>
        [\A i \in Ids : state[i] \notin InService /\ state'[i] \in InService => lock = i]_vars
  BY EntersServiceByStart
<1> QED BY <1>1, Invariance, PTL DEF Spec, OnlyStartPutsInService

-----------------------------------------------------------------------------
(***************************************************************************)
(* The manager implements Lifecycle.                                       *)
(*                                                                         *)
(* RInv is IInv with the two facts the refinement needs beyond it: a       *)
(* watcher speaks of a process that is gone (else a crash could be shown   *)
(* of a live one), and no run was seen up before it began (else a start    *)
(* could inherit the probe of its predecessor).  Then one lemma per action *)
(* says which step of Lifecycle it is; the steps that touch neither the    *)
(* state shown, nor a process, nor a probe are stutters of Lifecycle.      *)
(***************************************************************************)

-----------------------------------------------------------------------------
(***************************************************************************)
(* RInv is kept.                                                           *)
(***************************************************************************)

\* manager.rs, do_start: run numbers only grow, and a probe marks the present one.
LEMMA SeenUpHasBegunPreserved ==
  ASSUME RInv, Next
  PROVE  SeenUpHasBegun'
<1> USE DEF SeenUpHasBegun
<1>0. /\ run \in [Ids -> 0 .. MaxRuns]
      /\ okRun \in [Ids -> 0 .. MaxRuns]
      /\ SeenUpHasBegun
  BY DEF RInv, IInv, TypeOK, RunsTypeOK
<1>1. CASE UNCHANGED <<run, okRun>>
  BY <1>0, <1>1
<1>2. CASE Begin
  BY <1>0, <1>2 DEF Begin
<1>3. CASE Verify
  BY <1>0, <1>3 DEF Verify, numbers
<1>4. ASSUME NEW up \in BOOLEAN, Apply(up) PROVE SeenUpHasBegun'
  BY <1>0, <1>4 DEF Apply, numbers
<1>5. CASE Call
  BY <1>1, <1>5 DEF Call, RegistryInsert, CallStart, CallRestartIdle, CallStopIdle,
                    CallDoStop, numbers
<1>6. CASE DoStart
  BY <1>1, <1>2, <1>3, <1>6 DEF DoStart, Resolve, StartDbus, StartSvc, ControlPlane, Cleanup,
                    SetHealthy, CheckStarting, SetDegraded, numbers
<1>7. CASE DoStop
  BY <1>1, <1>7 DEF DoStop, Join, JoinFails, Kill, Rmdir, numbers
<1>8. ASSUME NEW i \in Ids, NEW r \in Runs, Watcher(i, r) \/ SvcExits(i, r)
      PROVE  SeenUpHasBegun'
  BY <1>1, <1>8 DEF Watcher, WatcherCancelled, WatcherSeesExit, WatcherPanics,
                    WatcherChecksGeneration, WatcherReports, SvcExits, numbers
<1>9. CASE HealthCheck
  BY <1>1, <1>4, <1>9 DEF HealthCheck, Collect, numbers
<1> QED BY <1>5, <1>6, <1>7, <1>8, <1>9 DEF Next

\* The strengthened invariant holds in every reachable state.
THEOREM RefinementInvariance == Spec => []RInv
<1>1. Init => RInv
  <2> SUFFICES ASSUME Init PROVE SeenIsGone /\ PanickedHasRun /\ SeenUpHasBegun
    BY InitEstablishes DEF RInv
  <2> QED BY DEF Init, SeenIsGone, PanickedHasRun, SeenUpHasBegun
<1>2. RInv /\ [Next]_vars => RInv'
  <2> SUFFICES ASSUME RInv, [Next]_vars PROVE RInv'
    OBVIOUS
  <2>1. IInv'
    BY NextPreserves DEF RInv
  <2>2. CASE Next
    BY <2>1, <2>2, SeenIsGonePreserved, PanickedHasRunPreserved, SeenUpHasBegunPreserved DEF RInv
  <2>3. CASE UNCHANGED vars
    BY <2>1, <2>3 DEF RInv, SeenIsGone, PanickedHasRun, SeenUpHasBegun, vars, numbers, procs,
       watchers, caller
  <2> QED BY <2>2, <2>3
<1> QED BY <1>1, <1>2, PTL DEF Spec

-----------------------------------------------------------------------------
(***************************************************************************)
(* Every step of the manager is a step of Lifecycle or a stutter.          *)
(***************************************************************************)

\* A step that touches neither state, nor process, nor probe is not seen.
LEMMA SilentStep ==
  ASSUME UNCHANGED <<state, svcLive, run, okRun>>
  PROVE  UNCHANGED Promise!vars
BY DEF Promise!vars

\* A call in progress is on an instance.
LEMMA CallerIsOnInstance ==
  ASSUME RInv, pc # "idle"
  PROVE  lock \in Ids
BY DEF RInv, IInv, TypeOK, CallerTypeOK, CallInv

\* manager.rs: processes are those of the present run.
LEMMA OneProcess ==
  ASSUME RInv, NEW i \in Ids
  PROVE  svcLive[i] \subseteq {run[i]}
BY DEF RInv, IInv, ProcessesOwned

\* reconciler: an instance appears, stopped.
LEMMA RegistryInsertStep ==
  ASSUME NEW i \in Ids, RInv, RegistryInsert(i)
  PROVE  Promise!Appears(i)
BY DEF RegistryInsert, Promise!Appears, Promise!To, numbers, procs

\* manager.rs, do_stop: it is shown as Stopping.
LEMMA CallDoStopStep ==
  ASSUME NEW i \in Ids, NEW k, RInv, CallDoStop(i, k)
  PROVE  Promise!StopBegins(i) \/ UNCHANGED Promise!vars
<1>1. state \in [Ids -> States]
  BY DEF RInv, IInv, TypeOK, RegistryTypeOK
<1>2. CASE state[i] = "Absent"
  <2>1. UNCHANGED <<state, svcLive, run, okRun>>
    BY <1>1, <1>2 DEF CallDoStop, SetState, numbers, procs
  <2> QED BY <2>1, SilentStep
<1>3. CASE state[i] # "Absent"
  BY <1>3 DEF CallDoStop, SetState, Promise!StopBegins, Promise!To, numbers, procs
<1> QED BY <1>2, <1>3

\* manager.rs, stop of an instance without a handle: there is no process to kill.
LEMMA CallStopIdleStep ==
  ASSUME NEW i \in Ids, NEW k, RInv, CallStopIdle(i, k)
  PROVE  Promise!Settles(i) \/ UNCHANGED Promise!vars
<1>1. /\ state \in [Ids -> States]
      /\ state[i] \notin InService
      /\ svcLive[i] = {}
  <2>1. handle[i] = 0 /\ lock # i
    BY DEF CallStopIdle, RInv, IInv, CallInv
  <2> QED BY <2>1 DEF RInv, IInv, TypeOK, RegistryTypeOK, ProcsTypeOK, ProcessesOwned,
                      InServiceIsManaged, Runs
<1>2. CASE k = "stop" /\ state[i] = "Absent"
  <2>1. UNCHANGED <<state, svcLive, run, okRun>>
    BY <1>1, <1>2 DEF CallStopIdle, SetState, numbers, procs
  <2> QED BY <2>1, SilentStep
<1>3. CASE k # "stop" \/ state[i] # "Absent"
  BY <1>1, <1>3 DEF CallStopIdle, SetState, RemoveEntry, numbers, procs, Promise!Settles,
                    Promise!To, Promise!InService, InService
<1> QED BY <1>2, <1>3

\* manager.rs, do_start: a start begins where no process is left, and what was
\* seen of the run before does not count for the new one.
LEMMA BeginStep ==
  ASSUME NEW i \in Ids, i = lock, RInv, Begin
  PROVE  Promise!Begins(i)
<1>1. lock \in Ids
  OBVIOUS
<1>2. /\ state[lock] \notin InService
      /\ svcLive[lock] = {}
  BY <1>1 DEF Begin, RInv, IInv, TypeOK, ProcsTypeOK, CallInv, ProcessesOwned,
              InServiceIsManaged, StartPcs, Spawned, Verifying, Runs
<1>3. \E s \in {"Starting", "Failed"} : state' = [state EXCEPT ![lock] = s]
  BY DEF Begin, StartFails
<1>4. /\ run' = [run EXCEPT ![lock] = @ + 1]
      /\ UNCHANGED <<svcLive, okRun>>
  BY DEF Begin, procs
<1>5. run'[lock] # okRun'[lock]
  BY <1>1, <1>4 DEF RInv, IInv, TypeOK, RunsTypeOK, SeenUpHasBegun
<1>6. \A j \in Ids \ {lock} : run'[j] = run[j]
  BY <1>1, <1>4 DEF RInv, IInv, TypeOK, RunsTypeOK
<1> QED BY <1>1, <1>2, <1>3, <1>4, <1>5, <1>6
        DEF Promise!Begins, Promise!To, Promise!InService, InService

\* manager.rs, fail_start where no process was started.
LEMMA FailsBeforeProcess ==
  ASSUME NEW i \in Ids, i = lock, RInv, pc \in {"resolve", "dbus", "svc"},
         StartFails, UNCHANGED <<svcLive, run, okRun>>
  PROVE  Promise!GivesUp(i)
<1>1. /\ lock \in Ids
      /\ state[lock] \in {"Starting", "Failed"}
      /\ svcLive[lock] = {}
  BY DEF RInv, IInv, TypeOK, ProcsTypeOK, CallInv, ProcessesOwned,
     StartPcs, Spawned, Verifying, Runs
<1> QED BY <1>1 DEF StartFails, Promise!GivesUp, Promise!To

\* manager.rs, do_start up to the process: nothing is seen but a failure.
LEMMA ResolveStep ==
  ASSUME NEW i \in Ids, i = lock, RInv, Resolve
  PROVE  Promise!GivesUp(i) \/ UNCHANGED Promise!vars
BY SilentStep, FailsBeforeProcess DEF Resolve, registry, numbers, procs

\* dbus.rs: the daemon is not seen either.
LEMMA StartDbusStep ==
  ASSUME NEW i \in Ids, i = lock, RInv, StartDbus
  PROVE  Promise!GivesUp(i) \/ UNCHANGED Promise!vars
BY SilentStep, FailsBeforeProcess DEF StartDbus, registry, numbers

\* service.rs, start: the one process of this start, or none.
LEMMA StartSvcStep ==
  ASSUME NEW i \in Ids, i = lock, RInv, StartSvc
  PROVE  Promise!Launches(i) \/ Promise!GivesUp(i)
<1>1. /\ lock \in Ids
      /\ state[lock] \in {"Starting", "Failed"}
      /\ svcLive[lock] = {}
      /\ svcLive \in [Ids -> SUBSET Runs]
  BY DEF StartSvc, RInv, IInv, TypeOK, ProcsTypeOK, CallInv,
     ProcessesOwned, StartPcs, Spawned, Verifying, Runs
<1>2. CASE StartFails /\ UNCHANGED svcLive
  BY <1>2, FailsBeforeProcess DEF StartSvc, numbers
<1>3. CASE /\ svcLive' = [svcLive EXCEPT ![lock] = @ \cup {run[lock]}]
           /\ UNCHANGED state
  BY <1>1, <1>3 DEF StartSvc, Promise!Launches, numbers
<1> QED BY <1>2, <1>3 DEF StartSvc, registry

\* manager.rs, on_started: Starting with a pid, or on to the clean-up.
LEMMA ControlPlaneStep ==
  ASSUME NEW i \in Ids, i = lock, RInv, ControlPlane
  PROVE  Promise!Runs(i) \/ UNCHANGED Promise!vars
<1>1. lock \in Ids /\ state[lock] \in {"Starting", "Failed"}
  BY DEF ControlPlane, RInv, IInv, CallInv, StartPcs, Spawned
<1>2. CASE UNCHANGED registry
  BY <1>2, SilentStep DEF ControlPlane, registry, numbers, procs
<1>3. CASE OnStarted(lock)
  BY <1>1, <1>3 DEF ControlPlane, OnStarted, Promise!Runs, Promise!To, numbers, procs
<1> QED BY <1>2, <1>3 DEF ControlPlane

\* manager.rs, the clean-up of a start that failed leaves no process.
LEMMA CleanupStep ==
  ASSUME NEW i \in Ids, i = lock, RInv, Cleanup
  PROVE  Promise!GivesUp(i)
<1>1. lock \in Ids /\ state[lock] \in {"Starting", "Failed"}
  BY DEF Cleanup, RInv, IInv, CallInv, StartPcs, Spawned
<1>2. svcLive'[lock] = {} /\ \A j \in Ids \ {lock} : svcLive'[j] = svcLive[j]
  BY <1>1, OneProcess DEF Cleanup, RInv, IInv, TypeOK, ProcsTypeOK
<1> QED BY <1>1, <1>2 DEF Cleanup, StartFails, Promise!GivesUp, Promise!To, numbers

\* manager.rs, verify_data_plane: only a live process is seen up.
LEMMA VerifyStep ==
  ASSUME NEW i \in Ids, i = lock, RInv, Verify
  PROVE  Promise!SeenUp(i) \/ UNCHANGED Promise!vars
<1>1. lock \in Ids /\ run[lock] # 0
  BY DEF Verify, RInv, IInv, CallInv, StartPcs, Spawned, Verifying
<1>2. CASE UNCHANGED okRun
  BY <1>2, SilentStep DEF Verify, registry, numbers, procs
<1>3. CASE /\ run[lock] \in svcLive[lock]
           /\ okRun' = [okRun EXCEPT ![lock] = run[lock]]
  <2>1. okRun'[lock] = run[lock] /\ \A j \in Ids \ {lock} : okRun'[j] = okRun[j]
    BY <1>1, <1>3 DEF RInv, IInv, TypeOK, RunsTypeOK
  <2> QED BY <1>1, <1>3, <2>1 DEF Verify, Promise!SeenUp, registry, numbers, procs
<1> QED BY <1>2, <1>3 DEF Verify

\* manager.rs, the end of do_start: Healthy if it was seen up.
LEMMA SetHealthyStep ==
  ASSUME NEW i \in Ids, i = lock, RInv, SetHealthy
  PROVE  Promise!Enters(i)
<1>1. /\ lock \in Ids
      /\ state[lock] \in {"Starting", "Failed"}
      /\ run[lock] # 0 /\ okRun[lock] = run[lock]
  BY DEF SetHealthy, RInv, IInv, CallInv, StartPcs, Spawned, Verifying
<1> QED BY <1>1 DEF SetHealthy, SetState, Promise!Enters, Promise!To, Promise!InService,
                    numbers, procs

\* manager.rs, the end of do_start without a probe: Degraded.
LEMMA SetDegradedStep ==
  ASSUME NEW i \in Ids, i = lock, RInv, SetDegraded
  PROVE  Promise!Enters(i)
<1>1. lock \in Ids /\ state[lock] \in {"Starting", "Failed"}
  BY DEF SetDegraded, RInv, IInv, CallInv, StartPcs, Spawned, Verifying
<1> QED BY <1>1 DEF SetDegraded, SetState, Promise!Enters, Promise!To, Promise!InService,
                    numbers, procs

\* stop.rs: the process is killed, if it is there still.
LEMMA KillStep ==
  ASSUME NEW i \in Ids, i = lock, RInv, Kill
  PROVE  Promise!Dies(i) \/ UNCHANGED Promise!vars
<1>1. /\ lock \in Ids
      /\ handle[lock] = run[lock]
      /\ svcLive \in [Ids -> SUBSET Runs]
  BY DEF Kill, RInv, IInv, TypeOK, ProcsTypeOK, CallInv, HandleInv, StopPcs
<1>2. svcLive'[lock] = {} /\ \A j \in Ids \ {lock} : svcLive'[j] = svcLive[j]
  BY <1>1, OneProcess DEF Kill
<1>3. CASE svcLive[lock] = {}
  BY <1>1, <1>2, <1>3 DEF Kill, Promise!vars, registry, numbers
<1>4. CASE svcLive[lock] # {}
  BY <1>1, <1>2, <1>4 DEF Kill, Promise!Dies, registry, numbers
<1> QED BY <1>3, <1>4

\* manager.rs, the end of do_stop: Stopped, or gone, with no process left.
LEMMA RmdirStep ==
  ASSUME NEW i \in Ids, i = lock, RInv, Rmdir
  PROVE  Promise!Settles(i) \/ UNCHANGED Promise!vars
<1>1. /\ lock \in Ids
      /\ state[lock] \notin InService
      /\ svcLive[lock] = {}
  BY DEF Rmdir, RInv, IInv, TypeOK, ProcsTypeOK, CallInv,
     ProcessesOwned, StopPcs, InService, Spawned, Verifying
<1>2. CASE UNCHANGED registry
  BY <1>2, SilentStep DEF Rmdir, registry, procs
<1>3. CASE RemoveEntry(lock) \/ OnStopped(lock)
  BY <1>1, <1>3 DEF Rmdir, RemoveEntry, OnStopped, Promise!Settles, Promise!To,
     Promise!InService, InService, procs
<1> QED BY <1>2, <1>3 DEF Rmdir

\* registry.rs, on_crash: a crash is shown of an instance whose process is gone.
LEMMA WatcherReportsStep ==
  ASSUME NEW i \in Ids, NEW r \in Runs, RInv, WatcherReports(i, r)
  PROVE  Promise!CrashShown(i) \/ UNCHANGED Promise!vars
<1>1. svcLive[i] = {}
  <2>1. r = run[i] /\ r \notin svcLive[i]
    BY DEF WatcherReports, RInv, IInv, WatchersCurrent, WatcherActive, SeenIsGone
  <2> QED BY <2>1, OneProcess
<1>2. CASE state[i] = "Absent"
  <2>1. UNCHANGED <<state, svcLive, run, okRun>>
    BY <1>2 DEF WatcherReports, OnCrash, SetState, numbers, procs, RInv, IInv, TypeOK,
                RegistryTypeOK
  <2> QED BY <2>1, SilentStep
<1>3. CASE state[i] # "Absent"
  BY <1>1, <1>3 DEF WatcherReports, OnCrash, SetState, Promise!CrashShown, Promise!To,
                    numbers, procs
<1> QED BY <1>2, <1>3

\* A process of the instance ends by itself.
LEMMA SvcExitsStep ==
  ASSUME NEW i \in Ids, NEW r \in Runs, RInv, SvcExits(i, r)
  PROVE  Promise!Dies(i)
<1>1. svcLive[i] # {} /\ svcLive'[i] = {}
  BY OneProcess DEF SvcExits, RInv, IInv, TypeOK, ProcsTypeOK
<1>2. \A j \in Ids \ {i} : svcLive'[j] = svcLive[j]
  BY DEF SvcExits, RInv, IInv, TypeOK, ProcsTypeOK
<1> QED BY <1>1, <1>2 DEF Promise!Dies, SvcExits, registry, numbers

\* manager.rs, apply_health_verdict: a late verdict moves an instance that is in
\* service; of any other it only says that its process was seen up.
LEMMA ApplyStep ==
  ASSUME NEW i \in Ids, i = hm.id, NEW up \in BOOLEAN, RInv, Apply(up)
  PROVE  \/ Promise!Judged(i)
         \/ Promise!SeenUp(i)
         \/ UNCHANGED Promise!vars
<1> DEFINE v == AssessLayers(hm.pid # 0, up, hm.state, hm.failures, hm.successes)
<1>1. /\ state \in [Ids -> States]
      /\ UNCHANGED <<svcLive, run>>
  BY DEF Apply, RInv, IInv, TypeOK, RegistryTypeOK, HealthTypeOK, numbers, procs
<1>2. CASE up
  <2>1. run[i] \in svcLive[i] /\ run[i] # 0
    BY <1>1, <1>2 DEF Apply, RInv, IInv, TypeOK, ProcsTypeOK, Runs
  <2>2. okRun'[i] = run[i] /\ \A j \in Ids \ {i} : okRun'[j] = okRun[j]
    BY <1>1, <1>2 DEF Apply, RInv, IInv, TypeOK, RunsTypeOK
  <2>3. CASE state[i] \in InService
    <3>1. /\ state' = [state EXCEPT ![i] = v.state]
          /\ v.state \in {"Healthy", "Degraded", "Failed"}
      BY <2>3, AssessLayersType DEF Apply, RInv, IInv, TypeOK, HealthTypeOK
    <3> HIDE DEF v
    <3> QED BY <1>1, <2>1, <2>2, <2>3, <3>1
            DEF Promise!Judged, Promise!To, Promise!InService, InService
  <2>4. CASE state[i] \notin InService
    <3>1. UNCHANGED state
      BY <2>4 DEF Apply
    <3> QED BY <1>1, <2>1, <2>2, <3>1 DEF Promise!SeenUp
  <2> QED BY <2>3, <2>4
<1>3. CASE ~up
  <2>1. UNCHANGED okRun
    BY <1>3 DEF Apply
  <2>2. CASE state[i] \in InService
    <3>1. /\ state' = [state EXCEPT ![i] = v.state]
          /\ v.state \in {"Degraded", "Failed"}
      BY <1>3, <2>2 DEF Apply, AssessLayers
    <3> HIDE DEF v
    <3> QED BY <1>1, <2>1, <2>2, <3>1
            DEF Promise!Judged, Promise!To, Promise!InService, InService
  <2>3. CASE state[i] \notin InService
    BY <1>1, <2>1, <2>3, SilentStep DEF Apply
  <2> QED BY <2>2, <2>3
<1> QED BY <1>2, <1>3

\* Every step of the manager is a step of Lifecycle or is not seen.
LEMMA StepSimulation ==
  ASSUME RInv, [Next]_vars
  PROVE  [Promise!Next]_Promise!vars
<1>1. CASE Call
  <2>1. PICK i \in Ids :
           \/ RegistryInsert(i)
           \/ CallStart(i)
           \/ CallRestartIdle(i)
           \/ \E k \in {"stop", "restart", "delete", "retire"} : CallDoStop(i, k)
           \/ \E k \in {"stop", "delete", "retire"} : CallStopIdle(i, k)
    BY <1>1 DEF Call
  <2>2. CASE CallStart(i) \/ CallRestartIdle(i)
    BY <2>2, SilentStep DEF CallStart, CallRestartIdle, registry, numbers, procs
  <2> QED BY <2>1, <2>2, RegistryInsertStep, CallDoStopStep, CallStopIdleStep
          DEF Promise!Next
<1>2. CASE DoStart
  <2>1. PICK i \in Ids : i = lock
    BY <1>2, CallerIsOnInstance DEF DoStart, Begin, Resolve, StartDbus, StartSvc,
       ControlPlane, Cleanup, Verify, SetHealthy, CheckStarting, SetDegraded
  <2>2. CASE CheckStarting
    BY <2>2, SilentStep DEF CheckStarting, registry, numbers, procs
  <2> QED BY <1>2, <2>1, <2>2, BeginStep, ResolveStep, StartDbusStep, StartSvcStep,
             ControlPlaneStep, CleanupStep, VerifyStep, SetHealthyStep, SetDegradedStep
          DEF DoStart, Promise!Next
<1>3. CASE DoStop
  <2>1. PICK i \in Ids : i = lock
    BY <1>3, CallerIsOnInstance DEF DoStop, Join, JoinFails, Kill, Rmdir
  <2>2. CASE Join \/ JoinFails
    BY <2>2, SilentStep DEF Join, JoinFails, registry, numbers, procs
  <2> QED BY <1>3, <2>1, <2>2, KillStep, RmdirStep DEF DoStop, Promise!Next
<1>4. ASSUME NEW i \in Ids, NEW r \in Runs, Watcher(i, r)
      PROVE  [Promise!Next]_Promise!vars
  <2>1. CASE \/ WatcherCancelled(i, r) \/ WatcherSeesExit(i, r)
             \/ WatcherPanics(i, r) \/ WatcherChecksGeneration(i, r)
    BY <2>1, SilentStep DEF WatcherCancelled, WatcherSeesExit, WatcherPanics,
       WatcherChecksGeneration,
       registry, numbers, procs
  <2> QED BY <1>4, <2>1, WatcherReportsStep DEF Watcher, Promise!Next
<1>5. ASSUME NEW i \in Ids, NEW r \in Runs, SvcExits(i, r)
      PROVE  [Promise!Next]_Promise!vars
  BY <1>5, SvcExitsStep DEF Promise!Next
<1>6. CASE HealthCheck
  <2>1. ASSUME NEW i \in Ids, Collect(i) PROVE UNCHANGED Promise!vars
    BY <2>1, SilentStep DEF Collect, registry, numbers, procs
  <2>2. ASSUME NEW up \in BOOLEAN, Apply(up) PROVE [Promise!Next]_Promise!vars
    <3>1. PICK i \in Ids : i = hm.id
      BY <2>2 DEF Apply, RInv, IInv, TypeOK, HealthTypeOK
    <3> QED BY <2>2, <3>1, ApplyStep DEF Promise!Next
  <2> QED BY <1>6, <2>1, <2>2 DEF HealthCheck
<1>7. CASE UNCHANGED vars
  BY <1>7, SilentStep DEF vars, registry, numbers, procs
<1> QED BY <1>1, <1>2, <1>3, <1>4, <1>5, <1>6, <1>7 DEF Next

\* manager.rs, registry.rs, crash.rs: the manager keeps the promise of Lifecycle.
\* A start only begins where no process is left, its failure leaves none, a crash
\* is only shown of a process that is gone, and Stopped only when there is none.
THEOREM ManagerImplementsLifecycle == Spec => ImplementsLifecycle
<1>1. Init => Promise!Init
  BY DEF Init, Promise!Init
<1> QED BY <1>1, StepSimulation, RefinementInvariance, PTL
        DEF Spec, ImplementsLifecycle, Promise!Spec
=============================================================================
