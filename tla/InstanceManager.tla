--------------------------- MODULE InstanceManager ---------------------------
(***************************************************************************)
(* The lifecycle of WARP instances inside one manager process              *)
(* (runtime/manager.rs, registry.rs, crash.rs, stop.rs, health_monitor.rs).*)
(*                                                                         *)
(* Three kinds of task share the runtime registry:                         *)
(*   - the one caller that holds the runs lock and runs start, stop,       *)
(*     restart or delete from end to end (lock, kind, pc);                 *)
(*   - a crash watcher per started process (wpc, wgen), which owns the     *)
(*     process handle and gives it back when it is joined;                 *)
(*   - the health loop (hm), which reads a snapshot, probes for seconds    *)
(*     and then writes its verdict.                                        *)
(* Only the first takes the lock: the other two interleave with it at      *)
(* every await, and write the registry behind short critical sections.     *)
(*                                                                         *)
(* Every call of do_start is given a number of its own, run[i]; a process, *)
(* a pid and a watcher are named by the run that made them. The code has   *)
(* no such number: its generation gen[i] is forgotten by a stop.           *)
(***************************************************************************)
EXTENDS Health

CONSTANTS Ids,      \* InstanceId
          NoId,     \* no instance
          MaxRuns   \* bound: calls of do_start per instance

ASSUME IdsAssumption == NoId \notin Ids
ASSUME MaxRunsAssumption == MaxRuns \in Nat \ {0}

Runs == 1 .. MaxRuns

InService == {"Healthy", "Degraded"}

States == InService \cup {"Absent", "Stopped", "Starting", "Failed", "Stopping"}

\* Where do_start can be, in order. From "verify" on the watcher owns the process.
Verifying == {"verify", "verified", "unverified", "degrade"}
Spawned   == {"control", "cleanup"} \cup Verifying
StartPcs  == {"begin", "resolve", "dbus", "svc"} \cup Spawned
StopPcs   == {"join", "kill", "rmdir"}

\* A watcher that has not returned its process handle yet.
WatcherActive == {"watching", "cancelled", "seen", "matched"}

Kinds == {"none", "start", "stop", "restart", "delete", "retire"}

VARIABLES
    state,     \* registry entry: RuntimeState, or Absent when there is none
    warpPid,   \* registry entry: warp_pid, as the run it belongs to; 0 is None
    fails,     \* registry entry: consecutive_failures
    succs,     \* registry entry: consecutive_successes
    handle,    \* runs table: the run of the RunningInstance, 0 when not there
    task,      \* runs table: watcher_task is Some
    gen,       \* current_run: generation, 0 when there is no entry
    run,       \* number of do_start calls so far
    svcLive,   \* warp-svc processes alive, by run
    dbusLive,  \* dbus-daemon processes alive, by run
    wpc,       \* crash watcher of each run
    wgen,      \* the generation it was spawned with
    lock,      \* the instance of the lifecycle call that holds the runs lock
    kind,      \* which call that is
    pc,        \* where it is
    hm,        \* the health loop's check in progress
    okRun      \* the last run whose data plane was seen up with warp=on

registry  == <<state, warpPid, fails, succs>>
runsTable == <<handle, task>>
numbers   == <<gen, run>>
procs     == <<svcLive, dbusLive>>
watchers  == <<wpc, wgen>>
caller    == <<lock, kind, pc>>
vars == <<registry, runsTable, numbers, procs, watchers, caller, hm, okRun>>

NoCheck == [id |-> NoId, state |-> "Absent", pid |-> 0,
            failures |-> 0, successes |-> 0]

RegistryTypeOK ==
    /\ state \in [Ids -> States]
    /\ warpPid \in [Ids -> 0 .. MaxRuns]
    /\ fails \in [Ids -> Counter]
    /\ succs \in [Ids -> Counter]

RunsTypeOK ==
    /\ handle \in [Ids -> 0 .. MaxRuns]
    /\ task \in [Ids -> BOOLEAN]
    /\ gen \in [Ids -> Nat]
    /\ run \in [Ids -> 0 .. MaxRuns]
    /\ okRun \in [Ids -> 0 .. MaxRuns]

ProcsTypeOK ==
    /\ svcLive \in [Ids -> SUBSET Runs]
    /\ dbusLive \in [Ids -> SUBSET Runs]

WatchersTypeOK ==
    /\ wpc \in [Ids -> [Runs -> WatcherActive \cup {"none", "ended", "panicked"}]]
    /\ wgen \in [Ids -> [Runs -> Nat]]

CallerTypeOK ==
    /\ lock \in Ids \cup {NoId}
    /\ kind \in Kinds
    /\ pc \in {"idle"} \cup StartPcs \cup StopPcs

HealthTypeOK ==
    hm \in [id : Ids \cup {NoId}, state : States,
            pid : 0 .. MaxRuns, failures : Counter, successes : Counter]

\* The types of the registry, the runs table, the processes, the watchers, the
\* call in progress and the health check. Counters stay within the width of the
\* code's u32 (they saturate), pids and handles name a run that was made.
TypeOK == /\ RegistryTypeOK /\ RunsTypeOK /\ ProcsTypeOK
          /\ WatchersTypeOK /\ CallerTypeOK /\ HealthTypeOK

\* The manager starts with an empty registry and an empty runs table.
Init ==
    /\ state = [i \in Ids |-> "Absent"]
    /\ warpPid = [i \in Ids |-> 0]
    /\ fails = [i \in Ids |-> 0]
    /\ succs = [i \in Ids |-> 0]
    /\ handle = [i \in Ids |-> 0]
    /\ task = [i \in Ids |-> FALSE]
    /\ gen = [i \in Ids |-> 0]
    /\ run = [i \in Ids |-> 0]
    /\ svcLive = [i \in Ids |-> {}]
    /\ dbusLive = [i \in Ids |-> {}]
    /\ wpc = [i \in Ids |-> [r \in Runs |-> "none"]]
    /\ wgen = [i \in Ids |-> [r \in Runs |-> 0]]
    /\ lock = NoId
    /\ kind = "none"
    /\ pc = "idle"
    /\ hm = NoCheck
    /\ okRun = [i \in Ids |-> 0]

-----------------------------------------------------------------------------
(***************************************************************************)
(* The runs lock is taken by a call and released when it returns.          *)
(***************************************************************************)
Acquire(i, k, p) ==
    /\ pc = "idle"
    /\ lock' = i
    /\ kind' = k
    /\ pc' = p

Release ==
    /\ lock' = NoId
    /\ kind' = "none"
    /\ pc' = "idle"

Goto(p) ==
    /\ pc' = p
    /\ UNCHANGED <<lock, kind>>

\* set_state: an update of an entry that is not there does nothing.
SetState(i, s) ==
    state' = [state EXCEPT ![i] = IF @ = "Absent" THEN @ ELSE s]

\* registry.remove; a later insert makes a fresh entry, all zero.
RemoveEntry(i) ==
    /\ state' = [state EXCEPT ![i] = "Absent"]
    /\ warpPid' = [warpPid EXCEPT ![i] = 0]
    /\ fails' = [fails EXCEPT ![i] = 0]
    /\ succs' = [succs EXCEPT ![i] = 0]

\* Variant: the pid alone makes the instance Healthy.
OnStartedHealthy(i) ==
    /\ state' = [state EXCEPT ![i] = "Healthy"]
    /\ warpPid' = [warpPid EXCEPT ![i] = run[i]]
    /\ fails' = [fails EXCEPT ![i] = 0]
    /\ succs' = [succs EXCEPT ![i] = 0]

\* registry.on_started: the pid is known, Starting stays, both counters restart.
OnStarted(i) ==
    /\ state' = [state EXCEPT ![i] = "Starting"]
    /\ warpPid' = [warpPid EXCEPT ![i] = run[i]]
    /\ fails' = [fails EXCEPT ![i] = 0]
    /\ succs' = [succs EXCEPT ![i] = 0]

\* registry.on_stopped
OnStopped(i) ==
    /\ state' = [state EXCEPT ![i] = "Stopped"]
    /\ warpPid' = [warpPid EXCEPT ![i] = 0]
    /\ UNCHANGED <<fails, succs>>

\* registry.on_crash
OnCrash(i) ==
    /\ SetState(i, "Failed")
    /\ warpPid' = [warpPid EXCEPT ![i] = 0]
    /\ fails' = [fails EXCEPT ![i] = SaturatingInc(@)]
    /\ UNCHANGED succs

\* fail_start: record_error on the entry, then the call returns Err. (The entry
\* is always there: do_start inserts it and nobody removes it under the lock.)
StartFails ==
    /\ state' = [state EXCEPT ![lock] = "Failed"]
    /\ fails' = [fails EXCEPT ![lock] = SaturatingInc(@)]
    /\ Release
    /\ UNCHANGED <<warpPid, succs>>

\* runs.insert(id, running) after a do_start that returned Ok.
StartReturns ==
    /\ handle' = [handle EXCEPT ![lock] = run[lock]]
    /\ task' = [task EXCEPT ![lock] = TRUE]
    /\ Release

-----------------------------------------------------------------------------
(***************************************************************************)
(* Calls: what start, stop, restart and delete do before their first await.*)
(* "retire" is the reconciler's convergence of an instance that is no      *)
(* longer desired: stop, and registry.remove only if stop returned Ok.     *)
(***************************************************************************)

\* The reconciler makes a registry entry for every desired instance.
RegistryInsert(i) ==
    /\ state[i] = "Absent"
    /\ state' = [state EXCEPT ![i] = "Stopped"]
    /\ UNCHANGED <<warpPid, fails, succs, runsTable, numbers, procs, watchers,
                   caller, hm, okRun>>

\* start; AlreadyRunning when the runs table has an entry.
CallStart(i) ==
    /\ handle[i] = 0
    /\ run[i] < MaxRuns
    /\ Acquire(i, "start", "begin")
    /\ UNCHANGED <<registry, runsTable, numbers, procs, watchers, hm, okRun>>

\* Variant: the sender is kept and the channel stays open.
CancelForgotten(i, r) == UNCHANGED wpc

\* Dropping watcher_cancel closes the channel: a watcher between two polls
\* ends silently, one that has seen the exit goes on.
CancelWatcher(i, r) ==
    wpc' = [wpc EXCEPT ![i][r] = IF @ = "watching" THEN "cancelled" ELSE @]

\* stop, restart or delete of an entry of the runs table: do_stop up to the
\* await of the watcher task. Without a task to take it is StopFailed, and the
\* entry goes back into the table.
CallDoStop(i, k) ==
    /\ handle[i] # 0
    /\ k = "restart" => run[i] < MaxRuns
    /\ pc = "idle"
    /\ SetState(i, "Stopping")
    /\ CancelWatcher(i, handle[i])
    /\ task' = [task EXCEPT ![i] = FALSE]
    /\ IF task[i] THEN Acquire(i, k, "join") ELSE Release
    /\ UNCHANGED <<warpPid, fails, succs, handle, numbers, procs, wgen, hm, okRun>>

\* Variant: the runs table is not consulted.
StopIdleUnchecked(i, k) ==
    /\ pc = "idle"
    /\ IF k = "stop" THEN SetState(i, "Stopped") /\ UNCHANGED <<warpPid, fails, succs>>
                     ELSE RemoveEntry(i)
    /\ UNCHANGED <<runsTable, numbers, procs, watchers, caller, hm, okRun>>

\* stop of an instance that is not in the table only writes Stopped; delete and
\* retire then remove the entry. The pid and the generation are left alone.
CallStopIdle(i, k) ==
    /\ handle[i] = 0
    /\ pc = "idle"
    /\ IF k = "stop" THEN SetState(i, "Stopped") /\ UNCHANGED <<warpPid, fails, succs>>
                     ELSE RemoveEntry(i)
    /\ UNCHANGED <<runsTable, numbers, procs, watchers,
                   caller, hm, okRun>>

\* restart of an instance that is not in the table: NotRunning without a
\* registry entry, else do_start.
CallRestartIdle(i) ==
    /\ handle[i] = 0
    /\ state[i] # "Absent"
    /\ run[i] < MaxRuns
    /\ Acquire(i, "restart", "begin")
    /\ UNCHANGED <<registry, runsTable, numbers, procs, watchers, hm, okRun>>

-----------------------------------------------------------------------------
(***************************************************************************)
(* do_start, one action per await.                                         *)
(***************************************************************************)

\* New generation, idempotent registry.insert, port probe (a busy port fails
\* the start), Starting.
Begin ==
    /\ pc = "begin"
    /\ gen' = [gen EXCEPT ![lock] = @ + 1]
    /\ run' = [run EXCEPT ![lock] = @ + 1]
    /\ \/ /\ state' = [state EXCEPT ![lock] = "Starting"]
          /\ Goto("resolve")
          /\ UNCHANGED <<warpPid, fails, succs>>
       \/ StartFails
    /\ UNCHANGED <<runsTable, procs, watchers, hm, okRun>>

\* Credentials are resolved and mdm.xml is put in place before any process.
Resolve ==
    /\ pc = "resolve"
    /\ \/ Goto("dbus") /\ UNCHANGED registry
       \/ StartFails
    /\ UNCHANGED <<runsTable, numbers, procs, watchers, hm, okRun>>

\* DbusRuntime::start: the spawn fails; or the daemon runs and its socket does
\* not appear in time, and the handle is dropped without a kill; or it is ready.
StartDbus ==
    /\ pc = "dbus"
    /\ \/ StartFails /\ UNCHANGED dbusLive
       \/ /\ dbusLive' = [dbusLive EXCEPT ![lock] = @ \cup {run[lock]}]
          /\ \/ StartFails
             \/ Goto("svc") /\ UNCHANGED registry
    /\ UNCHANGED <<runsTable, numbers, svcLive, watchers, hm, okRun>>

\* WarpService::start; a failure takes the daemon down again.
StartSvc ==
    /\ pc = "svc"
    /\ \/ /\ svcLive' = [svcLive EXCEPT ![lock] = @ \cup {run[lock]}]
          /\ Goto("control")
          /\ UNCHANGED <<registry, dbusLive>>
       \/ /\ dbusLive' = [dbusLive EXCEPT ![lock] = @ \ {run[lock]}]
          /\ StartFails
          /\ UNCHANGED svcLive
    /\ UNCHANGED <<runsTable, numbers, watchers, hm, okRun>>

\* ReadinessProbe and RegistrationFlow: either may fail, both with the same
\* clean-up; afterwards the process goes to its watcher and on_started writes
\* the pid. (No await in between, and the watcher sleeps before it first looks.)
ControlPlane ==
    /\ pc = "control"
    /\ \/ /\ Goto("cleanup")
          /\ UNCHANGED <<registry, watchers>>
       \/ /\ wpc' = [wpc EXCEPT ![lock][run[lock]] = "watching"]
          /\ wgen' = [wgen EXCEPT ![lock][run[lock]] = gen[lock]]
          /\ OnStarted(lock)
          /\ Goto("verify")
    /\ UNCHANGED <<runsTable, numbers, procs, hm, okRun>>

\* Variant: only the daemon is taken down.
CleanupDaemonOnly ==
    /\ pc = "cleanup"
    /\ dbusLive' = [dbusLive EXCEPT ![lock] = @ \ {run[lock]}]
    /\ StartFails
    /\ UNCHANGED <<svcLive, runsTable, numbers, watchers, hm, okRun>>

\* GracefulStop of a start that failed; its own error is ignored.
Cleanup ==
    /\ pc = "cleanup"
    /\ svcLive' = [svcLive EXCEPT ![lock] = @ \ {run[lock]}]
    /\ dbusLive' = [dbusLive EXCEPT ![lock] = @ \ {run[lock]}]
    /\ StartFails
    /\ UNCHANGED <<runsTable, numbers, watchers, hm, okRun>>

\* verify_data_plane: warp=on through the instance's own port within the
\* attempts, which takes a live process, or not.
Verify ==
    /\ pc = "verify"
    /\ \/ /\ run[lock] \in svcLive[lock]
          /\ okRun' = [okRun EXCEPT ![lock] = run[lock]]
          /\ Goto("verified")
       \/ Goto("unverified") /\ UNCHANGED okRun
    /\ UNCHANGED <<registry, runsTable, numbers, procs, watchers, hm>>

\* The Ok branch: the entry becomes Healthy whatever it is by now.
SetHealthy ==
    /\ pc = "verified"
    /\ SetState(lock, "Healthy")
    /\ StartReturns
    /\ UNCHANGED <<warpPid, fails, succs, numbers, procs, watchers, hm, okRun>>

\* The Err branch: still_starting is read ...
CheckStarting ==
    /\ pc = "unverified"
    /\ IF state[lock] = "Starting" THEN Goto("degrade") /\ UNCHANGED runsTable
                                   ELSE StartReturns
    /\ UNCHANGED <<registry, numbers, procs, watchers, hm, okRun>>

\* ... and the entry is written in a second critical section.
SetDegraded ==
    /\ pc = "degrade"
    /\ SetState(lock, "Degraded")
    /\ fails' = [fails EXCEPT ![lock] = 1]
    /\ StartReturns
    /\ UNCHANGED <<warpPid, succs, numbers, procs, watchers, hm, okRun>>

-----------------------------------------------------------------------------
(***************************************************************************)
(* do_stop from the await of the watcher task on.                          *)
(***************************************************************************)

\* Variant: the task is detached instead of awaited.
JoinWithoutWaiting ==
    /\ pc = "join"
    /\ Goto("kill")
    /\ UNCHANGED <<registry, runsTable, numbers, procs, watchers, hm, okRun>>

\* The watcher task is awaited; it gives the process handle back.
Join ==
    /\ pc = "join"
    /\ wpc[lock][handle[lock]] = "ended"
    /\ Goto("kill")
    /\ UNCHANGED <<registry, runsTable, numbers, procs, watchers, hm, okRun>>

\* The Err branch: the task has panicked and the handle is gone with it. StopFailed;
\* the entry goes back into the runs table, its watcher task taken.
JoinFails ==
    /\ pc = "join"
    /\ wpc[lock][handle[lock]] = "panicked"
    /\ Release
    /\ UNCHANGED <<registry, runsTable, numbers, procs, watchers, hm, okRun>>

\* GracefulStop: SIGTERM, bounded wait, SIGKILL; then the daemon.
Kill ==
    /\ pc = "kill"
    /\ svcLive' = [svcLive EXCEPT ![lock] = @ \ {handle[lock]}]
    /\ dbusLive' = [dbusLive EXCEPT ![lock] = @ \ {handle[lock]}]
    /\ Goto("rmdir")
    /\ UNCHANGED <<registry, runsTable, numbers, watchers, hm, okRun>>

\* The runtime directory is removed: on_stopped, and the call goes on by its
\* kind (stop forgets the generation, delete and retire remove the entry,
\* restart goes on to do_start). CleanupFailed instead returns StopFailed and
\* the entry goes back into the runs table, its watcher task taken.
Rmdir ==
    /\ pc = "rmdir"
    /\ \/ /\ IF kind \in {"delete", "retire"} THEN RemoveEntry(lock) ELSE OnStopped(lock)
          /\ handle' = [handle EXCEPT ![lock] = 0]
          /\ gen' = [gen EXCEPT ![lock] = IF kind \in {"stop", "retire"} THEN 0 ELSE @]
          /\ IF kind = "restart" THEN Goto("begin") ELSE Release
       \/ Release /\ UNCHANGED <<registry, handle, gen>>
    /\ UNCHANGED <<task, run, procs, watchers, hm, okRun>>

-----------------------------------------------------------------------------
(***************************************************************************)
(* The crash watcher of run r.                                             *)
(***************************************************************************)
WatcherCancelled(i, r) ==
    /\ wpc[i][r] = "cancelled"
    /\ wpc' = [wpc EXCEPT ![i][r] = "ended"]
    /\ UNCHANGED <<registry, runsTable, numbers, procs, wgen, caller, hm, okRun>>

\* A poll finds the process gone; reading the log tail is an await.
WatcherSeesExit(i, r) ==
    /\ wpc[i][r] = "watching"
    /\ r \notin svcLive[i]
    /\ wpc' = [wpc EXCEPT ![i][r] = "seen"]
    /\ UNCHANGED <<registry, runsTable, numbers, procs, wgen, caller, hm, okRun>>

\* The tail of the log is cut by bytes, which panics inside a character.
WatcherPanics(i, r) ==
    /\ wpc[i][r] = "seen"
    /\ wpc' = [wpc EXCEPT ![i][r] = "panicked"]
    /\ UNCHANGED <<registry, runsTable, numbers, procs, wgen, caller, hm, okRun>>

\* The generation guard: a watcher of another generation keeps quiet.
WatcherChecksGeneration(i, r) ==
    /\ wpc[i][r] = "seen"
    /\ wpc' = [wpc EXCEPT ![i][r] = IF gen[i] = wgen[i][r] THEN "matched" ELSE "ended"]
    /\ UNCHANGED <<registry, runsTable, numbers, procs, wgen, caller, hm, okRun>>

WatcherReports(i, r) ==
    /\ wpc[i][r] = "matched"
    /\ wpc' = [wpc EXCEPT ![i][r] = "ended"]
    /\ OnCrash(i)
    /\ UNCHANGED <<runsTable, numbers, procs, wgen, caller, hm, okRun>>

\* Environment: a warp-svc process ends by itself.
SvcExits(i, r) ==
    /\ r \in svcLive[i]
    /\ svcLive' = [svcLive EXCEPT ![i] = @ \ {r}]
    /\ UNCHANGED <<registry, runsTable, numbers, dbusLive, watchers, caller, hm, okRun>>

-----------------------------------------------------------------------------
(***************************************************************************)
(* The health loop: collect_health_layers reads a snapshot of the entry and*)
(* awaits warp-cli and the data-plane probe, seconds later                 *)
(* apply_health_verdict writes.                                            *)
(***************************************************************************)

\* Variant: only Degraded instances are looked at.
CollectDegraded(i) ==
    /\ hm.id = NoId
    /\ state[i] = "Degraded"
    /\ hm' = [id |-> i, state |-> state[i], pid |-> warpPid[i],
              failures |-> fails[i], successes |-> succs[i]]
    /\ UNCHANGED <<registry, runsTable, numbers, procs, watchers, caller, okRun>>

Collect(i) ==
    /\ hm.id = NoId
    /\ state[i] \in InService
    /\ hm' = [id |-> i, state |-> state[i], pid |-> warpPid[i],
              failures |-> fails[i], successes |-> succs[i]]
    /\ UNCHANGED <<registry, runsTable, numbers, procs, watchers, caller, okRun>>

\* Variant: the entry is written whatever it has become.
ApplyUnguarded(up) ==
    LET i == hm.id
        v == AssessLayers(hm.pid # 0, up, hm.state, hm.failures, hm.successes)
    IN  /\ i # NoId
        /\ up => run[i] \in svcLive[i]
        /\ okRun' = IF up THEN [okRun EXCEPT ![i] = run[i]] ELSE okRun
        /\ state' = [state EXCEPT ![i] = v.state]
        /\ fails' = [fails EXCEPT ![i] = v.failures]
        /\ succs' = [succs EXCEPT ![i] = v.successes]
        /\ hm' = NoCheck
        /\ UNCHANGED <<warpPid, runsTable, numbers, procs, watchers, caller>>

\* The probe answers ("up": connected and warp=on, which takes a live process)
\* and, with no await in between, the verdict is assessed from the snapshot and
\* written, if the entry is in service at that moment.
Apply(up) ==
    LET i == hm.id
        v == AssessLayers(hm.pid # 0, up, hm.state, hm.failures, hm.successes)
    IN  /\ i # NoId
        /\ up => run[i] \in svcLive[i]
        /\ okRun' = IF up THEN [okRun EXCEPT ![i] = run[i]] ELSE okRun
        /\ IF state[i] \in InService
           THEN /\ state' = [state EXCEPT ![i] = v.state]
                /\ fails' = [fails EXCEPT ![i] = v.failures]
                /\ succs' = [succs EXCEPT ![i] = v.successes]
           ELSE UNCHANGED <<state, fails, succs>>
        /\ hm' = NoCheck
        /\ UNCHANGED <<warpPid, runsTable, numbers, procs, watchers, caller>>

-----------------------------------------------------------------------------
Call ==
    \E i \in Ids :
        \/ RegistryInsert(i)
        \/ CallStart(i)
        \/ CallRestartIdle(i)
        \/ \E k \in {"stop", "restart", "delete", "retire"} : CallDoStop(i, k)
        \/ \E k \in {"stop", "delete", "retire"} : CallStopIdle(i, k)

DoStart == \/ Begin \/ Resolve \/ StartDbus \/ StartSvc \/ ControlPlane \/ Cleanup
           \/ Verify \/ SetHealthy \/ CheckStarting \/ SetDegraded

DoStop == Join \/ JoinFails \/ Kill \/ Rmdir

Watcher(i, r) == \/ WatcherCancelled(i, r) \/ WatcherSeesExit(i, r)
                 \/ WatcherPanics(i, r) \/ WatcherChecksGeneration(i, r) \/ WatcherReports(i, r)

HealthCheck == (\E i \in Ids : Collect(i)) \/ (\E up \in BOOLEAN : Apply(up))

Next ==
    \/ Call
    \/ DoStart
    \/ DoStop
    \/ \E i \in Ids, r \in Runs : Watcher(i, r) \/ SvcExits(i, r)
    \/ HealthCheck

Spec == Init /\ [][Next]_vars

\* Every await of a lifecycle call is bounded (attempts, timeouts, SIGKILL), a
\* watcher polls for ever, and the health loop visits every entry each round.
Fairness ==
    /\ WF_vars(DoStart \/ DoStop)
    /\ \A i \in Ids, r \in Runs : WF_vars(Watcher(i, r))
    /\ \A i \in Ids : SF_vars(Collect(i))
    /\ WF_vars(\E up \in BOOLEAN : Apply(up))

FairSpec == Spec /\ Fairness

-----------------------------------------------------------------------------
(***************************************************************************)
(* What must hold.                                                         *)
(***************************************************************************)

\* No warp-svc process is lost: one that is alive belongs to the instance's
\* latest do_start, and either the runs table holds its handle with a watcher to
\* join, or the call in progress on that instance holds it.
ProcessesOwned ==
    \A i \in Ids : \A r \in svcLive[i] :
        /\ r = run[i]
        /\ \/ handle[i] = r /\ task[i]
           \/ lock = i /\ pc \in Spawned \cup {"join", "kill"}

\* A watcher that can still speak is the one of the process the manager answers
\* for, and its generation matches: no crash of an earlier process is written to
\* a later one, and no crash of the present one is dropped as stale.
WatchersCurrent ==
    \A i \in Ids, r \in Runs : wpc[i][r] \in WatcherActive =>
        /\ r = run[i]
        /\ wgen[i][r] = gen[i]
        /\ \/ handle[i] = r /\ (task[i] \/ (lock = i /\ pc = "join"))
           \/ lock = i /\ pc \in Verifying

\* An instance shown as Healthy or Degraded is one that can be stopped: it is in
\* the runs table with its watcher task, and no call is at work on it.
InServiceIsManaged ==
    \A i \in Ids : state[i] \in InService =>
        handle[i] # 0 /\ handle[i] = run[i] /\ task[i] /\ lock # i

\* An instance shown as Stopped, or shown no more, has no process and no watcher
\* left, unless a call is at work on it.
StoppedIsDead ==
    \A i \in Ids : state[i] \in {"Stopped", "Absent"} /\ lock # i =>
        /\ handle[i] = 0
        /\ svcLive[i] = {}
        /\ \A r \in Runs : wpc[i][r] \notin WatcherActive

\* The pid in the registry (what the health loop takes for a live process) is
\* never that of an earlier process.
PidIsCurrent ==
    \A i \in Ids : warpPid[i] # 0 =>
        /\ warpPid[i] = run[i]
        /\ handle[i] = run[i] \/ (lock = i /\ pc \in Verifying)

\* The rest of what the registry may be trusted for, whatever interleaves with a
\* call: the counters stop at their limit (TypeOK), what is in service can be
\* stopped, what is stopped is dead, and the pid is never an old one.
Inv == TypeOK /\ InServiceIsManaged /\ StoppedIsDead /\ PidIsCurrent

\* Healthy is shown only for a process whose own data plane was seen up with
\* warp=on: not for a new process on the strength of its predecessor's probe, and
\* never because the pid is alive.
HealthyIsVerified ==
    \A i \in Ids : state[i] = "Healthy" => okRun[i] = run[i]

\* Only a start puts an instance into service. The health loop, which writes a
\* verdict seconds after its snapshot, never revives one that was stopped,
\* removed or found dead in between.
OnlyStartPutsInService ==
    [][\A i \in Ids : state[i] \notin InService /\ state'[i] \in InService => lock = i]_vars

\* Every lifecycle call returns and frees the lock (do_stop waits for a watcher
\* that may be anywhere in its own protocol).
CallsReturn == pc # "idle" ~> pc = "idle"

\* An instance whose process is gone does not stay Healthy: the watcher or, where
\* its report was overwritten, the health loop takes it out of service.
DeadIsNoticed ==
    \A i \in Ids, r \in Runs :
        (handle[i] = r /\ r \notin svcLive[i] /\ state[i] = "Healthy")
            ~> ~(handle[i] = r /\ state[i] = "Healthy")

(***************************************************************************)
(* What the call in progress may rely on, and the inductive invariant.     *)
(***************************************************************************)
CallInv ==
    /\ pc = "idle" <=> lock = NoId
    /\ pc \in StartPcs => handle[lock] = 0
    /\ pc = "begin" => run[lock] < MaxRuns
    /\ pc \in StartPcs \ {"begin"} => state[lock] \in {"Starting", "Failed"}
    /\ pc \in StopPcs => state[lock] \in {"Stopping", "Failed"}
    /\ pc \in StartPcs \ {"begin"} => run[lock] # 0
    /\ pc = "verified" => okRun[lock] = run[lock]
    /\ pc \in StopPcs => handle[lock] # 0 /\ ~task[lock]
    /\ pc \in StopPcs /\ kind = "restart" => run[lock] < MaxRuns

HandleInv == \A i \in Ids : handle[i] \in {0, run[i]}

IInv == /\ TypeOK /\ CallInv /\ HandleInv
        /\ ProcessesOwned /\ WatchersCurrent /\ InServiceIsManaged
        /\ StoppedIsDead /\ PidIsCurrent /\ HealthyIsVerified

\* A watcher that has seen the exit, and may be about to report it or has panicked over
\* it, is one of a process that is gone: what was found dead is never alive again. With
\* IInv it is inductive: a stop that gives up on such a watcher leaves no process behind.
SeenIsGone ==
    \A i \in Ids, r \in Runs : wpc[i][r] \in {"seen", "matched", "panicked"} => r \notin svcLive[i]

\* A watcher that has panicked is one of a run that had a watcher: never of the run
\* that is just starting.
PanickedHasRun ==
    \A i \in Ids, r \in Runs : wpc[i][r] = "panicked" =>
        /\ r <= run[i]
        /\ lock = i /\ pc \in {"resolve", "dbus", "svc", "control", "cleanup"} => r < run[i]

\* No run was seen up that has not begun.
SeenUpHasBegun == \A i \in Ids : okRun[i] <= run[i]

\* What the promise below needs beyond IInv.
RInv == IInv /\ SeenIsGone /\ PanickedHasRun /\ SeenUpHasBegun

(***************************************************************************)
(* The promise of Lifecycle: everything above is about how it is kept.     *)
(***************************************************************************)
Promise == INSTANCE Lifecycle WITH
    alive <- [i \in Ids |-> svcLive[i] # {}],
    seen <- [i \in Ids |-> run[i] # 0 /\ okRun[i] = run[i]]

\* The manager implements Lifecycle: whatever its calls, watchers and health
\* checks do to each other, a start only begins where no process is left, its
\* failure leaves none, only a start puts an instance into service, a verdict
\* only moves one that is in service, a crash is only shown of a process that
\* is gone, and Stopped is only shown when there is none.
ImplementsLifecycle == Promise!Spec
=============================================================================
