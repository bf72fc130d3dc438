----------------------------- MODULE Reconciler -----------------------------
(***************************************************************************)
(* The reconciler (reconciler/mod.rs): the only task that starts, stops    *)
(* and restarts instances. Users write desired rows (api/instances.rs,     *)
(* db/repo.rs) at any time; the reconciler goes round after round over a   *)
(* snapshot of the rows, calls the runtime, which takes up to minutes, and *)
(* then writes flags back into rows that may have changed meanwhile.       *)
(*                                                                         *)
(* The runtime is kept to what its callers see of it (InstanceManager has  *)
(* the whole of it): a start ends in service, Failed or in an error, a     *)
(* stop may fail and has then taken the watcher task for good, and what is *)
(* in service may crash. "Up" stands for Healthy and Degraded.             *)
(***************************************************************************)
EXTENDS Naturals, FiniteSets

CONSTANTS Ids,          \* instance ids, 1 .. n
          Profiles,     \* account profiles
          NoProfile,    \* no process
          AutoRestart,  \* values of the auto_restart column (1 unless an operator
                        \* has set it to 0: no handler writes it)
          MaxGap,       \* levels of the back-off, base * 2^k up to its maximum
          MaxEdits,     \* bound: edits by users
          MaxBirths,    \* bound: rows created under the same id
          StopMayFail   \* whether the runtime directory may resist its removal

ASSUME IdsAssumption == IsFiniteSet(Ids) /\ Ids = 1 .. Cardinality(Ids) /\ Ids # {}
ASSUME ProfilesAssumption == NoProfile \notin Profiles
ASSUME AutoRestartAssumption == AutoRestart \subseteq BOOLEAN
ASSUME BoundsAssumption == /\ MaxGap \in Nat \ {0} /\ MaxEdits \in Nat
                           /\ MaxBirths \in Nat /\ StopMayFail \in BOOLEAN

States == {"Absent", "Stopped", "Starting", "Up", "Failed", "Stopping"}

Row == [run : BOOLEAN, auto : BOOLEAN, profile : Profiles, pending : BOOLEAN,
        cmd : Nat, obs : Nat, gap : 0 .. MaxGap]

\* No row; a record, so that it can be compared with one.
NoRow == [run |-> FALSE, auto |-> FALSE, profile |-> NoProfile, pending |-> FALSE,
          cmd |-> 0, obs |-> 0, gap |-> 0]

VARIABLES
    row,     \* warp_instances: should_run, auto_restart, account_profile_id,
             \* restart_pending, restart_command_generation (cmd),
             \* observed_restart_generation (obs), back-off level (gap, 0 is none)
    due,     \* the clock has passed next_retry_at
    births,  \* rows created under each id so far
    edits,   \* edits by users so far
    asked,   \* restart requests that have passed the 409 check, by id
    reg,     \* runtime registry: the state, Absent when there is no entry
    used,    \* the profile of the process in the runs table, NoProfile if none
    taken,   \* its watcher task was taken by a stop that failed
    rpc,     \* where the round is
    snap,    \* the rows the round has read
    todo,    \* ids it has still to look at
    cur,     \* the id it is at work on
    served,  \* history: cmd of the row when the runtime was last called to start it
    cleared  \* history: the write-back of the last start has cleared the restart_pending
             \* of a binding that the start did not use

users == <<row, births, edits, asked>>
rt    == <<reg, used, taken, served, cleared>>
round == <<rpc, snap, todo, cur>>
vars  == <<users, due, rt, round>>

\* Pcs of a round. A runtime call is in progress in "stopping", "restarting" and
\* "starting"; the writes that follow a start are "clearBackoff", "clearPending"
\* and "acknowledge", the one that follows an error is "fail".
Pcs == {"idle", "orphans", "decide", "stopping", "restarting", "starting",
        "clearBackoff", "clearPending", "acknowledge", "fail"}

\* Types of the rows, of the registry and of the round in progress.
TypeOK ==
    /\ row \in [Ids -> Row \cup {NoRow}]
    /\ due \in [Ids -> BOOLEAN]
    /\ births \in [Ids -> 0 .. MaxBirths]
    /\ edits \in 0 .. MaxEdits
    /\ asked \subseteq Ids
    /\ reg \in [Ids -> States]
    /\ used \in [Ids -> Profiles \cup {NoProfile}]
    /\ taken \in [Ids -> BOOLEAN]
    /\ rpc \in Pcs
    /\ snap \in [Ids -> Row \cup {NoRow}]
    /\ todo \subseteq Ids
    /\ cur \in Ids
    /\ served \in [Ids -> Nat]
    /\ cleared \in [Ids -> BOOLEAN]

Exists(i) == row[i] # NoRow

Init ==
    /\ row = [i \in Ids |-> NoRow]
    /\ due = [i \in Ids |-> TRUE]
    /\ births = [i \in Ids |-> 0]
    /\ edits = 0
    /\ asked = {}
    /\ reg = [i \in Ids |-> "Absent"]
    /\ used = [i \in Ids |-> NoProfile]
    /\ taken = [i \in Ids |-> FALSE]
    /\ rpc = "idle"
    /\ snap = [i \in Ids |-> NoRow]
    /\ todo = {}
    /\ cur = CHOOSE i \in Ids : TRUE
    /\ served = [i \in Ids |-> 0]
    /\ cleared = [i \in Ids |-> FALSE]

-----------------------------------------------------------------------------
(***************************************************************************)
(* Users. Every handler ends in one statement or transaction on the row.   *)
(***************************************************************************)
Edit(i, r) ==
    /\ edits < MaxEdits
    /\ edits' = edits + 1
    /\ row' = [row EXCEPT ![i] = r]
    /\ UNCHANGED <<rt, round>>

\* POST /instances. The id column has no AUTOINCREMENT: the new id is one above
\* the largest in the table, so that of a deleted last row is given out again.
Create(i, p, a) ==
    /\ ~Exists(i)
    /\ \A j \in Ids : Exists(j) => j < i
    /\ i # 1 => Exists(i - 1)
    /\ births[i] < MaxBirths
    /\ births' = [births EXCEPT ![i] = @ + 1]
    /\ due' = [due EXCEPT ![i] = TRUE]
    /\ Edit(i, [run |-> TRUE, auto |-> a, profile |-> p, pending |-> FALSE,
                cmd |-> 0, obs |-> 0, gap |-> 0])
    /\ UNCHANGED asked

\* POST /instances/{id}/start and /stop: set_desired.
SetDesired(i, b) ==
    /\ Exists(i)
    /\ Edit(i, [row[i] EXCEPT !.run = b])
    /\ UNCHANGED <<births, asked, due>>

\* POST /instances/{id}/restart: a 409 unless the registry shows it running
\* (is_running: anything but Stopped) ...
CheckRunning(i) ==
    /\ Exists(i)
    /\ reg[i] \notin {"Absent", "Stopped"}
    /\ i \notin asked
    /\ asked' = asked \cup {i}
    /\ UNCHANGED <<row, births, edits, due, rt, round>>

\* ... then request_restart, on whatever row has the id by now.
RequestRestart(i) ==
    /\ i \in asked
    /\ asked' = asked \ {i}
    /\ Edit(i, IF Exists(i) THEN [row[i] EXCEPT !.cmd = @ + 1] ELSE NoRow)
    /\ UNCHANGED <<births, due>>

\* PATCH /instances/{id}: rebind_profile_guarded.
Rebind(i, p) ==
    /\ Exists(i)
    /\ Edit(i, [row[i] EXCEPT !.profile = p, !.pending = TRUE])
    /\ UNCHANGED <<births, asked, due>>

\* DELETE /instances/{id}: the row only, the reconciler does the rest.
Delete(i) ==
    /\ Exists(i)
    /\ Edit(i, NoRow)
    /\ UNCHANGED <<births, asked, due>>

\* Time passes next_retry_at.
BackoffExpires(i) ==
    /\ ~due[i]
    /\ due' = [due EXCEPT ![i] = TRUE]
    /\ UNCHANGED <<users, rt, round>>

\* The watcher or the health loop finds an instance in service dead, or the
\* watcher, on its way when it was cancelled, reports while do_stop waits for it.
Crash(i) ==
    /\ \/ reg[i] = "Up"
       \/ reg[i] = "Stopping" /\ cur = i /\ rpc \in {"stopping", "restarting"}
    /\ reg' = [reg EXCEPT ![i] = "Failed"]
    /\ UNCHANGED <<users, due, used, taken, served, cleared, round>>

-----------------------------------------------------------------------------
(***************************************************************************)
(* reconcile_once                                                          *)
(***************************************************************************)

\* The rows are listed, and with no await in between every row gets a registry
\* entry and the entries without a row are collected.
RoundBegins ==
    /\ rpc = "idle"
    /\ snap' = row
    /\ reg' = [i \in Ids |-> IF Exists(i) /\ reg[i] = "Absent" THEN "Stopped" ELSE reg[i]]
    /\ todo' = {i \in Ids : ~Exists(i) /\ reg[i] # "Absent"}
    /\ rpc' = "orphans"
    /\ UNCHANGED <<users, due, used, taken, served, cleared, cur>>

\* runtime.stop is called: nothing to stop, or do_stop begins. Without a watcher
\* task to take it is StopFailed at once, and the round goes on.
StopCall(i) ==
    /\ reg' = [reg EXCEPT ![i] = IF used[i] = NoProfile THEN @ ELSE "Stopping"]
    /\ IF taken[i] THEN todo' = todo \ {i} /\ UNCHANGED <<rpc, cur>>
                   ELSE rpc' = "stopping" /\ cur' = i /\ UNCHANGED todo
    /\ UNCHANGED <<used, taken, served, cleared>>

Orphan(i) ==
    /\ rpc = "orphans"
    /\ i \in todo
    /\ StopCall(i)
    /\ UNCHANGED <<users, due, snap>>

OrphansDone ==
    /\ rpc = "orphans"
    /\ todo = {}
    /\ rpc' = "decide"
    /\ todo' = {i \in Ids : snap[i] # NoRow}
    /\ UNCHANGED <<users, due, rt, snap, cur>>

\* Variant: an orphan's entry is removed even if stop returned an error.
StopReturnsAlwaysRemoves ==
    /\ rpc = "stopping"
    /\ \/ /\ reg' = [reg EXCEPT ![cur] = IF snap[cur] = NoRow THEN "Absent" ELSE "Stopped"]
          /\ used' = [used EXCEPT ![cur] = NoProfile]
          /\ UNCHANGED taken
       \/ /\ StopMayFail /\ used[cur] # NoProfile
          /\ reg' = [reg EXCEPT ![cur] = IF snap[cur] = NoRow THEN "Absent" ELSE @]
          /\ taken' = [taken EXCEPT ![cur] = TRUE]
          /\ UNCHANGED used
    /\ todo' = todo \ {cur}
    /\ rpc' = IF snap[cur] = NoRow THEN "orphans" ELSE "decide"
    /\ UNCHANGED <<users, due, served, cleared, snap, cur>>

\* stop returns. An orphan's entry goes with an Ok only; after an error the entry
\* stays as it is and the process in the runs table, its watcher task taken.
StopReturns ==
    /\ rpc = "stopping"
    /\ \/ /\ reg' = [reg EXCEPT ![cur] = IF snap[cur] = NoRow THEN "Absent" ELSE "Stopped"]
          /\ used' = [used EXCEPT ![cur] = NoProfile]
          /\ UNCHANGED taken
       \/ /\ StopMayFail /\ used[cur] # NoProfile
          /\ taken' = [taken EXCEPT ![cur] = TRUE]
          /\ UNCHANGED <<reg, used>>
    /\ todo' = todo \ {cur}
    /\ rpc' = IF snap[cur] = NoRow THEN "orphans" ELSE "decide"
    /\ UNCHANGED <<users, due, served, cleared, snap, cur>>

-----------------------------------------------------------------------------
(***************************************************************************)
(* reconcile_instance: the registry is read now, the row is the snapshot.  *)
(***************************************************************************)
Commanded(s) == s.cmd > s.obs

\* Variant: the window is not looked at.
BackoffIgnored(i) == TRUE

\* backoff_ready
BackoffReady(i) == snap[i].gap = 0 \/ due[i]

WantsStop(i) == ~snap[i].run /\ reg[i] \notin {"Absent", "Stopped", "Stopping"}

WantsStart(i) == snap[i].run /\ reg[i] \in {"Absent", "Stopped"}

\* Variant: a command is looked at only when the instance has failed.
WantsRestartFailed(i) ==
    /\ snap[i].run
    /\ \/ reg[i] = "Failed" /\ (Commanded(snap[i]) \/ (snap[i].auto /\ BackoffReady(i)))
       \/ reg[i] = "Up" /\ snap[i].pending

WantsRestart(i) ==
    /\ snap[i].run
    /\ \/ reg[i] = "Failed" /\ (Commanded(snap[i]) \/ (snap[i].auto /\ BackoffReady(i)))
       \/ reg[i] = "Up" /\ (snap[i].pending \/ Commanded(snap[i]))

\* Ids are taken in ascending order, one call at a time.
NextId(i) == rpc = "decide" /\ i \in todo /\ \A j \in todo : i <= j

\* runtime.start takes the profile of the snapshot.
StartCall(i) ==
    /\ rpc' = "starting"
    /\ reg' = [reg EXCEPT ![i] = "Starting"]
    /\ used' = [used EXCEPT ![i] = snap[i].profile]
    /\ served' = [served EXCEPT ![i] = row[i].cmd]
    /\ cleared' = [cleared EXCEPT ![i] = FALSE]
    /\ UNCHANGED taken

DecideStop(i) ==
    /\ NextId(i)
    /\ WantsStop(i)
    /\ StopCall(i)
    /\ UNCHANGED <<users, due, snap>>

DecideStart(i) ==
    /\ NextId(i)
    /\ WantsStart(i)
    /\ cur' = i
    /\ StartCall(i)
    /\ UNCHANGED <<users, due, snap, todo>>

\* runtime.restart: a process in the runs table is stopped first, which without
\* a watcher task is StopFailed at once.
DecideRestart(i) ==
    /\ NextId(i)
    /\ WantsRestart(i)
    /\ cur' = i
    /\ IF used[i] = NoProfile
       THEN StartCall(i)
       ELSE /\ rpc' = IF taken[i] THEN "fail" ELSE "restarting"
            /\ reg' = [reg EXCEPT ![i] = "Stopping"]
            /\ UNCHANGED <<used, taken, served, cleared>>
    /\ UNCHANGED <<users, due, snap, todo>>

DecideNothing(i) ==
    /\ NextId(i)
    /\ ~WantsStop(i) /\ ~WantsStart(i) /\ ~WantsRestart(i)
    /\ todo' = todo \ {i}
    /\ UNCHANGED <<users, due, rt, rpc, snap, cur>>

RoundEnds ==
    /\ rpc = "decide"
    /\ todo = {}
    /\ rpc' = "idle"
    /\ UNCHANGED <<users, due, rt, snap, todo, cur>>

\* The stop half of a restart.
RestartStops ==
    /\ rpc = "restarting"
    /\ \/ StartCall(cur)
       \/ /\ StopMayFail
          /\ rpc' = "fail"
          /\ taken' = [taken EXCEPT ![cur] = TRUE]
          /\ UNCHANGED <<reg, used, served, cleared>>
    /\ UNCHANGED <<users, due, snap, todo, cur>>

\* The start returns Ok (in service, or crashed while it was verified) ...
StartSucceeds ==
    /\ rpc = "starting"
    /\ \E s \in {"Up", "Failed"} : reg' = [reg EXCEPT ![cur] = s]
    /\ rpc' = "clearBackoff"
    /\ UNCHANGED <<users, due, used, taken, served, cleared, snap, todo, cur>>

\* ... or an error, everything it had started being taken down again.
StartErrs ==
    /\ rpc = "starting"
    /\ reg' = [reg EXCEPT ![cur] = "Failed"]
    /\ used' = [used EXCEPT ![cur] = NoProfile]
    /\ rpc' = "fail"
    /\ UNCHANGED <<users, due, taken, served, cleared, snap, todo, cur>>

-----------------------------------------------------------------------------
(***************************************************************************)
(* The writes after a runtime call. Each is a statement of its own, touches*)
(* no row that is gone, and its error is ignored.                          *)
(***************************************************************************)
Write(r, next) ==
    /\ row' = [row EXCEPT ![cur] = IF Exists(cur) THEN r ELSE @]
    /\ rpc' = next
    /\ UNCHANGED <<births, edits, asked, reg, used, taken, served, snap, cur>>

WriteLost(next) ==
    /\ rpc' = next
    /\ UNCHANGED <<users, due, rt, snap, cur>>

ClearBackoff ==
    /\ rpc = "clearBackoff"
    /\ Write([row[cur] EXCEPT !.gap = 0], "clearPending")
    /\ due' = [due EXCEPT ![cur] = TRUE]
    /\ UNCHANGED <<todo, cleared>>

\* clear_restart_pending, whatever has set the flag and when.
ClearPending ==
    /\ rpc = "clearPending"
    /\ Write([row[cur] EXCEPT !.pending = FALSE], "acknowledge")
    /\ cleared' = [cleared EXCEPT ![cur] = Exists(cur) /\ row[cur].profile # used[cur]]
    /\ UNCHANGED <<due, todo>>

\* Variant: the commands of the row, not those of the snapshot.
AcknowledgeAll ==
    /\ rpc = "acknowledge"
    /\ Write([row[cur] EXCEPT !.obs = row[cur].cmd], "decide")
    /\ todo' = todo \ {cur}
    /\ UNCHANGED <<due, cleared>>

\* acknowledge_restart(snapshot): MAX(observed, generation).
Acknowledge ==
    /\ rpc = "acknowledge"
    /\ Write([row[cur] EXCEPT !.obs = IF @ < snap[cur].cmd THEN snap[cur].cmd ELSE @],
             "decide")
    /\ todo' = todo \ {cur}
    /\ UNCHANGED <<due, cleared>>

\* record_failure: the double of the interval before, or the base interval when
\* there was none or the row could not be read again.
RecordFailure ==
    /\ rpc = "fail"
    /\ \E g \in {1, IF row[cur].gap < MaxGap THEN row[cur].gap + 1 ELSE MaxGap} :
           Write([row[cur] EXCEPT !.gap = g], "decide")
    /\ due' = [due EXCEPT ![cur] = ~Exists(cur)]
    /\ todo' = todo \ {cur}
    /\ UNCHANGED cleared

WriteFails ==
    \/ rpc = "clearBackoff" /\ WriteLost("clearPending") /\ UNCHANGED todo
    \/ rpc = "clearPending" /\ WriteLost("acknowledge") /\ UNCHANGED todo
    \/ rpc \in {"acknowledge", "fail"} /\ WriteLost("decide") /\ todo' = todo \ {cur}

-----------------------------------------------------------------------------
User == \E i \in Ids :
           \/ \E p \in Profiles, a \in AutoRestart : Create(i, p, a)
           \/ \E b \in BOOLEAN : SetDesired(i, b)
           \/ CheckRunning(i) \/ RequestRestart(i)
           \/ \E p \in Profiles : Rebind(i, p)
           \/ Delete(i)

Writes == ClearBackoff \/ ClearPending \/ Acknowledge \/ RecordFailure

Round ==
    \/ RoundBegins \/ OrphansDone \/ RoundEnds
    \/ \E i \in Ids : \/ Orphan(i) \/ DecideStop(i) \/ DecideStart(i)
                      \/ DecideRestart(i) \/ DecideNothing(i)
    \/ StopReturns \/ RestartStops \/ StartSucceeds \/ StartErrs
    \/ Writes \/ WriteFails

Next == User \/ Round \/ \E i \in Ids : BackoffExpires(i) \/ Crash(i)

Spec == Init /\ [][Next]_vars

\* The reconciler is woken at least every five seconds and every runtime call is
\* bounded; time passes. Of the environment: a start that is tried again and
\* again works now and then, and so does a write.
Fairness ==
    /\ WF_vars(Round)
    /\ \A i \in Ids : WF_vars(BackoffExpires(i))
    /\ \A i \in Ids : SF_vars(cur = i /\ StartSucceeds /\ reg'[i] = "Up")
    /\ \A i \in Ids : SF_vars(cur = i /\ ClearPending)
    /\ \A i \in Ids : SF_vars(cur = i /\ Acknowledge)

FairSpec == Spec /\ Fairness

-----------------------------------------------------------------------------
(***************************************************************************)
(* What must hold.                                                         *)
(***************************************************************************)

\* A restart command is acknowledged only by a start that was begun after it was
\* given: a command that arrives while a restart is in progress is not swallowed
\* by it. (Of an id that was given to one row only: a second row of the same id
\* may be met by the acknowledgement meant for the first.)
CommandsServed ==
    \A i \in Ids : Exists(i) /\ births[i] = 1 => row[i].obs <= served[i]

\* A process in the runs table has a registry entry: without one no later round
\* would find it again.
EntryForEveryProcess == \A i \in Ids : used[i] # NoProfile => reg[i] # "Absent"

\* At every await of a round: types, the back-off's maximum among them, and no
\* process that later rounds could not find.
Inv == TypeOK /\ EntryForEveryProcess

\* The reconciler starts a failed instance again without a command of a user only
\* after the window its last failed start has set, stale as the snapshot may be.
BackoffHonoured ==
    [][\A i \in Ids :
          rpc = "decide" /\ Exists(i) /\ reg[i] = "Failed" /\ reg'[i] \in {"Starting", "Stopping"}
              => row[i].gap = 0 \/ due[i] \/ Commanded(row[i]) \/ ~snap[i].run]_vars

(***************************************************************************)
(* The inductive invariant: how far a snapshot may be behind its row.      *)
(***************************************************************************)

\* The round is still at the instances without a row.
AtOrphans == rpc = "orphans" \/ (rpc = "stopping" /\ snap[cur] = NoRow)

\* What is left to do are entries without a row first, then rows.
TodoInv ==
    /\ rpc = "idle" => todo = {}
    /\ \A i \in todo : AtOrphans <=> snap[i] = NoRow

\* The round has not come to this row, or not to the end of it.
Undecided(i) == snap[i] # NoRow /\ (AtOrphans \/ i \in todo)

\* Only the reconciler writes the back-off and the acknowledged generation, at the
\* end of its work on a row; users only add commands. A new row has no back-off.
SnapshotInv ==
    \A i \in Ids : Undecided(i) /\ Exists(i) =>
        \/ row[i].gap = 0
        \/ /\ row[i].gap = snap[i].gap
           /\ row[i].obs = snap[i].obs
           /\ row[i].cmd >= snap[i].cmd

\* Generations of an id's first row: the snapshot's are not ahead of the row's, and
\* none is acknowledged that was not given.
GenerationInv ==
    \A i \in Ids :
        /\ births[i] = 0 => row[i] = NoRow /\ snap[i] = NoRow
        /\ Exists(i) /\ births[i] = 1 => /\ snap[i].cmd <= row[i].cmd
                                         /\ row[i].obs <= row[i].cmd

\* From the call of the runtime on, what the round will acknowledge was given before.
ServedInv ==
    /\ rpc \in {"starting", "clearBackoff", "clearPending", "acknowledge"}
    /\ Exists(cur) /\ births[cur] = 1
    => snap[cur].cmd <= served[cur]

IInv == Inv /\ TodoInv /\ SnapshotInv /\ GenerationInv /\ ServedInv /\ CommandsServed

\* Where the runtime should be for the row as it is: in service with the profile it is
\* bound to and every command acknowledged, or left Failed where automatic restarts are
\* off and no command asks for one. (The exception is a binding changed while an instance
\* was being started: the write-back of that start clears the mark it has left.)
Matches(i) ==
    IF ~Exists(i) THEN reg[i] = "Absent"
    ELSE IF ~row[i].run THEN reg[i] = "Stopped"
    ELSE /\ row[i].obs = row[i].cmd
         /\ \/ reg[i] = "Up" /\ ~row[i].pending /\ (used[i] = row[i].profile \/ cleared[i])
            \/ reg[i] = "Failed" /\ ~row[i].auto

\* Once users have stopped editing, every instance gets to where its row wants
\* it, with all commands acknowledged, however often starts and writes fail. (Not
\* one whose stop has failed: its watcher task is gone and no stop works again.)
Converges == \A i \in Ids : []<>(Matches(i) \/ taken[i])
=============================================================================
