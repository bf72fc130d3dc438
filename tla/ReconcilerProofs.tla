-------------------------- MODULE ReconcilerProofs --------------------------
(***************************************************************************)
(* Reconciler: no process without an entry, no command swallowed and no    *)
(* back-off cut short, for any number of instances, users' edits and       *)
(* back-off levels.                                                        *)
(*                                                                         *)
(* A round works on a snapshot that users' edits leave behind. IInv says   *)
(* how far behind it can be: until the round has come to the end of its    *)
(* work on a row, only users have written that row, and they neither set a *)
(* back-off nor take back a command. There is a lemma for each kind of     *)
(* write by users, for each step of a round and for each write after it.   *)
(***************************************************************************)
EXTENDS Reconciler, TLAPS

USE ProfilesAssumption, BoundsAssumption

\* A row that is there is a Row, and no Row is NoRow.
LEMMA RowType ==
  ASSUME NEW r \in Row \cup {NoRow}
  PROVE  /\ r.run \in BOOLEAN /\ r.auto \in BOOLEAN /\ r.pending \in BOOLEAN
         /\ r.profile \in Profiles \cup {NoProfile}
         /\ r.cmd \in Nat /\ r.obs \in Nat /\ r.gap \in 0 .. MaxGap
         /\ r # NoRow <=> r \in Row
<1>1. CASE r \in Row
  BY <1>1 DEF Row, NoRow
<1>2. CASE r = NoRow
  BY <1>2 DEF Row, NoRow
<1> QED BY <1>1, <1>2

-----------------------------------------------------------------------------
(***************************************************************************)
(* Users.                                                                  *)
(***************************************************************************)

\* api/instances.rs: a write by a user on a row that is there. It may delete the
\* row; else it leaves back-off and acknowledged generation alone and takes no
\* command back.
LEMMA EditPreserves ==
  ASSUME NEW i \in Ids, NEW r, IInv, Edit(i, r), UNCHANGED <<births, due>>, asked' \subseteq Ids,
         \/ r = NoRow
         \/ /\ Exists(i) /\ r \in Row
            /\ r.gap = row[i].gap /\ r.obs = row[i].obs /\ r.cmd >= row[i].cmd
  PROVE  IInv'
<1> USE DEF Edit, rt, round, Exists
<1>0. /\ \A j \in Ids \ {i} : row'[j] = row[j]
      /\ row'[i] = r
      /\ row'[i].cmd \in Nat
      /\ row[i] \in Row \cup {NoRow} /\ row[i].cmd \in Nat /\ row[i].obs \in Nat
      /\ snap[i] \in Row \cup {NoRow} /\ snap[i].cmd \in Nat
      /\ served[i] \in Nat
  BY RowType DEF IInv, Inv, TypeOK
<1>1. TypeOK'
  BY DEF IInv, Inv, TypeOK
<1>2. EntryForEveryProcess' /\ TodoInv'
  BY DEF IInv, Inv, EntryForEveryProcess, TodoInv, AtOrphans
<1>3. SnapshotInv'
  BY <1>0 DEF IInv, SnapshotInv, Undecided, AtOrphans
<1>4. GenerationInv'
  BY <1>0 DEF IInv, GenerationInv
<1>5. ServedInv'
  BY <1>0 DEF IInv, ServedInv
<1>6. CommandsServed'
  BY <1>0 DEF IInv, CommandsServed
<1> QED BY <1>1, <1>2, <1>3, <1>4, <1>5, <1>6 DEF IInv, Inv

\* api/instances.rs, create: a new row has no back-off, and if it is the first of
\* its id no snapshot knows the id.
LEMMA CreatePreserves ==
  ASSUME NEW i \in Ids, NEW p \in Profiles, NEW a \in AutoRestart, IInv, Create(i, p, a)
  PROVE  IInv'
<1> DEFINE r == [run |-> TRUE, auto |-> a, profile |-> p, pending |-> FALSE,
                 cmd |-> 0, obs |-> 0, gap |-> 0]
<1>0. /\ ~Exists(i)
      /\ births[i] < MaxBirths
      /\ births' = [births EXCEPT ![i] = @ + 1]
      /\ due' = [due EXCEPT ![i] = TRUE]
      /\ edits < MaxEdits /\ edits' = edits + 1
      /\ row' = [row EXCEPT ![i] = r]
      /\ UNCHANGED <<asked, reg, used, taken, served, cleared, rpc, snap, todo, cur>>
  BY DEF Create, Edit, rt, round
<1>1. r \in Row /\ r.gap = 0 /\ r.cmd = 0 /\ r.obs = 0
  BY AutoRestartAssumption DEF Row
<1> HIDE DEF r
<1>2. /\ \A j \in Ids \ {i} : row'[j] = row[j] /\ births'[j] = births[j]
      /\ row'[i] = r /\ births'[i] = births[i] + 1
      /\ births[i] \in Nat /\ served[i] \in Nat
      /\ births[i] = 0 => snap[i].cmd = 0
  BY <1>0 DEF IInv, Inv, TypeOK, GenerationInv, NoRow
<1>3. TypeOK'
  BY <1>0, <1>1, <1>2 DEF IInv, Inv, TypeOK
<1>4. EntryForEveryProcess' /\ TodoInv'
  BY <1>0 DEF IInv, Inv, EntryForEveryProcess, TodoInv, AtOrphans
<1>5. SnapshotInv'
  BY <1>0, <1>1, <1>2 DEF IInv, SnapshotInv, Undecided, AtOrphans, Exists
<1>6. GenerationInv'
  BY <1>0, <1>1, <1>2 DEF IInv, GenerationInv, Exists
<1>7. ServedInv'
  BY <1>0, <1>1, <1>2 DEF IInv, ServedInv, Exists
<1>8. CommandsServed'
  BY <1>0, <1>1, <1>2 DEF IInv, CommandsServed, Exists
<1> QED BY <1>3, <1>4, <1>5, <1>6, <1>7, <1>8 DEF IInv, Inv

\* api/instances.rs: every write by users.
LEMMA UserPreserves ==
  ASSUME IInv, User
  PROVE  IInv'
<1>0. row \in [Ids -> Row \cup {NoRow}] /\ asked \subseteq Ids
  BY DEF IInv, Inv, TypeOK
<1>1. ASSUME NEW i \in Ids, NEW b \in BOOLEAN, SetDesired(i, b) PROVE IInv'
  <2> DEFINE r == [row[i] EXCEPT !.run = b]
  <2>1. row[i] \in Row /\ r \in Row /\ r.gap = row[i].gap /\ r.obs = row[i].obs
        /\ r.cmd = row[i].cmd /\ row[i].cmd \in Nat
    BY <1>0, <1>1 DEF SetDesired, Exists, Row
  <2>2. Edit(i, r) /\ UNCHANGED <<births, due, asked>> /\ Exists(i)
    BY <1>1 DEF SetDesired
  <2> HIDE DEF r
  <2> QED BY <1>0, <2>1, <2>2, EditPreserves
<1>2. ASSUME NEW i \in Ids, NEW p \in Profiles, Rebind(i, p) PROVE IInv'
  <2> DEFINE r == [row[i] EXCEPT !.profile = p, !.pending = TRUE]
  <2>1. row[i] \in Row /\ r \in Row /\ r.gap = row[i].gap /\ r.obs = row[i].obs
        /\ r.cmd = row[i].cmd /\ row[i].cmd \in Nat
    BY <1>0, <1>2 DEF Rebind, Exists, Row
  <2>2. Edit(i, r) /\ UNCHANGED <<births, due, asked>> /\ Exists(i)
    BY <1>2 DEF Rebind
  <2> HIDE DEF r
  <2> QED BY <1>0, <2>1, <2>2, EditPreserves
<1>3. ASSUME NEW i \in Ids, RequestRestart(i) PROVE IInv'
  <2>1. CASE Exists(i)
    <3> DEFINE r == [row[i] EXCEPT !.cmd = @ + 1]
    <3>1. row[i] \in Row /\ r \in Row /\ r.gap = row[i].gap /\ r.obs = row[i].obs
          /\ r.cmd = row[i].cmd + 1 /\ row[i].cmd \in Nat
      BY <1>0, <2>1 DEF Exists, Row
    <3>2. Edit(i, r) /\ UNCHANGED <<births, due>> /\ asked' \subseteq Ids
      BY <1>0, <1>3, <2>1 DEF RequestRestart
    <3> HIDE DEF r
    <3> QED BY <2>1, <3>1, <3>2, EditPreserves
  <2>2. CASE ~Exists(i)
    BY <1>0, <1>3, <2>2, EditPreserves DEF RequestRestart
  <2> QED BY <2>1, <2>2
<1>4. ASSUME NEW i \in Ids, Delete(i) PROVE IInv'
  BY <1>0, <1>4, EditPreserves DEF Delete
<1>5. ASSUME NEW i \in Ids, CheckRunning(i) PROVE IInv'
  BY <1>5 DEF CheckRunning, rt, round, IInv, Inv, TypeOK, EntryForEveryProcess, TodoInv,
     SnapshotInv, GenerationInv, ServedInv, CommandsServed, Undecided, AtOrphans, Exists
<1> QED BY <1>1, <1>2, <1>3, <1>4, <1>5, CreatePreserves DEF User

\* The clock, and what the watcher and the health loop report.
LEMMA EnvironmentPreserves ==
  ASSUME NEW i \in Ids, IInv, BackoffExpires(i) \/ Crash(i)
  PROVE  IInv'
<1>0. UNCHANGED <<row, births, edits, asked, used, taken, served, cleared, rpc, snap, todo, cur>>
  BY DEF BackoffExpires, Crash, users, rt, round
<1>1. TypeOK'
  BY <1>0 DEF BackoffExpires, Crash, rt, IInv, Inv, TypeOK, States
<1>2. EntryForEveryProcess'
  BY <1>0 DEF BackoffExpires, Crash, rt, IInv, Inv, TypeOK, EntryForEveryProcess
<1>3. TodoInv' /\ SnapshotInv' /\ GenerationInv' /\ ServedInv' /\ CommandsServed'
  BY <1>0 DEF IInv, TodoInv, SnapshotInv, GenerationInv, ServedInv, CommandsServed,
     Undecided, AtOrphans, Exists
<1> QED BY <1>1, <1>2, <1>3 DEF IInv, Inv

-----------------------------------------------------------------------------
(***************************************************************************)
(* The steps of a round. They leave the rows alone.                        *)
(***************************************************************************)

\* reconciler/mod.rs, reconcile_once: the snapshot is the rows, and every entry
\* without a row is to do.
LEMMA RoundBeginsPreserves ==
  ASSUME IInv, RoundBegins
  PROVE  IInv'
<1> USE DEF RoundBegins, users, Exists
<1>0. \A i \in Ids : row[i] \in Row \cup {NoRow} /\ row[i].cmd \in Nat
  BY RowType DEF IInv, Inv, TypeOK
<1>1. TypeOK'
  BY DEF IInv, Inv, TypeOK, States, Pcs
<1>2. EntryForEveryProcess'
  BY DEF IInv, Inv, EntryForEveryProcess
<1>3. TodoInv'
  BY DEF TodoInv, AtOrphans
<1>4. SnapshotInv'
  BY <1>0 DEF SnapshotInv
<1>5. GenerationInv'
  BY <1>0 DEF IInv, GenerationInv
<1>6. ServedInv' /\ CommandsServed'
  BY DEF IInv, ServedInv, CommandsServed
<1> QED BY <1>1, <1>2, <1>3, <1>4, <1>5, <1>6 DEF IInv, Inv

\* runtime.stop, called for an entry without a row or for a row that is not to run.
LEMMA StopCallPreserves ==
  ASSUME NEW i \in Ids, IInv, rpc \in {"orphans", "decide"}, i \in todo, StopCall(i),
         UNCHANGED <<users, due, snap>>
  PROVE  IInv'
<1> USE DEF StopCall, users
<1>1. TypeOK'
  BY DEF IInv, Inv, TypeOK, States, Pcs
<1>2. EntryForEveryProcess'
  BY DEF IInv, Inv, TypeOK, EntryForEveryProcess
<1>3. todo' \subseteq todo /\ (AtOrphans' <=> AtOrphans)
  BY DEF IInv, TodoInv, AtOrphans
<1>4. TodoInv'
  BY <1>3 DEF IInv, TodoInv
<1>5. SnapshotInv'
  BY <1>3 DEF IInv, SnapshotInv, Undecided, Exists
<1>6. GenerationInv' /\ CommandsServed' /\ ServedInv'
  BY DEF IInv, GenerationInv, CommandsServed, ServedInv, Exists
<1> QED BY <1>1, <1>2, <1>4, <1>5, <1>6 DEF IInv, Inv

\* The stop returns: the entry of an orphan goes only when its process is gone.
LEMMA StopReturnsPreserves ==
  ASSUME IInv, StopReturns
  PROVE  IInv'
<1> USE DEF StopReturns, users
<1>1. TypeOK'
  BY DEF IInv, Inv, TypeOK, States, Pcs
<1>2. EntryForEveryProcess'
  BY DEF IInv, Inv, TypeOK, EntryForEveryProcess
<1>3. todo' \subseteq todo /\ (AtOrphans' <=> AtOrphans) /\ rpc' # "idle"
  BY DEF AtOrphans
<1>4. TodoInv'
  BY <1>3 DEF IInv, TodoInv
<1>5. SnapshotInv'
  BY <1>3 DEF IInv, SnapshotInv, Undecided, Exists
<1>6. GenerationInv' /\ CommandsServed' /\ ServedInv'
  BY DEF IInv, GenerationInv, CommandsServed, ServedInv, Exists
<1> QED BY <1>1, <1>2, <1>4, <1>5, <1>6 DEF IInv, Inv

\* The rows of the snapshot come after the orphans.
LEMMA OrphansDonePreserves ==
  ASSUME IInv, OrphansDone
  PROVE  IInv'
<1> USE DEF OrphansDone, users, rt
<1>1. TypeOK'
  BY DEF IInv, Inv, TypeOK, Pcs
<1>2. EntryForEveryProcess'
  BY DEF IInv, Inv, EntryForEveryProcess
<1>3. AtOrphans /\ ~AtOrphans'
  BY DEF AtOrphans
<1>4. TodoInv'
  BY <1>3 DEF TodoInv
<1>5. SnapshotInv'
  BY <1>3 DEF IInv, SnapshotInv, Undecided, Exists
<1>6. GenerationInv' /\ CommandsServed' /\ ServedInv'
  BY DEF IInv, GenerationInv, CommandsServed, ServedInv, Exists
<1> QED BY <1>1, <1>2, <1>4, <1>5, <1>6 DEF IInv, Inv

\* runtime.start and the start half of a restart: what the snapshot asks for was
\* given before this moment.
LEMMA StartCallPreserves ==
  ASSUME NEW i \in Ids, IInv, rpc \in {"decide", "restarting"}, StartCall(i), cur' = i,
         UNCHANGED <<users, due, snap, todo>>
  PROVE  IInv'
<1> USE DEF StartCall, users
<1>0. /\ row[i] \in Row \cup {NoRow} /\ row[i].cmd \in Nat
      /\ snap[i].profile \in Profiles \cup {NoProfile}
      /\ served'[i] = row[i].cmd
      /\ \A j \in Ids \ {i} : served'[j] = served[j]
  BY RowType DEF IInv, Inv, TypeOK
<1>1. TypeOK'
  BY <1>0 DEF IInv, Inv, TypeOK, States, Pcs
<1>2. EntryForEveryProcess'
  BY DEF IInv, Inv, TypeOK, EntryForEveryProcess
<1>3. ~AtOrphans /\ ~AtOrphans' /\ rpc' # "idle"
  BY DEF AtOrphans
<1>4. TodoInv'
  BY <1>3 DEF IInv, TodoInv
<1>5. SnapshotInv'
  BY <1>3 DEF IInv, SnapshotInv, Undecided, Exists
<1>6. GenerationInv'
  BY DEF IInv, GenerationInv, Exists
<1>7. CommandsServed' /\ ServedInv'
  BY <1>0 DEF IInv, GenerationInv, CommandsServed, ServedInv, Exists
<1> QED BY <1>1, <1>2, <1>4, <1>5, <1>6, <1>7 DEF IInv, Inv

\* A step of the round that stays with the rows: nothing is done, the runtime is at
\* work or has returned, or the round is over.
LEMMA RoundGoesOn ==
  ASSUME IInv, UNCHANGED <<users, due, snap, served>>,
         rpc \notin {"idle", "orphans", "stopping"}, rpc' \in Pcs \ {"orphans", "stopping"},
         cur' \in Ids, todo' \subseteq todo, rpc' = "idle" => todo' = {},
         reg' \in [Ids -> States], taken' \in [Ids -> BOOLEAN], cleared' \in [Ids -> BOOLEAN],
         used' \in [Ids -> Profiles \cup {NoProfile}], EntryForEveryProcess',
         rpc' \in {"starting", "clearBackoff", "clearPending", "acknowledge"} =>
            /\ rpc \in {"starting", "clearBackoff", "clearPending", "acknowledge"}
            /\ cur' = cur
  PROVE  IInv'
<1> USE DEF users
<1>1. TypeOK'
  BY DEF IInv, Inv, TypeOK
<1>2. ~AtOrphans /\ ~AtOrphans'
  BY DEF AtOrphans
<1>3. TodoInv'
  BY <1>2 DEF IInv, TodoInv
<1>4. SnapshotInv'
  BY <1>2 DEF IInv, SnapshotInv, Undecided, Exists
<1>5. GenerationInv' /\ CommandsServed' /\ ServedInv'
  BY DEF IInv, GenerationInv, CommandsServed, ServedInv, Exists
<1> QED BY <1>1, <1>3, <1>4, <1>5 DEF IInv, Inv

\* reconcile_instance: stop, start, restart or nothing.
LEMMA DecidePreserves ==
  ASSUME NEW i \in Ids, IInv,
         DecideStop(i) \/ DecideStart(i) \/ DecideRestart(i) \/ DecideNothing(i)
  PROVE  IInv'
<1>1. CASE DecideStop(i)
  BY <1>1, StopCallPreserves DEF DecideStop, NextId
<1>2. CASE DecideStart(i)
  BY <1>2, StartCallPreserves DEF DecideStart, NextId
<1>3. CASE DecideRestart(i)
  <2>1. CASE used[i] = NoProfile
    BY <1>3, <2>1, StartCallPreserves DEF DecideRestart, NextId
  <2>2. CASE used[i] # NoProfile
    <3>1. /\ UNCHANGED <<users, due, snap, served, cleared, used, taken, todo>>
          /\ rpc = "decide" /\ rpc' \in {"fail", "restarting"} /\ cur' = i
          /\ reg' = [reg EXCEPT ![i] = "Stopping"]
      BY <1>3, <2>2 DEF DecideRestart, NextId
    <3>2. reg' \in [Ids -> States] /\ EntryForEveryProcess'
      BY <3>1 DEF IInv, Inv, TypeOK, EntryForEveryProcess, States
    <3>3. /\ taken' \in [Ids -> BOOLEAN] /\ cleared' \in [Ids -> BOOLEAN]
          /\ used' \in [Ids -> Profiles \cup {NoProfile}]
      BY <3>1 DEF IInv, Inv, TypeOK
    <3> QED BY <3>1, <3>2, <3>3, RoundGoesOn DEF Pcs
  <2> QED BY <2>1, <2>2
<1>4. CASE DecideNothing(i)
  <2>1. /\ UNCHANGED <<users, due, snap, served, cleared, used, taken, reg, rpc, cur>>
        /\ rpc = "decide" /\ todo' \subseteq todo
    BY <1>4 DEF DecideNothing, NextId, rt
  <2>2. /\ reg' \in [Ids -> States] /\ EntryForEveryProcess' /\ cur' \in Ids
        /\ taken' \in [Ids -> BOOLEAN] /\ cleared' \in [Ids -> BOOLEAN]
        /\ used' \in [Ids -> Profiles \cup {NoProfile}]
    BY <2>1 DEF IInv, Inv, TypeOK, EntryForEveryProcess
  <2> QED BY <2>1, <2>2, RoundGoesOn DEF Pcs
<1> QED BY <1>1, <1>2, <1>3, <1>4

\* The end of a round.
LEMMA RoundEndsPreserves ==
  ASSUME IInv, RoundEnds
  PROVE  IInv'
<1>1. /\ UNCHANGED <<users, due, snap, served, cleared, used, taken, reg, cur, todo>>
      /\ rpc = "decide" /\ rpc' = "idle" /\ todo' = {}
  BY DEF RoundEnds, rt
<1>2. /\ reg' \in [Ids -> States] /\ EntryForEveryProcess' /\ cur' \in Ids
      /\ taken' \in [Ids -> BOOLEAN] /\ cleared' \in [Ids -> BOOLEAN]
      /\ used' \in [Ids -> Profiles \cup {NoProfile}]
  BY <1>1 DEF IInv, Inv, TypeOK, EntryForEveryProcess
<1> QED BY <1>1, <1>2, RoundGoesOn DEF Pcs

\* runtime.restart between its two halves: on to the start, or StopFailed.
LEMMA RestartStopsPreserves ==
  ASSUME IInv, RestartStops
  PROVE  IInv'
<1>0. cur \in Ids
  BY DEF IInv, Inv, TypeOK
<1>1. CASE StartCall(cur)
  <2>1. PICK i \in Ids : i = cur
    BY <1>0
  <2> QED BY <1>1, <2>1, StartCallPreserves DEF RestartStops
<1>2. CASE /\ rpc' = "fail"
           /\ taken' = [taken EXCEPT ![cur] = TRUE]
           /\ UNCHANGED <<reg, used, served, cleared>>
  <2>1. /\ UNCHANGED <<users, due, snap, todo, cur>> /\ rpc = "restarting"
    BY DEF RestartStops
  <2>2. /\ reg' \in [Ids -> States] /\ EntryForEveryProcess' /\ cur' \in Ids
        /\ taken' \in [Ids -> BOOLEAN] /\ cleared' \in [Ids -> BOOLEAN]
        /\ used' \in [Ids -> Profiles \cup {NoProfile}]
    BY <1>2, <2>1 DEF IInv, Inv, TypeOK, EntryForEveryProcess
  <2> QED BY <1>2, <2>1, <2>2, RoundGoesOn DEF Pcs
<1> QED BY <1>1, <1>2 DEF RestartStops

\* runtime.start returns: in service or crashed, or with nothing left of it.
LEMMA StartReturnsPreserves ==
  ASSUME IInv, StartSucceeds \/ StartErrs
  PROVE  IInv'
<1>1. /\ UNCHANGED <<users, due, snap, served, cleared, taken, todo, cur>>
      /\ rpc = "starting" /\ rpc' \in {"clearBackoff", "fail"}
  BY DEF StartSucceeds, StartErrs
<1>2. /\ reg' \in [Ids -> States] /\ cur' \in Ids
      /\ taken' \in [Ids -> BOOLEAN] /\ cleared' \in [Ids -> BOOLEAN]
      /\ used' \in [Ids -> Profiles \cup {NoProfile}]
  BY <1>1 DEF StartSucceeds, StartErrs, IInv, Inv, TypeOK, States
<1>3. EntryForEveryProcess'
  BY DEF StartSucceeds, StartErrs, IInv, Inv, TypeOK, EntryForEveryProcess
<1> QED BY <1>1, <1>2, <1>3, RoundGoesOn DEF Pcs

-----------------------------------------------------------------------------
(***************************************************************************)
(* The writes after a runtime call.                                        *)
(***************************************************************************)

\* db/repo.rs: a write of the round on the row as it is by now. Either the round is
\* done with the id, or the back-off is gone or as it was; the acknowledged
\* generation grows only to the one of the snapshot, and only at the end.
LEMMA WritePreserves ==
  ASSUME NEW r, NEW next \in {"clearPending", "acknowledge", "decide"}, IInv, Write(r, next),
         rpc \in {"clearBackoff", "clearPending", "acknowledge", "fail"},
         next = "decide" \/ rpc \in {"clearBackoff", "clearPending"},
         due' \in [Ids -> BOOLEAN], todo' \subseteq todo, cleared' \in [Ids -> BOOLEAN],
         Exists(cur) => /\ r \in Row /\ r.cmd = row[cur].cmd
                        /\ \/ r.obs = row[cur].obs
                           \/ rpc = "acknowledge" /\ r.obs = snap[cur].cmd
                        /\ \/ cur \notin todo'
                           \/ r.gap = 0
                           \/ r.gap = row[cur].gap /\ r.obs = row[cur].obs
  PROVE  IInv'
<1> USE DEF Write, rt, Exists
<1>0. /\ cur \in Ids
      /\ \A j \in Ids \ {cur} : row'[j] = row[j]
      /\ row[cur] # NoRow => row'[cur] = r
      /\ row[cur] = NoRow => row'[cur] = NoRow
  BY DEF IInv, Inv, TypeOK
<1>1. TypeOK'
  BY <1>0 DEF IInv, Inv, TypeOK, Pcs
<1>2. EntryForEveryProcess'
  BY DEF IInv, Inv, EntryForEveryProcess
<1>3. ~AtOrphans /\ ~AtOrphans' /\ rpc' # "idle"
  BY DEF AtOrphans
<1>4. TodoInv'
  BY <1>3 DEF IInv, TodoInv
<1>5. SnapshotInv'
  BY <1>0, <1>3 DEF IInv, SnapshotInv, Undecided
<1>6. GenerationInv'
  BY <1>0 DEF IInv, GenerationInv
<1>7. ServedInv'
  BY <1>0 DEF IInv, ServedInv
<1>8. CommandsServed'
  BY <1>0 DEF IInv, ServedInv, CommandsServed
<1> QED BY <1>1, <1>2, <1>4, <1>5, <1>6, <1>7, <1>8 DEF IInv, Inv

\* The row of the id is a Row, if it is there still.
LEMMA CurrentRow ==
  ASSUME IInv
  PROVE  /\ cur \in Ids
         /\ Exists(cur) => row[cur] \in Row
         /\ row[cur].gap \in 0 .. MaxGap
         /\ snap[cur].cmd \in Nat
BY RowType DEF IInv, Inv, TypeOK, Exists

\* reconciler/mod.rs: what follows a start that succeeded, and a failure.
LEMMA WritesPreserve ==
  ASSUME IInv, Writes
  PROVE  IInv'
<1> USE DEF IInv, Inv, TypeOK
<1>1. CASE ClearBackoff
  <2> DEFINE r == [row[cur] EXCEPT !.gap = 0]
  <2>1. Exists(cur) => r \in Row /\ r.cmd = row[cur].cmd /\ r.obs = row[cur].obs /\ r.gap = 0
    BY CurrentRow DEF Row
  <2>2. /\ Write(r, "clearPending") /\ rpc = "clearBackoff"
        /\ due' \in [Ids -> BOOLEAN] /\ todo' \subseteq todo /\ cleared' \in [Ids -> BOOLEAN]
    BY <1>1 DEF ClearBackoff
  <2> HIDE DEF r, IInv, Inv, TypeOK
  <2> QED BY <2>1, <2>2, WritePreserves
<1>2. CASE ClearPending
  <2> DEFINE r == [row[cur] EXCEPT !.pending = FALSE]
  <2>1. Exists(cur) => /\ r \in Row /\ r.cmd = row[cur].cmd /\ r.obs = row[cur].obs
                       /\ r.gap = row[cur].gap
    BY CurrentRow DEF Row
  <2>2. /\ Write(r, "acknowledge") /\ rpc = "clearPending"
        /\ due' \in [Ids -> BOOLEAN] /\ todo' \subseteq todo /\ cleared' \in [Ids -> BOOLEAN]
    BY <1>2 DEF ClearPending
  <2> HIDE DEF r, IInv, Inv, TypeOK
  <2> QED BY <2>1, <2>2, WritePreserves
<1>3. CASE Acknowledge
  <2>1. PICK r : r = [row[cur] EXCEPT !.obs = IF @ < snap[cur].cmd THEN snap[cur].cmd ELSE @]
    OBVIOUS
  <2>2. Exists(cur) => /\ r \in Row /\ r.cmd = row[cur].cmd
                       /\ r.obs = row[cur].obs \/ r.obs = snap[cur].cmd
    BY <2>1, CurrentRow DEF Row
  <2>3. /\ Write(r, "decide") /\ rpc = "acknowledge"
        /\ due' \in [Ids -> BOOLEAN] /\ cleared' \in [Ids -> BOOLEAN]
        /\ todo' \subseteq todo /\ cur \notin todo'
    BY <1>3, <2>1 DEF Acknowledge, Write
  <2> HIDE DEF IInv, Inv, TypeOK
  <2> QED BY <2>2, <2>3, WritePreserves
<1>4. CASE RecordFailure
  <2>1. PICK g \in {1, IF row[cur].gap < MaxGap THEN row[cur].gap + 1 ELSE MaxGap} :
           Write([row[cur] EXCEPT !.gap = g], "decide")
    BY <1>4 DEF RecordFailure
  <2> DEFINE r == [row[cur] EXCEPT !.gap = g]
  <2>2. g \in 0 .. MaxGap
    BY CurrentRow
  <2>3. Exists(cur) => r \in Row /\ r.cmd = row[cur].cmd /\ r.obs = row[cur].obs
    BY <2>2, CurrentRow DEF Row
  <2>4. /\ Write(r, "decide") /\ rpc = "fail"
        /\ due' \in [Ids -> BOOLEAN] /\ cleared' \in [Ids -> BOOLEAN]
        /\ todo' \subseteq todo /\ cur \notin todo'
    BY <1>4, <2>1 DEF RecordFailure
  <2> HIDE DEF r, IInv, Inv, TypeOK
  <2> QED BY <2>3, <2>4, WritePreserves
<1> QED BY <1>1, <1>2, <1>3, <1>4 DEF Writes

\* reconciler/mod.rs: an error of a write is ignored and the round goes on.
LEMMA WriteFailsPreserves ==
  ASSUME IInv, WriteFails
  PROVE  IInv'
<1>1. /\ UNCHANGED <<users, due, snap, served, cleared, used, taken, reg, cur>>
      /\ rpc \in {"clearBackoff", "clearPending", "acknowledge", "fail"}
      /\ rpc' \in {"clearPending", "acknowledge", "decide"}
      /\ rpc' # "decide" => rpc # "fail"
      /\ todo' \subseteq todo
  BY DEF WriteFails, WriteLost, rt
<1>2. /\ reg' \in [Ids -> States] /\ EntryForEveryProcess' /\ cur' \in Ids
      /\ taken' \in [Ids -> BOOLEAN] /\ cleared' \in [Ids -> BOOLEAN]
      /\ used' \in [Ids -> Profiles \cup {NoProfile}]
  BY <1>1 DEF IInv, Inv, TypeOK, EntryForEveryProcess
<1> QED BY <1>1, <1>2, RoundGoesOn DEF Pcs

-----------------------------------------------------------------------------
\* Every step of users, of the round, of the clock and of the runtime keeps it.
LEMMA NextPreserves ==
  ASSUME IInv, [Next]_vars
  PROVE  IInv'
<1>1. CASE User
  BY <1>1, UserPreserves
<1>2. CASE Round
  <2>1. ASSUME NEW i \in Ids, Orphan(i) PROVE IInv'
    BY <2>1, StopCallPreserves DEF Orphan
  <2> QED BY <1>2, <2>1, RoundBeginsPreserves, OrphansDonePreserves, RoundEndsPreserves,
             DecidePreserves, StopReturnsPreserves, RestartStopsPreserves,
             StartReturnsPreserves, WritesPreserve, WriteFailsPreserves DEF Round
<1>3. CASE \E i \in Ids : BackoffExpires(i) \/ Crash(i)
  BY <1>3, EnvironmentPreserves
<1>4. CASE UNCHANGED vars
  BY <1>4 DEF vars, users, rt, round, IInv, Inv, TypeOK, EntryForEveryProcess, TodoInv,
     SnapshotInv, GenerationInv, ServedInv, CommandsServed, Undecided, AtOrphans, Exists
<1> QED BY <1>1, <1>2, <1>3, <1>4 DEF Next

\* No row, no entry and no round at the start of the server.
LEMMA InitEstablishes == Init => IInv
<1> SUFFICES ASSUME Init PROVE IInv
  OBVIOUS
<1>1. TypeOK
  BY IdsAssumption DEF Init, TypeOK, States, Pcs
<1>2. /\ EntryForEveryProcess /\ TodoInv /\ SnapshotInv /\ GenerationInv
      /\ ServedInv /\ CommandsServed
  BY DEF Init, EntryForEveryProcess, TodoInv, SnapshotInv, GenerationInv, ServedInv,
         CommandsServed, Exists
<1> QED BY <1>1, <1>2 DEF IInv, Inv

\* The invariant holds in every reachable state.
THEOREM ReconcilerInvariance == Spec => []IInv
BY InitEstablishes, NextPreserves, PTL DEF Spec

\* reconciler/mod.rs: every process has an entry that a later round finds, also
\* when stops fail.
THEOREM NoProcessForgotten == Spec => []Inv
BY ReconcilerInvariance, PTL DEF IInv

\* reconciler/mod.rs, acknowledge_restart: a command that comes while a restart is in
\* progress is not acknowledged by it.
THEOREM NoCommandSwallowed == Spec => []CommandsServed
BY ReconcilerInvariance, PTL DEF IInv

\* reconciler/mod.rs, backoff_ready: it looks at the back-off of the snapshot, which
\* for a row not yet decided on is the row's own.
LEMMA StartsAgainInTime ==
  ASSUME IInv, Next, NEW i \in Ids, rpc = "decide", Exists(i), reg[i] = "Failed",
         reg'[i] \in {"Starting", "Stopping"}
  PROVE  row[i].gap = 0 \/ due[i] \/ Commanded(row[i]) \/ ~snap[i].run
<1>0. reg \in [Ids -> States]
  BY DEF IInv, Inv, TypeOK
<1>1. CASE User
  BY <1>1 DEF User, Create, SetDesired, CheckRunning, RequestRestart, Rebind, Delete, Edit, rt
<1>2. ASSUME NEW j \in Ids, DecideStop(j)
      PROVE  ~snap[i].run
  BY <1>0, <1>2 DEF DecideStop, WantsStop, StopCall
<1>3. ASSUME NEW j \in Ids, DecideStart(j)
      PROVE  FALSE
  BY <1>0, <1>3 DEF DecideStart, WantsStart, StartCall
<1>4. ASSUME NEW j \in Ids, DecideRestart(j)
      PROVE  row[i].gap = 0 \/ due[i] \/ Commanded(row[i])
  <2>1. i = j
    BY <1>0, <1>4 DEF DecideRestart, StartCall
  <2>2. /\ i \in todo
        /\ Commanded(snap[i]) \/ BackoffReady(i)
    BY <1>4, <2>1 DEF DecideRestart, NextId, WantsRestart
  <2>3. Undecided(i)
    BY <2>2 DEF IInv, TodoInv, Undecided, AtOrphans
  <2>4. \/ row[i].gap = 0
        \/ row[i].gap = snap[i].gap /\ row[i].obs = snap[i].obs /\ row[i].cmd >= snap[i].cmd
    BY <2>3 DEF IInv, SnapshotInv
  <2>5. /\ row[i].cmd \in Nat /\ row[i].obs \in Nat /\ snap[i].cmd \in Nat
    BY RowType DEF IInv, Inv, TypeOK
  <2> QED BY <2>2, <2>4, <2>5 DEF Commanded, BackoffReady
<1>5. ASSUME NEW j \in Ids, BackoffExpires(j) \/ Crash(j)
      PROVE  FALSE
  BY <1>0, <1>5 DEF BackoffExpires, Crash, rt
<1>6. CASE \/ RoundBegins \/ OrphansDone \/ RoundEnds
           \/ \E j \in Ids : Orphan(j) \/ DecideNothing(j)
           \/ StopReturns \/ RestartStops \/ StartSucceeds \/ StartErrs
           \/ Writes \/ WriteFails
  BY <1>6 DEF RoundBegins, OrphansDone, RoundEnds, Orphan, DecideNothing, StopReturns,
     RestartStops, StartSucceeds, StartErrs, Writes, ClearBackoff, ClearPending,
     Acknowledge, RecordFailure, WriteFails, rt
<1> QED BY <1>1, <1>2, <1>3, <1>4, <1>5, <1>6 DEF Next, Round

\* reconciler/mod.rs, backoff_ready: however stale the snapshot, an instance that
\* failed is not started again within the window its failure has set.
THEOREM BackoffIsHonoured == Spec => BackoffHonoured
<1>1. IInv /\ [Next]_vars =>
        [\A i \in Ids :
          rpc = "decide" /\ Exists(i) /\ reg[i] = "Failed" /\ reg'[i] \in {"Starting", "Stopping"}
              => row[i].gap = 0 \/ due[i] \/ Commanded(row[i]) \/ ~snap[i].run]_vars
  BY StartsAgainInTime
<1> QED BY <1>1, ReconcilerInvariance, PTL DEF Spec, BackoffHonoured
=============================================================================
