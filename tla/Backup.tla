------------------------------- MODULE Backup -------------------------------
(***************************************************************************)
(* `cargo xtask backup`, `restore` and `backups` (xtask/tasks/backup.rs):  *)
(* the data volume is copied while the service is stopped; a restore goes  *)
(* through a staging volume, keeps what it replaces in an archive, and     *)
(* puts it back when the copy fails.                                       *)
(*                                                                         *)
(* Every command is a container of its own and may fail half way; the tool *)
(* may be killed between any two of them.  A volume is a function from the *)
(* files it has to their contents: the database says which key its secrets *)
(* are sealed under, its write-ahead log which transaction it ends with.   *)
(* One operator runs one command at a time, a second or more apart.        *)
(***************************************************************************)
EXTENDS Integers, Sequences, FiniteSets, SequencesExt

CONSTANTS StartTimes,  \* seconds since 1970 when the model begins
          Gaps,        \* seconds between two commands
          Moments,     \* seconds since 1970 at which the calendar is looked at
          MaxOps,      \* bound: commands
          MaxWrites,   \* bound: transactions of the service
          MaxFaults    \* bound: commands that fail, kills

ASSUME TimesAssumption ==
  StartTimes \cup Moments \subseteq Nat /\ Gaps \subseteq Nat \ {0}
ASSUME CommandsAssumption == {MaxOps, MaxWrites, MaxFaults} \subseteq Nat

VARIABLES live,      \* the data volume
          staging,   \* the staging volume: {} or {volume}
          archives,  \* the backup directory: [kind, name, at, data, whole], and of
                     \* the volume at the stop [moment, torn]
          service,   \* "up" or "down"
          op,        \* the command: [kind, pc, at, from, part, old, res], and whether
                     \* what it restores was torn
          now,       \* the clock
          ops,       \* commands so far
          writes,    \* transactions so far
          keys,      \* master keys made so far
          faults,    \* failures so far
          cleared,   \* history: every content of the volume a restore has wiped
          torn,      \* history: a restore has left the volume half done, or has
                     \* brought such a volume back
          stranded   \* history: docker refused, or the tool was killed

volumes == <<live, staging>>
counters == <<now, ops, writes, keys>>
history == <<cleared, torn, stranded>>
steady == <<faults, history>>
backupVars == <<volumes, archives, service, op, counters, faults, history>>

Files == {"db", "wal", "key", "mdm"}
Empty == [f \in {} |-> f]
Only(vol, S) == [f \in DOMAIN vol \cap S |-> vol[f]]
Without(vol, f) == Only(vol, Files \ {f})
\* One file is written; a volume is unpacked over what another one has.
With(vol, f, content) == [g \in DOMAIN vol \cup {f} |-> IF g = f THEN content ELSE vol[g]]
Over(new, old) ==
  [f \in DOMAIN new \cup DOMAIN old |-> IF f \in DOMAIN new THEN new[f] ELSE old[f]]

Idle == [kind |-> "none", pc |-> "idle", at |-> 0, from |-> Empty,
         part |-> Empty, old |-> Empty, res |-> "none", torn |-> FALSE]

BackupInit ==
  /\ live = With(With(Empty, "key", 1), "db", [v |-> 0, key |-> 1])
  /\ staging = {}
  /\ archives = {}
  /\ service = "up"
  /\ op = Idle
  /\ now \in StartTimes
  /\ ops = 0 /\ writes = 0 /\ keys = 1 /\ faults = 0
  /\ cleared = {} /\ torn = FALSE /\ stranded = FALSE

\* A command fails, half done or not begun.
Fault == faults < MaxFaults /\ faults' = faults + 1

Goto(pc) == op' = [op EXCEPT !.pc = pc]

-----------------------------------------------------------------------------
\* Variant: the year goes on to the end of February.
StampSameYear(secs) ==
  LET z   == secs \div 86400 + 719468
      era == z \div 146097
      doe == z - era * 146097
      yoe == (doe - doe \div 1460 + doe \div 36524 - doe \div 146096) \div 365
      doy == doe - (365 * yoe + yoe \div 4 - yoe \div 100)
      mp  == (5 * doy + 2) \div 153
      month == IF mp < 10 THEN mp + 3 ELSE mp - 9
  IN  << yoe + era * 400, month, doy - (153 * mp + 2) \div 5 + 1,
         (secs % 86400) \div 3600, (secs % 3600) \div 60, secs % 60 >>
\* stamp: the date and time in an archive's name, as numbers of fixed width.
\* Years are counted from March, in eras of 400.
Stamp(secs) ==
  LET z   == secs \div 86400 + 719468
      era == z \div 146097
      doe == z - era * 146097
      yoe == (doe - doe \div 1460 + doe \div 36524 - doe \div 146096) \div 365
      doy == doe - (365 * yoe + yoe \div 4 - yoe \div 100)
      mp  == (5 * doy + 2) \div 153
      month == IF mp < 10 THEN mp + 3 ELSE mp - 9
      year  == yoe + era * 400 + (IF month <= 2 THEN 1 ELSE 0)
  IN  << year, month, doy - (153 * mp + 2) \div 5 + 1,
         (secs % 86400) \div 3600, (secs % 3600) \div 60, secs % 60 >>

Before(a, b) == \E k \in DOMAIN a : a[k] < b[k] /\ \A j \in 1..(k - 1) : a[j] = b[j]

\* list: the backups, sorted by name.  The copies a restore makes are not listed.
Backups ==
  SetToSortSeq({a.name : a \in {b \in archives : b.kind = "backup"}}, Before)

-----------------------------------------------------------------------------
\* The service.  A transaction goes to the write-ahead log; a Zero Trust start
\* writes mdm.xml and removes it later.
Write ==
  /\ service = "up" /\ writes < MaxWrites
  /\ writes' = writes + 1
  /\ live' = With(live, "wal", writes + 1)
  /\ UNCHANGED <<staging, archives, service, op, now, ops, keys, steady>>

Merged(vol) ==
  IF "wal" \in DOMAIN vol
  THEN With(Without(vol, "wal"), "db", [vol["db"] EXCEPT !.v = vol["wal"]])
  ELSE vol
Checkpoint ==
  /\ service = "up" /\ "wal" \in DOMAIN live
  /\ live' = Merged(live)
  /\ UNCHANGED <<staging, archives, service, op, counters, steady>>

Mdm ==
  /\ service = "up"
  /\ live' = IF "mdm" \in DOMAIN live
             THEN Without(live, "mdm") ELSE With(live, "mdm", TRUE)
  /\ UNCHANGED <<staging, archives, service, op, counters, steady>>

\* Stopped in time it closes its database; else it is killed.
StopService ==
  /\ service' = "down"
  /\ live' \in IF service = "up" THEN {live, Merged(live)} ELSE {live}

\* A boot makes what it does not find: a key, and an empty database.
BootService ==
  LET key == IF "key" \in DOMAIN live THEN live["key"] ELSE keys + 1
      db  == [v |-> 0, key |-> key] IN
  /\ service' = "up"
  /\ keys' = IF "key" \in DOMAIN live THEN keys ELSE keys + 1
  /\ live' = IF "db" \in DOMAIN live THEN With(live, "key", key)
             ELSE With(With(Without(live, "wal"), "db", db), "key", key)

-----------------------------------------------------------------------------
Started(kind, pc, from, wasTorn) ==
  /\ op.pc = "idle" /\ ops < MaxOps
  /\ ops' = ops + 1
  /\ \E gap \in Gaps :
       /\ now' = now + gap
       /\ op' = [Idle EXCEPT !.kind = kind, !.pc = pc, !.at = now + gap,
                             !.from = from, !.old = live, !.res = "refused",
                             !.torn = wasTorn]
  /\ UNCHANGED <<live, archives, service, writes, keys, steady>>

\* Variant: the service goes on while its volume is copied.
BackupHot == Started("backup", "tar", Empty, FALSE) /\ UNCHANGED staging

\* backup: the name is made before the service is stopped.
BeginBackup == Started("backup", "stop", Empty, FALSE) /\ UNCHANGED staging

\* restore lists the archive first: one that was cut short cannot be read, and one
\* without a database or a key is refused.
Acceptable(a) == a.whole /\ {"db", "key"} \subseteq DOMAIN a.data

\* Then the staging volume is made anew.  Removing the one before may fail, which
\* is ignored, and creating one that is there succeeds.
BeginRestore(a) ==
  /\ Acceptable(a)
  /\ Started("restore", "stop", a.data, a.torn)
  /\ staging' \in {{Empty}} \cup (IF staging = {} THEN {} ELSE {staging})

\* compose("stop"): an error ends the command at once.
ComposeStop ==
  /\ op.pc = "stop"
  /\ StopService
  /\ op' = [op EXCEPT !.pc = IF op.kind = "backup" THEN "tar" ELSE "unpack",
                      !.old = live']
  /\ UNCHANGED <<staging, archives, counters, steady>>
ComposeStopFails ==
  /\ op.pc = "stop"
  /\ Fault
  /\ StopService \/ UNCHANGED <<live, service>>
  /\ op' = Idle
  /\ stranded' = TRUE
  /\ UNCHANGED <<staging, archives, counters, cleared, torn>>

\* tar reads the volume file by file; a backup leaves mdm.xml out, the copy that a
\* restore makes of what it replaces does not.
Packed == IF op.kind = "backup" THEN Without(live, "mdm") ELSE live
Tar ==
  /\ op.pc = "tar"
  /\ \E S \in SUBSET Files :
       op' = [op EXCEPT !.pc = "tar2", !.part = Only(Packed, S)]
  /\ UNCHANGED <<volumes, archives, service, counters, steady>>

\* An archive takes the place of one of its name.
Filed(data, whole) ==
  LET name == Stamp(op.at) IN
  archives' = {a \in archives : <<a.kind, a.name>> # <<op.kind, name>>}
                \cup {[kind |-> op.kind, name |-> name, at |-> op.at,
                       data |-> data, whole |-> whole, torn |-> torn,
                       moment |-> IF op.kind = "backup"
                                  THEN Without(op.old, "mdm") ELSE op.old]}

TarDone ==
  /\ op.pc = "tar2"
  /\ Filed(Over(op.part, Packed), TRUE)
  /\ Goto(IF op.kind = "backup" THEN "start" ELSE "clear")
  /\ UNCHANGED <<volumes, service, counters, steady>>

\* Variant: a restore goes on without its copy.
TarFailsGoesOn ==
  /\ op.pc = "tar2"
  /\ Fault
  /\ Filed(op.part, FALSE)
  /\ Goto(IF op.kind = "backup" THEN "start" ELSE "clear")
  /\ UNCHANGED <<volumes, service, counters, history>>

\* What has been written stays in the directory, under its name.
TarFails ==
  /\ op.pc = "tar2"
  /\ Fault
  /\ Filed(op.part, FALSE)
  /\ Goto(IF op.kind = "backup" THEN "start" ELSE "cleanup")
  /\ UNCHANGED <<volumes, service, counters, history>>

-----------------------------------------------------------------------------
Staged == CHOOSE vol \in staging : TRUE

\* The archive is unpacked over whatever the staging volume has.
Unpack ==
  /\ op.pc = "unpack"
  /\ staging' = {Over(op.from, Staged)}
  /\ Goto("check")
  /\ UNCHANGED <<live, archives, service, counters, steady>>
UnpackFails ==
  /\ op.pc = "unpack"
  /\ Fault
  /\ \E S \in SUBSET Files : staging' = {Over(Only(op.from, S), Staged)}
  /\ Goto("cleanup")
  /\ UNCHANGED <<live, archives, service, counters, history>>

\* PRAGMA integrity_check and the length of the key.  A log of another database may
\* or may not be found out; the check itself may fail.
Check ==
  /\ op.pc = "check"
  /\ \/ Goto("tar") /\ UNCHANGED faults
     \/ Goto("cleanup") /\ Fault
  /\ UNCHANGED <<volumes, archives, service, counters, history>>

\* The switch.
Clear ==
  /\ op.pc = "clear"
  /\ live' = Empty
  /\ cleared' = cleared \cup {live}
  /\ Goto("copy")
  /\ UNCHANGED <<staging, archives, service, counters, faults, torn, stranded>>

\* An error here returns without a roll-back.
ClearFails ==
  /\ op.pc = "clear"
  /\ Fault
  /\ \E S \in SUBSET Files : live' = Only(live, S)
  /\ cleared' = cleared \cup {live}
  /\ torn' = TRUE
  /\ op' = [op EXCEPT !.pc = "cleanup", !.res = "half"]
  /\ UNCHANGED <<staging, archives, service, counters, stranded>>

Copy ==
  /\ op.pc = "copy"
  /\ live' = Over(Staged, live)
  /\ torn' = op.torn
  /\ op' = [op EXCEPT !.pc = "recheck", !.res = "copied"]
  /\ UNCHANGED <<staging, archives, service, counters, faults, cleared, stranded>>
CopyFails ==
  /\ op.pc = "copy"
  /\ Fault
  /\ \E S \in SUBSET Files : live' = Over(Only(Staged, S), live)
  /\ Goto("rollback")
  /\ UNCHANGED <<staging, archives, service, counters, history>>

\* The copy of the old volume is unpacked over what the new one has left.
Rollback ==
  /\ op.pc = "rollback"
  /\ \E a \in archives :
       /\ a.kind = "restore" /\ a.at = op.at
       /\ live' = Over(a.data, live)
  /\ op' = [op EXCEPT !.pc = "cleanup", !.res = "rolled_back"]
  /\ UNCHANGED <<staging, archives, service, counters, steady>>
RollbackFails ==
  /\ op.pc = "rollback"
  /\ Fault
  /\ \E a \in archives, S \in SUBSET Files :
       /\ a.kind = "restore" /\ a.at = op.at
       /\ live' = Over(Only(a.data, S), live)
  /\ torn' = TRUE
  /\ op' = [op EXCEPT !.pc = "cleanup", !.res = "half"]
  /\ UNCHANGED <<staging, archives, service, counters, cleared, stranded>>

\* The second check changes what the command reports and nothing else.
Recheck ==
  /\ op.pc = "recheck"
  /\ \/ op' = [op EXCEPT !.pc = "cleanup", !.res = "ok"] /\ UNCHANGED faults
     \/ Goto("cleanup") /\ Fault
  /\ UNCHANGED <<volumes, archives, service, counters, history>>

\* The staging volume goes, or stays when docker refuses.
Cleanup ==
  /\ op.pc = "cleanup"
  /\ \/ staging' = {} /\ UNCHANGED faults
     \/ UNCHANGED staging /\ Fault
  /\ Goto("start")
  /\ UNCHANGED <<live, archives, service, counters, history>>

-----------------------------------------------------------------------------
ComposeStart ==
  /\ op.pc = "start"
  /\ BootService
  /\ op' = Idle
  /\ UNCHANGED <<staging, archives, now, ops, writes, steady>>
ComposeStartFails ==
  /\ op.pc = "start"
  /\ Fault
  /\ op' = Idle
  /\ stranded' = TRUE
  /\ UNCHANGED <<volumes, archives, service, counters, cleared, torn>>

\* The tool is killed between two of its commands.
Killed ==
  /\ op.pc # "idle"
  /\ Fault
  /\ op' = Idle
  /\ stranded' = TRUE
  /\ torn' = (torn \/ op.pc \in {"copy", "rollback"})
  /\ UNCHANGED <<volumes, archives, service, counters, cleared>>

\* `docker compose start`, by hand.
OperatorStarts ==
  /\ op.pc = "idle" /\ service = "down"
  /\ BootService
  /\ stranded' = FALSE
  /\ UNCHANGED <<staging, archives, op, now, ops, writes, faults, cleared, torn>>

RestoreSteps ==
  \/ Unpack \/ UnpackFails \/ Check
  \/ Clear \/ ClearFails \/ Copy \/ CopyFails
  \/ Rollback \/ RollbackFails \/ Recheck \/ Cleanup
Command ==
  \/ ComposeStop \/ ComposeStopFails
  \/ Tar \/ TarDone \/ TarFails
  \/ RestoreSteps
  \/ ComposeStart \/ ComposeStartFails

BackupNext ==
  \/ Write \/ Checkpoint \/ Mdm
  \/ BeginBackup
  \/ \E a \in archives : BeginRestore(a)
  \/ Command
  \/ Killed \/ OperatorStarts

BackupSpec == BackupInit /\ [][BackupNext]_backupVars

-----------------------------------------------------------------------------
\* A volume of the files there can be, sealed under one of the first n keys.
Dbs(n) == [v : 0..MaxWrites, key : 1..n]
IsVolume(vol, n) ==
  /\ DOMAIN vol \subseteq Files /\ vol = [f \in DOMAIN vol |-> vol[f]]
  /\ "db" \in DOMAIN vol => vol["db"] \in Dbs(n)
  /\ "wal" \in DOMAIN vol => vol["wal"] \in 1..MaxWrites
  /\ "key" \in DOMAIN vol => vol["key"] \in 1..n

BackupTypeOK ==
  /\ IsVolume(live, keys) /\ \A x, y \in staging : x = y
  /\ \A vol \in staging \cup cleared \cup {op.from, op.part, op.old} : IsVolume(vol, keys)
  /\ \A a \in archives : a.kind \in {"backup", "restore"} /\ IsVolume(a.data, keys)
                         /\ {a.whole, a.torn} \subseteq BOOLEAN /\ a.at \in 0..now
  /\ service \in {"up", "down"}
  /\ op.pc \in {"idle", "stop", "tar", "tar2", "start", "unpack", "check", "clear",
                "copy", "rollback", "recheck", "cleanup"}
  /\ op.res \in {"none", "refused", "half", "copied", "rolled_back", "ok"}
  /\ op.kind = "restore" /\ op.pc # "start" => staging # {}
  /\ service = "up" => {"db", "key"} \subseteq DOMAIN live
  /\ {torn, stranded, op.torn} \subseteq BOOLEAN
  /\ {now, ops, faults} \subseteq Nat /\ writes \in 0..MaxWrites /\ keys \in Nat \ {0}

\* The calendar, year by year and month by month.
Leap(y) == (y % 4 = 0 /\ y % 100 # 0) \/ y % 400 = 0
MonthLength(y, m) ==
  CASE m = 2 -> IF Leap(y) THEN 29 ELSE 28
    [] m \in {4, 6, 9, 11} -> 30
    [] OTHER -> 31
SumOver(S, f(_)) == FoldSet(LAMBDA x, acc : f(x) + acc, 0, S)
DaysTo(n) ==
  365 * (n[1] - 1970) + Cardinality({y \in 1970..(n[1] - 1) : Leap(y)})
    + SumOver(1..(n[2] - 1), LAMBDA m : MonthLength(n[1], m)) + n[3] - 1
IsMoment(n, secs) ==
  /\ n[2] \in 1..12 /\ n[3] \in 1..MonthLength(n[1], n[2])
  /\ DaysTo(n) * 86400 + n[4] * 3600 + n[5] * 60 + n[6] = secs

\* The name of an archive is the moment it was asked for, in the calendar, and it
\* would be at any other moment: midnights, the ends of months and years, leap years
\* and those that are none.  The calendar, which no state changes, is looked at before
\* the first command.
CalendarHolds == \A t \in Moments : IsMoment(Stamp(t), t)
StampTellsTime == (ops = 0 => CalendarHolds) /\ \A a \in archives : IsMoment(a.name, a.at)

\* The listing has the backups in the order in which they were made, the newest last.
ListedByAge ==
  \A i, j \in DOMAIN Backups : i < j =>
    \E a, b \in archives : /\ a.kind = "backup" /\ b.kind = "backup"
                           /\ a.name = Backups[i] /\ b.name = Backups[j]
                           /\ a.at < b.at

\* A whole archive is the volume at one moment, that of the stop: no file of it is
\* older or newer than another, although it was read file by file.
ArchiveIsOneMoment == \A a \in archives : a.whole => a.data = a.moment

\* Whatever fails and wherever the tool is killed, every content of the volume that a
\* restore has wiped is in a whole archive.
NothingLost ==
  \A vol \in cleared : \E a \in archives : a.whole /\ a.data = vol

\* What a restore reports is what it has left: refused, the old volume untouched;
\* rolled back, every file of the old one; copied or ok, every file of the archive (and
\* none is promised away: files of another archive may come along, from a staging volume
\* that could not be removed or from a failed copy).
RestoreAnswers ==
  op.kind = "restore" /\ op.pc = "start" =>
    /\ op.res = "refused" => live = op.old
    /\ op.res = "rolled_back" => Only(live, DOMAIN op.old) = op.old
    /\ op.res \in {"copied", "ok"} => Only(live, DOMAIN op.from) = op.from

\* A running service can read the secrets of its database, unless a restore was cut
\* off between wiping the volume and filling it again, or an archive of such a
\* volume was restored.
KeyFits == service = "up" /\ ~torn => live["db"].key = live["key"]

\* What an archive is at any time, and a running service with it: of one moment, and
\* holding the key of its own secrets.
BackupInv == BackupTypeOK /\ ArchiveIsOneMoment /\ KeyFits

\* The names in the backup directory are the moments of the backups, in the calendar
\* and in their order.
NamesTellTime == StampTellsTime /\ ListedByAge

\* A command that comes to its end, well or badly, leaves the service running, unless
\* docker refused to stop or start it or the tool was killed: then it stays down until
\* somebody starts it.
ServiceIsBack == op.pc = "idle" /\ service = "down" => stranded

\* However a command ends, at each of its failures and at a kill, what was wiped is kept;
\* what it reports is true, and the service is running again, when it comes to its end
\* and docker does not refuse.
CommandsEndWell == NothingLost /\ RestoreAnswers /\ ServiceIsBack

(***************************************************************************)
(* The inductive invariant.                                                *)
(***************************************************************************)

\* Every file of one volume is in the other, as it is.
Part(vol, of) == DOMAIN vol \subseteq DOMAIN of /\ \A f \in DOMAIN vol : vol[f] = of[f]

\* A database with the key that its secrets are sealed under.
Sound(vol) == {"db", "key"} \subseteq DOMAIN vol /\ vol["db"].key = vol["key"]

\* Where a command is: from its stop on the service is down, and until the switch
\* there is nothing to report.
OpInv ==
  /\ op = [kind |-> op.kind, pc |-> op.pc, at |-> op.at, from |-> op.from, part |-> op.part,
           old |-> op.old, res |-> op.res, torn |-> op.torn]
  /\ op.kind \in (IF op.pc = "idle" THEN {"none"} ELSE {"backup", "restore"})
  /\ op.pc \in {"unpack", "check", "clear", "copy", "rollback", "recheck", "cleanup"}
       => op.kind = "restore"
  /\ op.pc \notin {"idle", "stop"} => service = "down"
  /\ op.pc \in {"stop", "tar", "tar2", "unpack", "check", "clear", "copy", "rollback"}
       => op.res = "refused"
  /\ op.pc = "recheck" => op.res = "copied"
  /\ op.pc = "idle" => op.res = "none"

\* What the volumes hold at each step of a command.
ContentInv ==
  /\ op.pc \notin {"idle", "stop", "copy", "rollback"} /\ op.res = "refused" => live = op.old
  /\ op.pc = "copy" => live = Empty
  /\ op.pc = "tar2" => Part(op.part, Packed)
  /\ op.kind = "restore" /\ op.pc \in {"check", "tar", "tar2", "clear", "copy"}
       => \A vol \in staging : Part(op.from, vol)
  /\ op.res \in {"copied", "ok"} => Part(op.from, live)
  /\ op.res = "rolled_back" => Part(op.old, live)

\* An archive has the name of its moment, and of the moment of this command there is
\* none until it has made one: then it is the copy of what is about to be wiped.
ArchiveInv ==
  /\ \A a \in archives :
       a = [kind |-> a.kind, name |-> Stamp(a.at), at |-> a.at, data |-> a.data,
            whole |-> a.whole, torn |-> a.torn, moment |-> a.moment]
  /\ op.pc # "idle" => op.at = now
  /\ op.pc \in {"stop", "unpack", "check", "tar", "tar2"} => \A a \in archives : a.at < now
  /\ op.pc \in {"clear", "copy", "rollback"} =>
       /\ \E a \in archives : a.kind = "restore" /\ a.at = op.at
       /\ \A a \in archives : a.kind = "restore" /\ a.at = op.at => a.whole /\ a.data = op.old

\* Volumes that nothing has torn are sound, and so are their archives.
SoundInv ==
  /\ ~torn => Sound(IF op.pc \in {"copy", "rollback"} THEN op.old ELSE live)
  /\ \A a \in archives : a.whole /\ ~a.torn => Sound(a.data)
  /\ op.kind = "restore" /\ ~op.torn => Sound(op.from)

BackupIInv ==
  BackupInv /\ CommandsEndWell /\ OpInv /\ ContentInv /\ ArchiveInv /\ SoundInv
=============================================================================
