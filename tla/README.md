# A TLA+ model of warpdeck

warpdeck runs several Cloudflare WARP clients inside one container, keeps them
alive, and offers them to a network through one built-in SOCKS5/HTTP gateway. A
web interface edits *desired* state in SQLite; a reconciler brings the processes
there. This directory models the server (`crates/warpdeck-server/src`, paths
below are relative to it) and its backup tool (`crates/xtask`), checks the models
with TLC, and proves the inductive invariant and the safety properties of all
eleven specifications with TLAPS, the refinement of the abstract lifecycle among
them.

Contents: [inventory](#inventory), [plan](#plan), [modules](#modules),
[runs](#runs), [known disagreements](#known-disagreements), [proofs](#proofs),
[limits](#what-is-not-modelled).

## Inventory

| Component | State | Operations | Interacts with | Module |
|---|---|---|---|---|
| Instance manager (`runtime/manager.rs`, `crash.rs`, `stop.rs`, `registry.rs`) | `runs` table, generations, runtime registry | `start`, `stop`, `restart`, `delete`, `stop_all` | called by the reconciler and `main`; watchers and the health loop write its registry | `InstanceManager`, `Lifecycle` |
| Health (`runtime/health.rs`, `health_monitor.rs`) | two counters per entry | `assess_layers`, collect, apply | writes the registry without the `runs` lock | `Health`, `InstanceManager` |
| Start of an instance (`runtime/flow.rs`, `readiness.rs`, `mdm.rs`, `warp_cli.rs`, `probe/`, `db/credentials.rs`) | `reg.json`, `mdm.xml` on disk, warp-svc's own state | resolve, policy file, spawn, register, account, mode, port, connect, verify, probe | drives `warp-cli` and warp-svc inside `do_start` | `Registration` |
| Reconciler (`reconciler/mod.rs`) | the back-off columns | `reconcile_once`, `record_failure`, `sync_proxy` | reads rows, calls manager and gateway, writes flags back | `Reconciler`, `Gateway` |
| Desired state (`db/repo.rs`, `api/instances.rs`) | `warp_instances` | create, start, stop, restart, rebind, delete | users, at any time | `Reconciler`, `AccountProfiles` |
| Gateway supervision (`gateway/mod.rs`) | config slot, `last_applied`, `stopped`, a `Notify` | `apply_config`, `stop`, `status`, `supervise` | reconciler, `main` | `Gateway` |
| Proxy settings (`api/proxy.rs`, `db/uow.rs`) | `proxy_config`, a password | `PUT /proxy` | read by `sync_proxy` | `Gateway`, `GatewaySessions` |
| Gateway sessions (`gateway/socks5.rs`, `http.rs`, `limits.rs`, `pool.rs`, `net.rs`) | semaphore and token bucket per generation, round-robin counter | one task per connection | reads the registry's Healthy instances | `GatewaySessions` |
| Account profiles (`db/profiles.rs`, `api/accounts.rs`) | `account_profiles`, secrets, bindings | create, PATCH, delete, bind | read by starts | `AccountProfiles` |
| Single account, secrets, master key (`api/account.rs`, `db/account.rs`, `crypto/`) | `account_config`, `secrets`, `master.key` | GET and PUT, set, delete, load or create | settings, credentials | `AccountSecrets` |
| Authentication (`auth/`, `api/auth.rs`, `setup.rs`, `middleware.rs`) | users, sessions, login failures in memory | set-up, login, guard, logout | every API request | `AuthSessions` |
| Logs (`runtime/process.rs`, `log_tail.rs`, `logs.rs`, `api/logs.rs`, `events.rs`) | log files, a watcher's position, a broadcast ring | pump, poll, publish, page | web interface | `Logs`, `LogPages` |
| Boot and shutdown (`main.rs`, `shutdown.rs`) | a watch channel, task handles | ordered boot, ordered joins with time-outs | all tasks | `Server` |
| Backup tool (`xtask/src/tasks/backup.rs`) | archives, volumes | backup, restore, list | stops and starts the container | `Backup` |

What is hard here:

* **Interleaving at every await.** Only the caller of a lifecycle operation holds
  the `runs` lock. Watchers and the health loop write the registry between any
  two awaits of that call, from readings that are seconds old.
* **Handles that travel.** The process handle moves from the start to the watcher
  task and back to the stop. A step that fails midway may leave it nowhere, and
  so may a task that is aborted at shutdown.
* **Snapshots.** A round of the reconciler works for minutes from rows read at
  its beginning, and then writes to rows users have edited meanwhile.
* **Wake-ups without memory.** The gateway loop is woken with `notify_waiters`.
* **Decisions on earlier reads**: `PUT /proxy`, PATCH of a profile, `PUT
  /account`, the login limit, the touch of a session.
* **A child that acts later than it answers.** A `warp-cli` killed for its
  time-out may still have been obeyed.
* **A file others write.** The tail watcher has nothing but length, identity and
  one byte to tell growth from truncation and replacement.
* **Crashes between two steps**: while the master key is made, in the middle of
  a start, between wiping a volume and filling it again.

What makes each part correct:

* manager: no process is lost; a report of an old process never reaches a new
  one; what is shown as in service can be stopped, what is shown as stopped is
  dead; Healthy is earned by this very process;
* start: the policy and the licence are this start's, a retry costs nothing, and
  it ends;
* reconciler: no command is swallowed, no orphan forgotten, the back-off window
  honoured, and everything converges once users are quiet;
* gateway: what was saved is what is served, authentication does not fall away with a
  password, off means off; every permit comes back, and strangers cost nothing;
* accounts and secrets: one free profile, a binding never shares a licence, what
  is stored stays readable, an answer is true;
* authentication: failures are bounded, a session ends once, for a reason, and
  does end;
* logs: no line is lost or doubled while a file only grows, what else is shows in the
  numbers where they can, no secret gets out;
* boot and shutdown: layers come and go in order, nothing is left running, it
  ends unless clients hold it;
* backup: nothing wiped without a copy, no report that is not true.

`PROJECT.json` lists the hazards, each at the line where it bites, with the
properties that would catch it.

## Plan

Done, in this order: `Health` and `InstanceManager` with their proofs, `Gateway`,
`Reconciler`, `AccountProfiles`; then `Lifecycle` with the refinement,
`GatewaySessions`, `Registration`, `AccountSecrets`, `AuthSessions`, `Logs`,
`Backup` and `Server`.

Then the proofs: `InstanceManager` with the refinement of `Lifecycle`,
`AccountProfiles`, `Reconciler`, `Gateway`, `Server`, `Registration`,
`GatewaySessions` and `AccountSecrets`; at last `AuthSessions`, `Backup` and `Logs`,
for which the definitions of `Logs` were made declarative (the lines of a text are
given by the places of its line ends and not by a recursion that splits it), and
the history pages, whose reading is recursive, were moved to `LogPages`.

What is left is out of the provers' reach and stays with TLC: see
[only model-checked](#only-model-checked).

## Modules

### `Health`

`AssessLayers` is `assess_layers` (three layers, two counters, two thresholds) as
an operator. The counters are `u32` and saturate in the code; `CounterMax` is that
limit, small in the runs so that it is reached.

### `InstanceManager`

State: the registry entry (`state`, `warpPid`, `fails`, `succs`), the `runs` table
(`handle`, `task`), the generation `gen`, the processes that are alive (`svcLive`,
`dbusLive`), the crash watchers (`wpc`, `wgen`), the call that holds the lock
(`lock`, `kind`, `pc`) and the health check in progress (`hm`). `run` and `okRun`
are history variables: every `do_start` is numbered, so that a process, a pid and
a watcher can be named by the start that made them. The code's generation cannot
do that, for `stop` forgets it.

An action is what happens between two awaits. `start`, `restart` and `delete` are
`CallStart`, `CallRestartIdle`, `CallDoStop` and `CallStopIdle`, then the actions of
`do_start` (`Begin` .. `SetDegraded`) and `do_stop` (`Join`, `Kill`, `Rmdir`); all
failure exits are there. `retire` is the reconciler's treatment of an instance
whose row is gone: `stop`, then `registry.remove` only after an Ok. `stop_all` is
`stop` once for each id. `delete` is an operation of the manager that the present
API never calls; the model has it because the manager promises it.

The crash watcher polls, may find itself cancelled, reads the log, compares its
generation and reports: four actions, each of them a place where the lifecycle call
may overtake it. It may also panic over the log (`WatcherPanics`: a tail cut at a byte
inside a character), which the stop that joins it finds out (`JoinFails`). The health
loop is a read (`Collect`) and a write (`Apply`) with anything in between. A probe
that answers "up" needs a live process at that moment.

### `Reconciler`

State: the row of each id as the columns that decide (`run`, `auto`, `profile`,
`pending`, `cmd`, `obs`, and the back-off as a level `gap` with `due` for "the
clock has passed `next_retry_at`"), the registry as the reconciler sees it
(`reg`), the profile the running process was started with (`used`), whether its
watcher task was consumed by a failed stop (`taken`), and the round (`rpc`, `snap`,
`todo`, `cur`). `asked` holds the restart requests between their 409 check and
their write; `served` and `cleared` are history variables, the command count at
the last call of the runtime, and whether the write-back of a start has cleared the
mark of a rebind that came during it.

The runtime is reduced to its callers' view. Users act at any time, one action
per handler; new ids are one above the largest row, as SQLite gives them without
AUTOINCREMENT. No handler writes `auto_restart`: the value 0 is one that an
operator has put into the table. Profiles that are in use are read-only through
the API, so a rebind is the only edit that sets `restart_pending`.

### `Gateway`

State: the stored row and password, each request between validation and commit
(`put`), the reconciler's step (`rec`, `recRow`, `recAuth`, `applyErr`), the gateway's
shared state (`applied`, `config`, `stopped`, `active`, `lastErr`) and the supervised
loop (`gpc`, `cfg`, `httpUp`, `woken`). `NotifyWaiters` sets `woken` only if the loop
is waiting, which is what `notify_waiters` does (external, tokio). Sessions in flight
are tasks of their own and outlive a rebuild and a stop: the properties are about
listeners. A round of `sync_proxy` is three awaits, the row (`SyncRead`), the password
(`SyncSecret`) and `apply_config` (`SyncApply`; `SyncDecide` for a row without
authentication), with requests between them; `lapsed` is a history variable, whether
the row did without authentication at any moment of the round. `supervise` restarts
the loop after a panic; the loop as written has no path that panics, so that restart
is not modelled. Two concurrent requests can store authentication without a password
(each is validated against what the other is about to change); a run starts from such
a row too.

### `AccountProfiles`

State: for each profile its mode, whether it has an organisation and which
secrets are there; for each instance the profile it is bound to; and the PATCH
requests in progress. POST, DELETE and the bindings are one transaction each, and
one action. A PATCH is four: the row is read, the bindings are counted, the
secrets are compared with what the mode needs, and a transaction writes. The
transaction looks for another free profile, and does not look at the bindings
again. Ids are given out again, as in `Reconciler`, so that a PATCH may reach a
profile that is not the one it read. Foreign keys are enforced: a profile in use
cannot be deleted, and its secrets go with it.

### `Lifecycle`

What the manager promises to whoever looks at an instance: the state shown,
whether a process is alive, and whether the present process was ever seen up. It
has no lock, watcher, generation or snapshot. `InstanceManager` implements it
(`ImplementsLifecycle`) under the mapping `alive = (svcLive # {})` and
`seen = (okRun = run)`: a start only begins where no process is left, a failed one
leaves none, a verdict only moves what is in service, a crash is only shown of a
process that is gone. TLC checks it in the run `lifecycle`, and
`ManagerImplementsLifecycle` proves it.

### `Registration`

One start from its credentials to a verified data plane, over and over, with
rebinds, crashes of the manager and stops between. `bound` is the profile; `reg`
and `mdm` are the two files that outlive a process; `daemon` is warp-svc; `run` is
the start, phase by phase, with the attempts it has used (`n`). Every `warp-cli`
command has three outcomes (`Outcomes`): answered, refused, or killed for its
time-out, which the daemon may have obeyed. A `registration new` of the last kind may
be carried out at any later time (`LandsLate`); `run.sent` counts those and remembers
whether the start registers blind, the look for `reg.json` having failed (`Ensure`).
The daemon enrols by policy, loses its link and crashes by itself.
Among the profiles are one that lacks its secret and one whose secret does not
decrypt. `InstanceManager` sees of all this only whether it worked.

### `GatewaySessions`

One record per connection (`conn`), walked through allow list, authentication, limits,
target, pool, dial and relay, in the order of the two protocol handlers, with every
early return. A hot rebuild (`Apply`) appends to `gens`; permits and buckets are per
generation, and a session keeps its own. A session reads the clock (`ReadClock`)
before it takes the bucket's lock (`Acquire`), as the code does. Addresses are numbers
of `Width` bits: `ParseCidr` and `NetContains` are the code's arithmetic, and
`Blocks`, which the property uses, a definition by the set of addresses. The shift by
128 is what a release build makes of it (`Cargo.toml` has no overflow checks there).
`ToRow` and `FromRow` are what the `proxy_config` row keeps of a configuration. Time
is in ticks and tokens in fractions of one, so that the refill is exact; `back` of a
bucket is a history variable, how far its mark was turned back in all. The pool lists
its instances by id, so that `PickAmong(n, S)` is the member of S that has n modulo
the size of S smaller ones.

### `AccountSecrets`

A boot that loads or makes the key (create the temporary file, write, rename),
with a crash after each step, and `PUT /account` as the reads, the check and the
four separate writes it consists of. A ciphertext is its plaintext and the key it
was made with; decrypting under another key is an error.

### `AuthSessions`

A set-up is a hash and a commit; a login is the limiter's check, the verification,
the record of the outcome, a clean-up of expired sessions and the creation of one;
a guarded request reads its session, checks the token and touches it. Time is
kept as what is left of a session and as the age of a window, so that the state
space is finite although the clock does not stop. Expiry is compared as text in
whole seconds by the clean-up and as an instant by the guard, which is what
`TextExpired` and `Live` are. The limiter does not survive a restart. A logout
answers although its delete may have failed.

### `Logs`

Files are sequences of units: an end of line, or a piece of line n, negative where the
redactor replaced it. Two pumps per start of the daemon write text and line end
separately; a start truncates, an operator removes. The watcher (`w`) opens, polls,
checks, rewinds and reads; `epoch` is a history of what it has published since it last
began, whether the file was truncated under it since (`dirty`) and whether a buffer
that grew too long was cut (`cut`). `Complete(s)` are the lines of a text that are
ended and not blank, the k-th of them by the k-th place where one ends (`Kth`), and
`Rest(s)` what follows the last line end: what the loop of the watcher makes of its
buffer, said without the loop.

### `LogPages`

The history API over the files of `Logs`: `ReadTail` reads backwards in chunks, and
`History` clamps what was asked. It has no state of its own. It is a module for
itself because `ReadBack` is recursive, and what the proofs are about must not be.

### `Server`

`main` from the first step of the boot to the closing of the database, with the
reconciler's round, the health loop, the lock and the processes cut down to what a
shutdown can meet. A request is with its client until its body is read (`Received`),
with its handler until that answers (`Respond`), and with the client again for an
answer that is more than the connection takes at once (`Leave`). An abort takes effect
at the task's next await, some time after `main` has gone on; `left` collects what was
given up.

### `Backup`

`backup`, `restore` and `backups` step by step. A volume is a function from its
files to contents: the database knows which key its secrets are under; the
write-ahead log is a number of writes. Every container may fail half-way,
and the tool may be killed between any two. `Stamp` is the calendar arithmetic of
the code, checked against a calendar counted year by year, at each of the constant
`Moments`. `torn` is a history: the
volume was left half done by a restore, or came from an archive made of such a
volume. An archive remembers it too, and so does the restore that reads it.

### MC modules

The MC modules give the constants their small sets; `MCLogs` extends `LogPages`.
Symmetry is used where two clients are interchangeable and no liveness is
checked, in `accounts` and `account_secrets`.

Invariants are conjunctions of named parts: `Inv` of a module is its type invariant
with those of its state invariants that belong together, and the parts carry
their own comments. In `AuthSessions`, `Backup` and `Logs` the general names have a
prefix (`AuthInv`, `BackupSpec`, `LogsNext`, ...), so that a module of proofs may extend
one of them beside another component.

Definitions that begin with "Variant" in their comment are plausible mistakes.
No specification uses them; the entry under `mutants` in `PROJECT.json` says which
property each of them breaks.

## Runs

| Run | Bounds | Checks | States |
|---|---|---|---|
| `lifecycle` | one instance, three starts, thresholds 3 and 2, counters to 4 | `Inv` (`InServiceIsManaged`, `StoppedIsDead`, `PidIsCurrent`), `ProcessesOwned`, `WatchersCurrent`, `HealthyIsVerified`, `ImplementsLifecycle`, `CallsReturn`, `DeadIsNoticed` | 107 125 |
| `gateway` | one client, three rows, one password, shutdown at any time | `Inv` (`StatusTruthful`), `AuthHolds`, `ConfigConverges`, `ListenersClose` (`OffConverges`, `ShutdownDrains`) | 447 952 |
| `reconciler` | one id, two profiles, five edits, two back-off levels, stops may fail | `Inv` (`EntryForEveryProcess`), `CommandsServed`, `BackoffHonoured`, `Converges` | 1 163 727 |
| `accounts` | two profiles, two instances, two PATCH requests, six bodies | `Inv` (`OneFreeProfile`, `NothingDangles`), `BindingNeverShares` | 42 893 |
| `gateway_sessions` | two connections of four kinds of client, two generations of two configurations, addresses of 2 and 3 bits, 2 ticks | `Inv` (`PermitsConserved`), `RateBounded`, `StrangersCostNothing`, `WaitsEnd` | 688 444 |
| `registration` | seven profiles, three starts, one or two attempts of each kind | `Inv` (`PolicyIsOfThisStart`, `SecretRemoved`), `LicenceCurrent`, `LicenceNotLost`, `StartEnds` | 49 728 |
| `account_secrets` | two clients, six bodies, three requests, two random keys, a key from the environment or not | `Inv` (`SecretsReadable`, `ReadsLastSet`), `AnswerTruthful` | 23 932 |
| `auth` | two logins, two requests, one address, one session, limit 2, window 2 and term 3 half seconds | `AuthInv` (`FailuresBounded`), `SessionsEndOnce` (`GoneStaysGone`, `LiveSessionsKept`), `TermsEnd` (`SessionsEnd`, `LockEnds`) | 354 160 |
| `logs` | three lines, one of them blank or secret, two starts, a ring of one, chunks of six units | `LogsInv` (`FollowsFile`, `NothingLeaks`), `PageIsTail`, `GapsShow` (`RestartsForAReason`, `SeqTells`, `NumberIsPlace`), `CatchesUp` | 304 801 |
| `backup` | three commands in the three seconds around the turn of 2023 to 2024, one write of the service, two faults; the calendar on every day from 1 January 1970 to 18 January 2038 | `BackupInv` (`ArchiveIsOneMoment`, `KeyFits`), `NamesTellTime` (`StampTellsTime`, `ListedByAge`), `CommandsEndWell` (`NothingLost`, `RestoreAnswers`, `ServiceIsBack`) | 691 258 |
| `server` | two instances, one request, one stream | `Inv` (`DependenciesUp`, `NothingLeftRunning`, `TornDownInOrder`), `NoStartBehindStopAll`, `ShutdownEnds` (`TeardownEnds`, `OnlyClientsHold`) | 32 835 |
| `lost_wakeup` | as `gateway` | violates `AppliedTakesEffect`: settings applied while the loop binds are stored and never served | |

Why the bounds are enough. Three starts give an old, a present and a next process,
which is what a stale watcher, snapshot or registration needs; the thresholds are the
code's own, and `CounterMax` is above both so that saturation happens. One instance is
enough for the lifecycle because the proofs below hold for any set of them. Five edits
are a creation, commands or a rebind around a round, a stop and a deletion;
`MaxBirths` is 1. `CommandsServed` speaks of ids that were given to one row only, for
with a reused one it would compare the commands of two rows (that a new row may get
the acknowledgement meant for the old one is listed below, and under the hazards). Two
profiles are, for the reconciler, the one an instance was started with and the one it
is bound to by now; for the accounts, the built-in one and one that is created,
deleted and created again. Two connections compete for the one permit and the one
token of the strict configuration while a second generation is served, and the allow
list has a network of each family, an IPv4 one with host bits, an IPv6 one of prefix 0
with host bits, a prefix that is too long, a bare address and a blank entry. With two
ticks, to the second, a session can read the clock, be overtaken, and turn the mark of
the bucket back. Three commands are a backup, a restore of it and another one, two
faults a failure and a failing repair. They run at 23:59:58, 23:59:59 and midnight at
the end of December, so that names are compared across the turn of a year; the
calendar itself is compared at the first and the last second of every day up to the
last one that TLC's 32-bit integers hold, leap and common Februaries, Decembers, the
29 February 2000 and the century term of the year 2000 among them. 2100 is beyond
those integers; that names are in the order of time there too is proved. Two instances
at shutdown are one that a round works on and one that `stop_all` does; one request
goes through its three phases beside one stream.

`CHECK_DEADLOCK FALSE` stands where everything may come to its end: sessions that
are used once, starts and commands that are counted, a server that has exited.

Fairness, and why the code justifies it:

* `InstanceManager`: every await in `do_start` and `do_stop` is bounded by
  attempts, time-outs or SIGKILL, a watcher polls on an interval, and the health
  loop visits every entry in each of its rounds. The last is strong fairness
  because an entry may leave and re-enter service between two visits.
* `Reconciler`: rounds come at least every five seconds and runtime calls are
  bounded; time passes. The strong fairness is on the environment: a start, and
  each of two write-backs, tried for ever, works now and then. Without it nothing
  can be promised: a start that never works never converges.
* `Gateway`: the same for rounds; the loop always has a timer or a wake-up to go
  on with; a request that was validated commits; a password that is there is not
  unreadable for ever. A reconciler with the shutdown set takes that branch of
  its unbiased `select!` sooner or later, and `main` aborts it after ten seconds.
  No fairness is assumed of crashes, listener exits, bind failures or shutdown.
* `GatewaySessions`: a session's own steps and its time-outs, never its client or
  its upstream.
* `Registration`: the flow, for each of its waits is bounded; nothing of warp-svc.
* `AuthSessions`: the clock. `Logs`: the polling watcher and a client that reads.
* `Server`: `main`'s tear-down, a handler that has its request (each is a few
  statements on the database), and that an aborted task is dropped; nothing of a round,
  a probe or a stop, and nothing of a client: none has to send the rest of its request,
  to read its answer or to leave its stream.

`Converges` excludes two states: an instance whose failed stop has consumed its
watcher task cannot be stopped any more, and no round can help it; and an instance that
was rebound while it was being started may run with its old profile, for the write-back
of that start has cleared the mark (`cleared`).

## Known disagreements

What comments and documents say and the code does not do. The first is kept as a
run; of the others the model has the behaviour, and the passing properties are
stated so that they do not claim it away.

* `gateway/mod.rs:83`: the wake-up for new settings is lost while the loop binds
  (line 3: "apply triggers a hot rebuild"). Run `lost_wakeup`.
* `runtime/manager.rs:489`: a stop that failed once cannot be retried, for the
  watcher task is gone (line 823 says the handles are kept for a retry).
* `runtime/manager.rs:657`: a verdict computed from the process before writes its
  failure count into the new one (`health.rs:5`: consecutive failures).
* `runtime/service.rs:163`: a log tail is cut at a byte that may be inside a
  character, which panics in the watcher's task. `manager.rs:496` takes its Err branch
  for one "only at the abort of a shutdown"; with a daemon that logs more than ASCII it
  is met in service. The crash is then noticed by the health loop only, and the
  instance can never be stopped: its handle went with the task, and the next stop finds
  the task already consumed.
* `runtime/dbus.rs:78`: a dbus-daemon whose socket is late is left running
  (`manager.rs:282`: no orphan process).
* `gateway/mod.rs:420`: after both protocols were switched off the gateway never
  comes back (line 421: the same settings must start it again).
* `gateway/mod.rs:393`: `status` never says Degraded. It says Running although the
  http listener could not be bound (290), although the pool is empty, and while both
  listeners are down between two attempts; `reconciler/mod.rs:41` defines Running as
  all enabled listeners ready and an upstream, 47 Degraded as the rest.
  `StatusTruthful` states what is left: nothing open is shown as stopped or failed.
* `reconciler/mod.rs:552`: a PUT that asks for authentication again commits between the
  read of the row (485) and `apply_config`; the round applies the row it has read, and
  until the next one the gateway serves without a password although the row asks for
  it. At boot `main.rs:164` applies the stored row without its password, also where it
  asks for one. Lines 480 to 483 say neither happens: never anonymous, and nothing
  exposed before the first application. `AuthHolds` excepts the rounds of a row that
  did without, and speaks of authentication once it is in force.
* `db/repo.rs:302`: a rebind during a start is cleared by its write-back
  (line 113: any change of the binding sets `restart_pending`).
* `db/repo.rs:347`: a new row may get the acknowledgement meant for the deleted one
  with its id (line 59).
* `api/accounts.rs:156`: a PATCH to `warp_plus` may commit after two instances were
  bound to the profile (`DESIGN_AND_DEVELOPMENT.md:1496`).
* `gateway/pool.rs:27`: each connection has its own copy of the round-robin counter
  (line 47).
* `net.rs:3` says that invalid CIDR entries fail before they enter the
  configuration; `PUT /proxy` does not parse them, and they are skipped when a
  client is matched. Blank entries vanish in the row (`db/repo.rs:547`), and a
  list of blanks reads back as no list.
* `net.rs:127`: `>> host_bits << host_bits` is, for the prefix 0, a shift of 128 bits by
  128. A debug build panics; a release build, which has no overflow checks, shifts by
  nothing, so that an entry such as `2001:db8::1/0` passes and admits all of IPv6.
  Line 125 says IPv6 is as strict as IPv4.
* `gateway/limits.rs:90` evaluates `Instant::now()` before `try_take` takes its lock, and
  line 52 stores it even where it is older than the mark: the mark goes back, and the
  stretch is refilled a second time (line 30: refill by the time that has passed).
  `RateBounded` has those stretches as a term of its own (`twice`).
* `gateway/http.rs:139` dials without a time-out, and line 259 reads sixteen of the
  eighteen bytes behind an IPv6 address; `gateway/socks5.rs:284` discards six bytes of a
  reply whatever its address (line 249 of `http.rs` says what a wrong count does to a
  tunnel), and line 175 waits for CONNECT with a permit in hand and without a time-out.
* `runtime/flow.rs:169`: a free start after a Zero Trust one keeps the team's
  registration (`manager.rs:248` says old registrations are cleaned up).
* `runtime/flow.rs:176`: `try_exists(..).unwrap_or(false)` takes an I/O error for a file
  that is not there, and registers over a registration that may carry a licence (line
  169: with a reg.json the registration is skipped). And an attempt to register whose
  `warp-cli` was killed for its time-out may be carried out behind the retry and the
  licence, which are then lost until the next start.
* `runtime/manager.rs:370`: an instance that was Degraded at the end of its start
  and recovers keeps its `mdm.xml`.
* `runtime/warp_cli.rs:117`: "not connected" contains "connected". `VerifyConnected`
  therefore asks nothing of the link.
* `crypto/master_key.rs:57`: a `master.key.tmp` left by a crash makes every later
  boot fail.
* `api/auth.rs:164`: a logout whose delete has failed is answered 204, with the session
  still live.
* `api/account.rs:137`: an empty organisation does not clear the stored one.
* `runtime/log_tail.rs:130`: a file that grows between the two looks of the rescue
  check is taken for another one, and its lines are shown again. And a file that was
  truncated and rewritten between two polls, is no shorter and has the same byte at the
  end of what was read (mostly a line end) is not seen to be another: its first lines are
  never published (line 5 says it is read from the start, 154 that the byte necessarily
  differs).
* `runtime/log_tail.rs:184`: a buffer that has grown too long is cut at its last line end,
  and the complete lines in it are dropped without a gap in the numbers (the comment
  speaks of one line without an end).
* `api/events.rs:160`: a client that lagged is not told, so that the numbers are all it
  has; where the watcher begins again during the lag, the next number may well be the one
  that was due. `GapsShow` states what the numbers do show.
* `runtime/logs.rs:234`: where a page needs several chunks, the rest of a line cut
  at a border is dropped. Line 222 and `api/logs.rs` add to an offset that may be
  the largest number.
* `main.rs:237`: a client holds the shutdown up until it goes or docker kills the
  process, be it with an open event stream, with half a head or body, or with an answer
  it does not read: neither the router (`app.rs:43`, `api/mod.rs:144`) nor `axum::serve`
  has a time-out.
* `xtask/src/tasks/backup.rs:331` says a half-restored volume is never started; after
  a wipe, a roll-back or a second check that fails it is. The roll-back unpacks over
  what is there (353), and two backups within a second have one name (184). A staging
  volume that could not be removed is used again, and a restore that ends with ok may
  then carry files of another archive. An archive made of a volume that a killed
  restore left half done looks like any other, and a restore of it may bring a
  database back under another key than the one it was sealed with: each of the two
  files is checked by itself (275 to 310), and not that they belong together.

## Proofs

Each of the eight `...Proofs` modules proves its theorems for every value of the
constants that the assumptions of the module allow: any set of instances,
connections, clients or profiles, and any bounds. Three of them prove about two
components that share nothing but lemmas. The layout is the same everywhere. A
component states an inductive invariant `IInv` as a conjunction of named parts,
and TLC has checked it on the component's run. One lemma per action or group of
actions shows that it is preserved, with a step for each part that the action
can disturb; the `...Invariance` theorem puts them together. The properties of
the runs are then read off `IInv`, and an action property is proved from `IInv`
and one more look at the steps it is about.

| Module | Theorems (the run's property) |
|---|---|
| `InstanceManagerProofs` | `Invariance`, `RegistryTrusted` (`Inv`), `NoProcessIsLost` (`ProcessesOwned`), `NoStaleWatcher` (`WatchersCurrent`), `HealthyMeansVerified` (`HealthyIsVerified`), `OnlyStartEntersService`, `RefinementInvariance`, `ManagerImplementsLifecycle` (`ImplementsLifecycle`), and the parts of `Inv` one by one |
| `ReconcilerProofs` | `ReconcilerInvariance`, `NoProcessForgotten` (`Inv`), `NoCommandSwallowed` (`CommandsServed`), `BackoffIsHonoured` (`BackoffHonoured`) |
| `GatewayProofs` | `GatewayInvariance`, `StatusIsTruthful` (`Inv`), `AuthStaysInForce` (`AuthHolds`) |
| `StreamsProofs` | of `GatewaySessions`: `SessionsInvariance`, `PermitsAddUp` (`Inv`), `RateIsKept` (`RateBounded`), `StrangersAreStopped` (`StrangersCostNothing`); of `Logs`: `LogsInvariance`, `LogIsFollowed` (`LogsInv`), `GapsAreShown` (`GapsShow`) |
| `RegistrationProofs` | `RegistrationInvariance`, `PolicyAndSecret` (`Inv`), `LicenceIsCurrent` (`LicenceCurrent`), `LicenceIsKept` (`LicenceNotLost`) |
| `AccessProofs` | of `AccountProfiles`: `ProfilesInvariance`, `ProfilesConsistent` (`Inv`), `BindingsNeverShare` (`BindingNeverShares`); of `AuthSessions`: `AuthInvariance`, `FailuresAreBounded` (`AuthInv`), `SessionsEndForGood` (`SessionsEndOnce`) |
| `SecretsProofs` | of `AccountSecrets`: `SecretsInvariance`, `SecretsSurvive` (`Inv`), `AnswersAreTruthful` (`AnswerTruthful`); of `Backup`: `NamesInOrder`, `BackupInvariance`, `ArchivesAreWhole` (`BackupInv`), `NothingIsLost` (`CommandsEndWell`) |
| `ServerProofs` | `ServerInvariance`, `NothingIsLeftRunning` (`Inv`), `NothingStartsBehindStopAll` (`NoStartBehindStopAll`) |

### The lifecycle and its refinement

    IInv == TypeOK /\ CallInv /\ HandleInv
            /\ ProcessesOwned /\ WatchersCurrent /\ InServiceIsManaged
            /\ StoppedIsDead /\ PidIsCurrent /\ HealthyIsVerified

None of the six properties is inductive alone: a watcher is current because the
process it was made for is (`ProcessesOwned`), an instance in service is managed
because only a start that still holds the lock writes Healthy or Degraded, and
only the health loop moves an entry between the two. That argument needs to know
what the call in progress may rely on at each await. `CallInv` says it: a start
works on an instance that is not in the table, whose entry is Starting or, if its
watcher has spoken, Failed, and never in service; a stop has its handle and no
task. `HandleInv` says that a handle in the table is of the latest run.

Since a watcher can panic, two facts about watchers go with the invariant through the
induction: one that has seen its process exit, or has panicked over it, speaks of a
process that is gone (`SeenIsGone`), and one that has panicked belongs to a run that has
begun (`PanickedHasRun`). A stop whose join fails loses the handle, and no process is
lost by it only because that process is dead.

The refinement needs one fact more, in `RInv`: no run was seen up before it began.
`StepSimulation` then shows of every action under the mapping that it is a step of
`Lifecycle` or changes nothing there; most are the latter. The temporal step is
the safety part only: `Lifecycle` states no fairness.

Assumptions: `NoId` is no instance, the thresholds are at least one and the
counters can reach them (`assess_layers` asserts it). `MaxRuns` bounds the
numbering only.

### The reconciler

    IInv == Inv /\ TodoInv /\ SnapshotInv /\ GenerationInv /\ ServedInv
            /\ CommandsServed

The difficulty is the age of the snapshot. `SnapshotInv`: until the round has
decided on a row, the back-off and the acknowledged generation are still as the
snapshot has them, for only the reconciler writes those, unless the row is a new
one and has no back-off; users only add commands. `BackoffIsHonoured` follows,
although the decision is taken from the snapshot: a failed instance is started
without a command only when the window has passed. `TodoInv` keeps the orphans and
the rows of a round apart. `GenerationInv` and `ServedInv` carry a command from the
snapshot to its acknowledgement: what a round will acknowledge was given before it
called the runtime.

### The gateway

`IInv == TypeOK /\ PutInv /\ ActiveInv /\ RoundInv /\ StopInv`. The status is truthful
because `active` is cleared only behind `stopped`, set only by a bind and gone with the
loop (`ActiveInv`); `stop` raises its flag before it does anything else (`StopInv`).
`RoundInv` is about what a round has read and not yet used: a row without authentication
only if the row was without it then, and a password wherever it is about to apply one.
`AuthStaysInForce` follows, for any PUT and any loss of the password between the reads
of a round.

### Gateway sessions

    IInv == Inv /\ RateBounded /\ GensInv /\ SessionInv /\ BucketInv

* *Permits.* A session holds a permit only behind `acquire` and only of a
  generation that has a semaphore (`SessionInv`). Each step either leaves the set of
  holders of a generation alone or changes it by the one session it is about, and
  the cardinality with it.
* *Rate.* `RateBounded` speaks of pairs of admissions and is not inductive. `BucketInv`
  ties each taking to the bucket: the tokens left and those taken since then are
  no more than a full bucket and the refill of the time between. Time is counted as the
  bucket sees it (`Credit`): the place of its mark and how far it was turned back, a sum
  that only grows, although the mark does not. `RefillMeters` and
  `TakeMeters` are the arithmetic of the two halves of the bucket's `try_take`.
* *Allow list.* `GuardInv`, over the same steps, says that whoever is past the accept
  was admitted by the list of its generation. `AdmittedIsInBlock` shows for addresses
  of any width that the code's masks (`ParseCidr`, `NetContains`) accept only members
  of the block: an aligned network and an address with the same quotient, or any
  address of IPv6 where the prefix is 0.
* *Pool.* `PickIsAmong`: the round robin always finds an instance of a pool that is
  not empty. It rests on `IndexExists`, that every index below the size of a finite
  set of numbers is that of a member; the provers cannot instantiate an induction
  principle, so the proof goes by a least counterexample (`LeastNatural`, from the
  well-foundedness of the naturals).

Assumptions: finitely many connections and instances, limits that are absent or
positive (`UpdateProxyRequest::validate`), typed addresses and list entries.
`WidthAssumption` states of powers of two what the provers do not know, that those
of the widths are positive numbers and that the zeroth is 1; it is true of every
`Width` of naturals, and TLC evaluates it on the run's.

### Registration

    IInv == Inv /\ LicenceCurrent /\ RunInv /\ CredsInv /\ FileInv /\ RegInv

What a start has resolved is complete and readable (`CredsInv`), the policy file is
this start's from `sync_mdm_xml` to `remove_after_enroll` (`FileInv`), and `registration
new` is only ever sent over a bare registration or none, unless the look for `reg.json`
failed (`RegInv`), which is why a retry after an answer that was not heard cannot lose a
licence: only a blind start does, or an attempt that lands late, and `LicenceIsKept` says
that nothing else is left. `RunInv` says which
phases belong to which kind of start. Assumptions: at least one attempt of each
kind; a profile has at most one licence and one token.

### Account profiles

`IInv == Inv /\ PatchesOthers`: a PATCH in progress is never about the built-in
profile, which was free when the request read it. All the rest is in the
transactions, whatever the requests have read. `BindingsNeverShare` is proved of
bindings; that a change of the mode can share a licence is the known disagreement
at `api/accounts.rs:156`.

### Secrets and the single account

    IInv == TypeOK /\ KeyInv /\ RowsInv /\ RequestInv /\ AloneInv

A deployment has one key, its own or its file's. `KeyInv`: a key is made only where
there is none, it is whole before it gets its name, and no server is up with
another; the crash between any two steps of the boot keeps that. `RowsInv`: at most
one row of a kind, under that key, with the value last set. `AloneInv` is what makes
an answer true: as long as no other request was there, what is written of it is in
the database, and the rest is still to come. Assumptions: bodies of the code's
shape, an environment with one key or none.

### Boot and shutdown

`IInv == Inv /\ PhaseInv /\ HandInv /\ TableInv`. Every daemon is known to somebody:
the table, the task that works on it, `stop_all`, or those given up; and whatever is
known has a generation, so that `stop_all`, which goes through the generations,
misses none (`TableInv`). An attempt at the proof without one of its parts failed,
and TLC confirmed that it is needed: a start that has not spawned yet may only find
a daemon of its instance that was given up. `HandInv` ties a task's work to the lock,
and `PhaseInv` says what `main` has wired at each of its steps.

### Authentication

`AuthIInv == AuthTypeOK /\ FailuresReserved`. That a window counts fewer failures than
the limit and the logins together (`FailuresBounded`) is not inductive: a login that
has passed the limiter records its failure whatever happened since.
`FailuresReserved` counts those that have passed (`Passed`) with the failures they may
still cause: a check adds one to the first only while the count is below the limit,
a failure moves one from the first to the second, and every other end of a login
gives its place back. Each lemma says what its step does to the finite set
`Passed(ip)` and to its cardinality (`FewerPassed`). `SessionsEndForGood` looks at the
steps that write a session: a touch writes only a row that is there, and a clean-up
deletes only what is over. That is where the comparison of whole seconds as text
meets the clock of half seconds (`TextOrder`): a session with more than half a second
left is never deleted. Assumptions: limit, window and term are positive, there is an
address and a session id, and the logins in flight are finitely many.

### Logs

    LogsIInv == LogsInv /\ PlaceInv /\ NumberInv

* *Lines.* `FollowsFile` compares what was published, batch by batch, with the lines
  of all that was read. The step is a fact about texts, `ReadOn`: if r is the rest of
  s, then the lines of s followed by t are the lines of s and then the lines of r
  followed by t, and the rest is that of r followed by t. A batch may end anywhere,
  in a line, before or after its end. The proof follows the line ends: those of the
  longer text are the old ones and the new ones moved up (`ContinuedNls`), so the
  k-th of them is that of one part or the other (`KthOfBoth`), and the line before it
  is the same piece of text (`ContinuedBefore`, `ContinuedLines`). `Kth` exists and is
  unique by the argument by least counterexample that the pick of an upstream uses
  (`IndexExists`); `KeptIs` says that a buffer within its bound is left whole.
* *Place.* `PlaceInv`: while the file only grows, the watcher is not behind its end,
  the length it has read is one the file had, and its last byte is still the one that
  is there. So a file that is appended to is never taken for one that was truncated
  or rewritten, which is `RestartsForAReason`.
* *Numbers.* `NumberInv`: on the ring each number follows the one before it or is 1; the
  first follows the last the client got, unless it lagged; the watcher goes on after
  the last. `PublishPreserves` shows it of a ring that overflows while it is filled.

Assumptions: buffers, batches and ring are positive, a batch fits into the buffer,
lines have lengths.

### Backup

    BackupIInv == BackupInv /\ CommandsEndWell /\ OpInv /\ ContentInv
                  /\ ArchiveInv /\ SoundInv

`OpInv` says where a command is and what it may report, `ContentInv` what the volumes
hold there: from the stop on nobody else writes, a volume that is being read is still
that of the stop, what is staged has all of the archive. `ArchiveInv`: once a restore
is past its copy, the archive of this very moment is whole and is what the volume
was; that is why a wipe loses nothing. It needs that no other archive takes its name,
and so `NamesInOrder`: for any two seconds the name of the later one sorts behind.
Its arithmetic is about all of time and not a run's few dates: within four centuries
the year is the one whose first day is not after the day and whose last is not before
it (`YearInCentury`, `YearOfDay`), and months and days follow (`LaterDay`).

`SoundInv` carries the key of an archive's secrets. It was not inductive at first: with
a fourth command, an archive made of a volume that a killed restore had left
half done can be restored, and the database that comes back need not fit the key
beside it. The history variable `torn` therefore goes into an archive and out of it,
and `KeyFits` excludes what came of such a volume (see the known disagreements).

Assumptions: times are natural numbers, and two commands are at least a second
apart; the bounds are natural numbers.

### Only model-checked

* Liveness: `CallsReturn`, `DeadIsNoticed`, `Converges`, `ConfigConverges`,
  `ListenersClose`, `WaitsEnd`, `StartEnds`, `TermsEnd`, `CatchesUp`, `ShutdownEnds`. The
  prover has no rule for fairness.
* `PageIsTail`: `ReadBack` goes back chunk by chunk, and what a recursion computes for
  every file would need an induction the provers cannot instantiate.
* `NamesTellTime`: `StampTellsTime` compares with a calendar that adds up years and
  months with a fold, and `ListedByAge` looks at a sequence chosen by its sorting. That
  names are in the order of time is proved (`NamesInOrder`); that they are the right
  dates, and that the list is sorted by them, is checked.

## What is not modelled

* Encryption and password hashing: callers see a secret that is there, absent or
  unreadable, and a password that is right or wrong.
* HTTP framing, the choice of probe targets, latencies; the text of warp-cli's
  answers beyond what `parse_status` and `parse_trace` make of it.
* Clients that stop reading half-way through a gateway session's head are those of
  `HttpReadMore` and `HeadTimeout`; the bytes of the SOCKS5 and HTTP exchanges, the
  upstream's reply among them, are left out.
* A log file that is truncated while a page of it is read: `ReadTail` reads it in one
  step, and the retry and the empty page of `runtime/logs.rs:188` to 201 are left out.
* The redactor's patterns: a text is one it knows or one it does not.
* Health events: a round may begin at any time, whether or not one announced it.
* Schema migrations (a step of the boot that may fail), configuration, routing,
  error bodies, the log formatter: sequential code without shared state.
* `runtime/fake.rs`, the fault injection hook of the gateway and the end-to-end
  driver of `xtask` are test code. The web client holds no state of the service.
* Within the modelled parts: exit addresses, error texts and events (no decision
  depends on them); names; delays of back-offs, whose attempts are counted.
  `Reconciler` binds without the WARP+ check, which is in `AccountProfiles`.
* The arithmetic on 64-bit offsets of log pages.
