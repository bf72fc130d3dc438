------------------------------- MODULE Server -------------------------------
(***************************************************************************)
(* The process: the order in which main.rs brings its parts up, and the    *)
(* tree in which it takes them down again while they are at work.          *)
(*                                                                         *)
(* The reconciler's rounds and the health loop are those of Reconciler and *)
(* InstanceManager, cut down to what a shutdown can meet: where a task is  *)
(* between two awaits, the lock of InstanceManager, the table of running   *)
(* instances and the processes themselves.  An abort takes effect at the   *)
(* next await of the task, some time after main has gone on.               *)
(***************************************************************************)
EXTENDS Naturals, FiniteSets

CONSTANTS Instances,
          MaxRequests,   \* bound: requests at a time
          MaxStreams     \* bound: event streams at a time

ASSUME BoundsAssumption == MaxRequests \in Nat /\ MaxStreams \in Nat

VARIABLES pc,        \* where main is
          db,        \* the connection pool: "none", "open" or "closed"
          gateway,   \* "off", "up" or "stopped"
          health,    \* the health loop: [at, abort]
          rec,       \* the reconciler: [at, on, abort], on what it works
          lock,      \* InstanceManager.runs: "free", "rec" or "main"
          runs,      \* instances with an entry in that table
          gens,      \* instances with a generation in current_run
          live,      \* instances whose warp-svc runs
          todo,      \* stop_all: instances still to stop
          on,        \* stop_all: the one it is stopping, {} or {i}
          requests,  \* requests in progress: how many at each phase
          streams,   \* event streams open
          left       \* history: processes that were given up

tasks == <<health, rec>>
table == <<lock, runs, gens, live>>
clients == <<requests, streams>>
vars == <<pc, db, gateway, tasks, table, todo, on, clients, left>>

Booting == {"db", "key", "health", "gateway", "reconciler", "bind"}
Layers == <<"join_health", "join_rec", "stop_gateway", "stop_all", "tail", "close", "exit">>
From(layer) == {Layers[k] : k \in {n \in 1..7 : \E j \in 1..n : Layers[j] = layer}}
\* A request is with its client until its body is read, then with its handler, then
\* with the client again if the answer is more than the connection takes at once.
Phases == {"sending", "handled", "reading"}
NoRequests == [p \in Phases |-> 0]
Open == requests["sending"] + requests["handled"] + requests["reading"]
Busy == Open + streams > 0
Signalled == pc \in {"drain"} \cup From("join_health")

Init ==
  /\ pc = "db" /\ db = "none" /\ gateway = "off"
  /\ health = [at |-> "off", abort |-> FALSE]
  /\ rec = [at |-> "off", on |-> {}, abort |-> FALSE]
  /\ lock = "free" /\ runs = {} /\ gens = {} /\ live = {}
  /\ todo = {} /\ on = {}
  /\ requests = NoRequests /\ streams = 0
  /\ left = {}

-----------------------------------------------------------------------------
\* The way up.  Each `expect` may end the process, and its children with it.
Connect ==
  /\ pc = "db"
  /\ db' = "open"
  /\ pc' = "key"
  /\ UNCHANGED <<gateway, tasks, table, todo, on, clients, left>>
LoadKey ==
  /\ pc = "key"
  /\ pc' = "health"
  /\ UNCHANGED <<db, gateway, tasks, table, todo, on, clients, left>>
SpawnHealth ==
  /\ pc = "health"
  /\ health' = [health EXCEPT !.at = "idle"]
  /\ pc' = "gateway"
  /\ UNCHANGED <<db, gateway, rec, table, todo, on, clients, left>>
SpawnGateway ==
  /\ pc = "gateway"
  /\ gateway' = "up"
  /\ pc' = "reconciler"
  /\ UNCHANGED <<db, tasks, table, todo, on, clients, left>>
SpawnReconciler ==
  /\ pc = "reconciler"
  /\ rec' = [rec EXCEPT !.at = "idle"]
  /\ pc' = "bind"
  /\ UNCHANGED <<db, gateway, health, table, todo, on, clients, left>>
Bind ==
  /\ pc = "bind"
  /\ pc' = "serving"
  /\ UNCHANGED <<db, gateway, tasks, table, todo, on, clients, left>>

\* The process ends at once; docker takes the container down with it.
Die(to) ==
  /\ pc' = to
  /\ db' = "none" /\ gateway' = "off"
  /\ health' = [at |-> "gone", abort |-> FALSE]
  /\ rec' = [at |-> "gone", on |-> {}, abort |-> FALSE]
  /\ lock' = "free" /\ runs' = {} /\ gens' = {} /\ live' = {}
  /\ todo' = {} /\ on' = {}
  /\ requests' = NoRequests /\ streams' = 0
  /\ UNCHANGED left
Panic == pc \in {"db", "key", "gateway", "bind"} /\ Die("panicked")

-----------------------------------------------------------------------------
\* Clients.  Only the handler of a request ends by itself: nothing bounds the time a
\* client takes to send or to read.  A stream ends when the client hangs up, or when
\* its bus is dropped, which the state of the router prevents.
Accept ==
  /\ pc = "serving" /\ Open < MaxRequests
  /\ requests' = [requests EXCEPT !["sending"] = @ + 1]
  /\ UNCHANGED <<pc, db, gateway, tasks, table, todo, on, streams, left>>
Received ==
  /\ requests["sending"] > 0
  /\ requests' = [requests EXCEPT !["sending"] = @ - 1, !["handled"] = @ + 1]
  /\ UNCHANGED <<pc, db, gateway, tasks, table, todo, on, streams, left>>
Respond ==
  /\ requests["handled"] > 0
  /\ requests' \in {[requests EXCEPT !["handled"] = @ - 1],
                   [requests EXCEPT !["handled"] = @ - 1, !["reading"] = @ + 1]}
  /\ UNCHANGED <<pc, db, gateway, tasks, table, todo, on, streams, left>>
\* The client has read its answer, or hangs up.
Leave(phase) ==
  /\ requests[phase] > 0
  /\ requests' = [requests EXCEPT ![phase] = @ - 1]
  /\ UNCHANGED <<pc, db, gateway, tasks, table, todo, on, streams, left>>
Subscribe ==
  /\ pc = "serving" /\ streams < MaxStreams
  /\ streams' = streams + 1
  /\ UNCHANGED <<pc, db, gateway, tasks, table, todo, on, requests, left>>
HangUp ==
  /\ streams > 0
  /\ streams' = streams - 1
  /\ UNCHANGED <<pc, db, gateway, tasks, table, todo, on, requests, left>>

-----------------------------------------------------------------------------
\* The reconciler.  Its select is not biased: a round may begin behind the signal.
RecRuns(at) == rec.at = at /\ ~rec.abort
RecTo(at) == rec' = [rec EXCEPT !.at = at]
RecOnly == UNCHANGED <<pc, db, gateway, health, todo, on, clients>>

RecRound ==
  /\ RecRuns("idle")
  /\ RecTo("list")
  /\ RecOnly /\ UNCHANGED <<table, left>>
RecExit ==
  /\ RecRuns("idle") /\ Signalled
  /\ RecTo("gone")
  /\ RecOnly /\ UNCHANGED <<table, left>>
RecList ==
  /\ RecRuns("list")
  /\ RecTo("act") \/ RecTo("idle")
  /\ RecOnly /\ UNCHANGED <<table, left>>
RecDone ==
  /\ RecRuns("act")
  /\ RecTo("idle")
  /\ RecOnly /\ UNCHANGED <<table, left>>

\* start: the generation is counted before anything else.
RecStart(i) ==
  /\ RecRuns("act") /\ lock = "free" /\ i \notin runs
  /\ lock' = "rec"
  /\ gens' = gens \cup {i}
  /\ rec' = [rec EXCEPT !.at = "begin", !.on = {i}]
  /\ RecOnly /\ UNCHANGED <<runs, live, left>>

\* Credentials are read and the daemon is spawned; a port that a daemon still holds,
\* or any error, ends the start.
RecSpawn ==
  /\ RecRuns("begin") /\ rec.on \cap live = {}
  /\ live' = live \cup rec.on
  /\ RecTo("started")
  /\ RecOnly /\ UNCHANGED <<lock, runs, gens, left>>
RecSpawnFails ==
  /\ RecRuns("begin")
  /\ lock' = "free"
  /\ rec' = [rec EXCEPT !.at = "act", !.on = {}]
  /\ RecOnly /\ UNCHANGED <<runs, gens, live, left>>
RecStarted ==
  /\ RecRuns("started")
  /\ runs' = runs \cup rec.on
  /\ lock' = "free"
  /\ rec' = [rec EXCEPT !.at = "act", !.on = {}]
  /\ RecOnly /\ UNCHANGED <<gens, live, left>>

\* A start that fails behind the spawn stops the daemon; whether that worked is not
\* looked at.
RecStartFails ==
  /\ RecRuns("started")
  /\ \/ live' = live \ rec.on /\ UNCHANGED left
     \/ left' = left \cup rec.on /\ UNCHANGED live
  /\ lock' = "free"
  /\ rec' = [rec EXCEPT !.at = "act", !.on = {}]
  /\ RecOnly /\ UNCHANGED <<runs, gens>>

\* stop and restart: the entry is out of the table while the daemon goes down.
RecStop(i) ==
  /\ RecRuns("act") /\ lock = "free" /\ i \in runs
  /\ lock' = "rec"
  /\ runs' = runs \ {i}
  /\ rec' = [rec EXCEPT !.at = "stopping", !.on = {i}]
  /\ RecOnly /\ UNCHANGED <<gens, live, left>>
RecStopped ==
  /\ RecRuns("stopping")
  /\ live' = live \ rec.on
  /\ \/ /\ gens' = gens \ rec.on
        /\ lock' = "free"
        /\ rec' = [rec EXCEPT !.at = "act", !.on = {}]
     \/ RecTo("begin") /\ UNCHANGED <<gens, lock>>
  /\ RecOnly /\ UNCHANGED <<runs, left>>
RecStopFails ==
  /\ RecRuns("stopping")
  /\ runs' = runs \cup rec.on
  /\ left' = left \cup rec.on
  /\ lock' = "free"
  /\ rec' = [rec EXCEPT !.at = "act", !.on = {}]
  /\ RecOnly /\ UNCHANGED <<gens, live>>

\* The abort: the task is dropped with what it holds.  One that is about to spawn may
\* do so first.
RecAborted ==
  /\ rec.abort /\ rec.at # "gone"
  /\ live' \in {live} \cup (IF rec.at = "begin" THEN {live \cup rec.on} ELSE {})
  /\ left' = left \cup (rec.on \cap live')
  /\ lock' = IF lock = "rec" THEN "free" ELSE lock
  /\ rec' = [rec EXCEPT !.at = "gone", !.on = {}]
  /\ RecOnly /\ UNCHANGED <<runs, gens>>

\* The health loop: its select looks for the cancellation first.
HealthProbe ==
  /\ health.at = "idle" /\ pc \notin From("join_health")
  /\ health' = [health EXCEPT !.at = "probing"]
  /\ UNCHANGED <<pc, db, gateway, rec, table, todo, on, clients, left>>
HealthVerdict ==
  /\ health.at = "probing" /\ ~health.abort
  /\ health' = [health EXCEPT !.at = "idle"]
  /\ UNCHANGED <<pc, db, gateway, rec, table, todo, on, clients, left>>
HealthExit ==
  /\ \/ health.at = "idle" /\ pc \in From("join_health")
     \/ health.at = "probing" /\ health.abort
  /\ health' = [health EXCEPT !.at = "gone"]
  /\ UNCHANGED <<pc, db, gateway, rec, table, todo, on, clients, left>>

SvcExits(i) ==
  /\ i \in live
  /\ live' = live \ {i}
  /\ UNCHANGED <<pc, db, gateway, tasks, lock, runs, gens, todo, on, clients, left>>

-----------------------------------------------------------------------------
\* shutdown_signal: axum takes no new request, the watch is set.
Signal ==
  /\ pc = "serving"
  /\ pc' = "drain"
  /\ UNCHANGED <<db, gateway, tasks, table, todo, on, clients, left>>

\* serve returns when every connection is done, the event streams too.
Drained ==
  /\ pc = "drain" /\ Open = 0 /\ streams = 0
  /\ pc' = "join_health"
  /\ UNCHANGED <<db, gateway, tasks, table, todo, on, clients, left>>

JoinHealth ==
  /\ pc = "join_health" /\ health.at = "gone"
  /\ pc' = "join_rec"
  /\ UNCHANGED <<db, gateway, tasks, table, todo, on, clients, left>>

HealthTimeout ==
  /\ pc = "join_health" /\ health.at # "gone"
  /\ health' = [health EXCEPT !.abort = TRUE]
  /\ pc' = "join_rec"
  /\ UNCHANGED <<db, gateway, rec, table, todo, on, clients, left>>

\* Variant: the round in progress is not waited for.
JoinRecEarly ==
  /\ pc = "join_rec"
  /\ pc' = "stop_gateway"
  /\ UNCHANGED <<db, gateway, tasks, table, todo, on, clients, left>>
JoinRec ==
  /\ pc = "join_rec" /\ rec.at = "gone"
  /\ pc' = "stop_gateway"
  /\ UNCHANGED <<db, gateway, tasks, table, todo, on, clients, left>>

\* Variants: the handle is dropped; there is no time-out.
RecTimeoutDetaches ==
  /\ pc = "join_rec" /\ rec.at # "gone"
  /\ pc' = "stop_gateway"
  /\ UNCHANGED <<db, gateway, tasks, table, todo, on, clients, left>>
RecTimeoutNever == pc = "never" /\ UNCHANGED vars
RecTimeout ==
  /\ pc = "join_rec" /\ rec.at # "gone"
  /\ rec' = [rec EXCEPT !.abort = TRUE]
  /\ pc' = "stop_gateway"
  /\ UNCHANGED <<db, gateway, health, table, todo, on, clients, left>>

\* The gateway's stop; stop_all then takes the instances that have a generation.
StopGateway ==
  /\ pc = "stop_gateway"
  /\ gateway' = "stopped"
  /\ pc' = "stop_all"
  /\ todo' = gens
  /\ UNCHANGED <<db, tasks, table, on, clients, left>>

\* One instance at a time, behind the lock; one without an entry is done at once.
StopOne(i) ==
  /\ pc = "stop_all" /\ on = {} /\ i \in todo /\ lock = "free"
  /\ todo' = todo \ {i}
  /\ \/ /\ i \in runs
        /\ runs' = runs \ {i}
        /\ on' = {i} /\ lock' = "main"
     \/ i \notin runs /\ UNCHANGED <<runs, on, lock>>
  /\ UNCHANGED <<pc, db, gateway, tasks, gens, live, clients, left>>
StopOneDone ==
  /\ pc = "stop_all" /\ on # {}
  /\ live' = live \ on /\ gens' = gens \ on
  /\ on' = {} /\ lock' = "free"
  /\ UNCHANGED <<pc, db, gateway, tasks, runs, todo, clients, left>>
StopOneFails ==
  /\ pc = "stop_all" /\ on # {}
  /\ runs' = runs \cup on /\ left' = left \cup on
  /\ on' = {} /\ lock' = "free"
  /\ UNCHANGED <<pc, db, gateway, tasks, gens, live, todo, clients>>
StopAllDone ==
  /\ pc = "stop_all" /\ on = {} /\ todo = {}
  /\ pc' = "tail"
  /\ UNCHANGED <<db, gateway, tasks, table, todo, on, clients, left>>

\* The deadline over all of them drops the stop in progress.
StopAllTimeout ==
  /\ pc = "stop_all" /\ todo \cup on # {}
  /\ left' = left \cup todo \cup on
  /\ todo' = {} /\ on' = {}
  /\ lock' = IF lock = "main" THEN "free" ELSE lock
  /\ pc' = "tail"
  /\ UNCHANGED <<db, gateway, tasks, runs, gens, live, clients>>

\* The log watchers never end, so this wait always times out.
TailTimeout ==
  /\ pc = "tail"
  /\ pc' = "close"
  /\ UNCHANGED <<db, gateway, tasks, table, todo, on, clients, left>>

\* pool.close waits for the connections that are out.
Close ==
  /\ pc = "close" /\ rec.at \notin {"list", "begin"}
  /\ db' = "closed"
  /\ pc' = "exit"
  /\ UNCHANGED <<gateway, tasks, table, todo, on, clients, left>>

\* docker kills the container when its grace period is over.
Killed == Signalled /\ pc # "exit" /\ Die("killed")

-----------------------------------------------------------------------------
Boot == Connect \/ LoadKey \/ SpawnHealth \/ SpawnGateway \/ SpawnReconciler \/ Bind
Teardown ==
  \/ Drained \/ JoinHealth \/ HealthTimeout \/ JoinRec \/ RecTimeout \/ StopGateway
  \/ (\E i \in Instances : StopOne(i)) \/ StopOneDone \/ StopOneFails
  \/ StopAllDone \/ StopAllTimeout \/ TailTimeout \/ Close
Round ==
  \/ RecRound \/ RecExit \/ RecList \/ RecDone
  \/ \E i \in Instances : RecStart(i) \/ RecStop(i)
  \/ RecSpawn \/ RecSpawnFails \/ RecStarted \/ RecStartFails
  \/ RecStopped \/ RecStopFails
Client ==
  \/ Accept \/ Received \/ Respond \/ Subscribe \/ HangUp
  \/ \E phase \in {"sending", "reading"} : Leave(phase)

Next ==
  \/ Boot \/ Panic \/ Client \/ Round \/ RecAborted
  \/ HealthProbe \/ HealthVerdict \/ HealthExit
  \/ \E i \in Instances : SvcExits(i)
  \/ Signal \/ Teardown \/ Killed

\* main runs, handlers answer, an aborted task is dropped.  Nothing is assumed of the
\* reconciler's round, the probe of the health loop, or a client.
Spec ==
  /\ Init /\ [][Next]_vars
  /\ WF_vars(Teardown) /\ WF_vars(Respond) /\ WF_vars(RecAborted)

-----------------------------------------------------------------------------
TypeOK ==
  /\ pc \in Booting \cup {"serving", "drain", "panicked", "killed"} \cup From("join_health")
  /\ db \in {"none", "open", "closed"} /\ gateway \in {"off", "up", "stopped"}
  /\ health \in [at : {"off", "idle", "probing", "gone"}, abort : BOOLEAN]
  /\ rec \in [at : {"off", "idle", "list", "act", "begin", "started", "stopping", "gone"},
              on : SUBSET Instances, abort : BOOLEAN]
  /\ {runs, gens, live, todo, on, left} \subseteq SUBSET Instances
  /\ lock \in {"free", "rec", "main"}
  /\ lock = "main" <=> on # {}
  /\ lock = "rec" <=> rec.on # {}
  /\ requests \in [Phases -> Nat] /\ Open <= MaxRequests /\ streams \in 0..MaxStreams

\* Whatever is at work finds what it uses: a request or a stream everything that main
\* wires before it listens, a reconciler's read the database.
DependenciesUp ==
  /\ Busy =>
       db = "open" /\ "off" \notin {gateway, health.at, rec.at}
  /\ rec.at \in {"list", "begin"} => db = "open"

\* Behind stop_all no daemon is left running but the ones given up on the way: by a
\* time-out, an abort or a failed stop.
NothingLeftRunning == pc \in From("tail") => live \subseteq left

\* A layer is taken down only when the ones above it are gone, or aborted.
TornDownInOrder ==
  /\ pc \in From("join_rec") => health.at = "gone" \/ health.abort
  /\ pc \in From("stop_gateway") => rec.at = "gone" \/ rec.abort
  /\ pc \in From("join_health") => ~Busy

\* The tree, going up and coming down: nothing works without what it uses, layers go
\* one after the other, and no daemon is left that nobody gave up.
Inv == TypeOK /\ DependenciesUp /\ NothingLeftRunning /\ TornDownInOrder

(***************************************************************************)
(* The inductive invariant.                                                *)
(***************************************************************************)

\* What main has wired so far.  Clients are there between the bind and the end of the
\* drain; the database is open from its connect to its close, or to the end of all.
PhaseInv ==
  /\ pc \in {"db", "key", "health", "gateway", "reconciler"} <=> rec.at = "off"
  /\ pc \in {"db", "key", "health"} <=> health.at = "off"
  /\ gateway = "off" => pc \in {"db", "key", "health", "gateway", "panicked", "killed"}
  /\ pc \notin {"db", "exit", "panicked", "killed"} => db = "open"
  /\ Busy => pc \in {"serving", "drain"}
  /\ pc \in {"panicked", "killed"} => rec.at = "gone" /\ live = {}
  /\ rec.abort => pc \in From("stop_gateway")
  /\ todo \cup on # {} => pc = "stop_all"

\* A task works on an instance exactly while it holds the lock, and the entry of
\* that instance is out of the table for as long.
HandInv ==
  /\ rec.at \in {"begin", "started", "stopping"} <=> rec.on # {}
  /\ (rec.on \cup on) \cap runs = {}

\* Every daemon is known to somebody: the table, the task that works on it, stop_all,
\* or the ones given up; a start that has not spawned yet knows of none.  All of those
\* have a generation, and so stop_all, which takes the generations, misses none.
TableInv ==
  /\ live \subseteq runs \cup rec.on \cup on \cup left
  /\ rec.at = "begin" => rec.on \cap live \subseteq left
  /\ runs \cup rec.on \cup on \subseteq gens
  /\ pc = "stop_all" => runs \cup rec.on \subseteq todo \cup left

IInv == Inv /\ PhaseInv /\ HandInv /\ TableInv

\* From stop_all on nothing is started any more, unless the round had to be aborted.
NoStartBehindStopAll ==
  [][(pc \in From("stop_all") /\ ~rec.abort) => live' \subseteq live]_vars

\* The tear-down comes to an end although a round, a probe or a stop may hang.
TeardownEnds == (pc = "join_health") ~> (pc \in {"exit", "killed"})

\* A drain that does not end is held by clients for good, with an event stream, a
\* request half sent or an answer not read: nothing bounds those.  The server's own work
\* never holds it.
ClientHolds == requests["sending"] + requests["reading"] + streams > 0
OnlyClientsHold == <>[](pc = "drain") => <>[]ClientHolds

\* The signal leads to the end of the process: the tear-down ends whatever hangs in
\* it, and only clients can keep it from beginning.
ShutdownEnds == TeardownEnds /\ OnlyClientsHold
=============================================================================
