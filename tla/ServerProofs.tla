---------------------------- MODULE ServerProofs ----------------------------
(***************************************************************************)
(* Server: what the tear-down leaves behind, for any number of instances,  *)
(* requests and event streams.                                             *)
(***************************************************************************)
EXTENDS Server, TLAPS

USE BoundsAssumption

\* The layers of the tear-down, from one of them to the end.
LEMMA FromLayers ==
  /\ From("join_health") = {"join_health", "join_rec", "stop_gateway", "stop_all",
                            "tail", "close", "exit"}
  /\ From("join_rec") = {"join_rec", "stop_gateway", "stop_all", "tail", "close", "exit"}
  /\ From("stop_gateway") = {"stop_gateway", "stop_all", "tail", "close", "exit"}
  /\ From("stop_all") = {"stop_all", "tail", "close", "exit"}
  /\ From("tail") = {"tail", "close", "exit"}
<1>1. /\ Layers[1] = "join_health" /\ Layers[2] = "join_rec" /\ Layers[3] = "stop_gateway"
      /\ Layers[4] = "stop_all" /\ Layers[5] = "tail" /\ Layers[6] = "close"
      /\ Layers[7] = "exit"
  BY DEF Layers
<1>2. {n \in 1..7 : \E j \in 1..n : Layers[j] = "join_health"} = {1, 2, 3, 4, 5, 6, 7}
  BY <1>1
<1>3. {n \in 1..7 : \E j \in 1..n : Layers[j] = "join_rec"} = {2, 3, 4, 5, 6, 7}
  BY <1>1
<1>4. {n \in 1..7 : \E j \in 1..n : Layers[j] = "stop_gateway"} = {3, 4, 5, 6, 7}
  BY <1>1
<1>5. {n \in 1..7 : \E j \in 1..n : Layers[j] = "stop_all"} = {4, 5, 6, 7}
  BY <1>1
<1>6. {n \in 1..7 : \E j \in 1..n : Layers[j] = "tail"} = {5, 6, 7}
  BY <1>1
<1> QED BY <1>1, <1>2, <1>3, <1>4, <1>5, <1>6 DEF From

\* The requests: none of them is open in a process that has ended, and a client's step
\* opens one only while main serves.
LEMMA NoneOpen ==
  ASSUME requests' = NoRequests
  PROVE  requests' \in [Phases -> Nat] /\ Open' = 0
BY DEF NoRequests, Phases, Open

LEMMA ClientCounts ==
  ASSUME TypeOK, Client
  PROVE  /\ requests' \in [Phases -> Nat] /\ Open \in Nat /\ Open' \in Nat
         /\ Open' <= MaxRequests /\ streams \in Nat /\ streams' \in 0..MaxStreams
         /\ Busy' => Busy \/ pc = "serving"
<1>0. /\ requests \in [Phases -> Nat] /\ Open <= MaxRequests /\ streams \in 0..MaxStreams
      /\ requests["sending"] \in Nat /\ requests["handled"] \in Nat
      /\ requests["reading"] \in Nat
  BY DEF TypeOK, Phases
<1>1. CASE Accept
  BY <1>0, <1>1 DEF Accept, Open, Busy, Phases
<1>2. CASE Received
  BY <1>0, <1>2 DEF Received, Open, Busy, Phases
<1>3. CASE Respond
  <2>1. CASE requests' = [requests EXCEPT !["handled"] = @ - 1]
    BY <1>0, <1>3, <2>1 DEF Respond, Open, Busy, Phases
  <2>2. CASE requests' = [requests EXCEPT !["handled"] = @ - 1, !["reading"] = @ + 1]
    BY <1>0, <1>3, <2>2 DEF Respond, Open, Busy, Phases
  <2> QED BY <1>3, <2>1, <2>2 DEF Respond
<1>4. ASSUME NEW phase \in {"sending", "reading"}, Leave(phase)
      PROVE  /\ requests' \in [Phases -> Nat] /\ Open \in Nat /\ Open' \in Nat
             /\ Open' <= MaxRequests /\ streams \in Nat /\ streams' \in 0..MaxStreams
             /\ Busy' => Busy \/ pc = "serving"
  <2>1. CASE phase = "sending"
    BY <1>0, <1>4, <2>1 DEF Leave, Open, Busy, Phases
  <2>2. CASE phase = "reading"
    BY <1>0, <1>4, <2>2 DEF Leave, Open, Busy, Phases
  <2> QED BY <1>4, <2>1, <2>2
<1>5. CASE Subscribe \/ HangUp
  BY <1>0, <1>5 DEF Subscribe, HangUp, Open, Busy
<1> QED BY <1>1, <1>2, <1>3, <1>4, <1>5 DEF Client

\* main.rs: the way up, and the ends it may come to.
LEMMA BootPreserves ==
  ASSUME IInv, Boot \/ Panic
  PROVE  IInv'
<1> USE FromLayers DEF tasks, table, clients, Open, Busy, Booting, IInv, Inv
<1>1. CASE Connect \/ LoadKey \/ SpawnGateway
  <2>1. TypeOK'
    BY <1>1 DEF Connect, LoadKey, SpawnGateway, TypeOK
  <2>2. DependenciesUp' /\ TornDownInOrder' /\ PhaseInv'
    BY <1>1 DEF Connect, LoadKey, SpawnGateway, TypeOK, DependenciesUp, TornDownInOrder, PhaseInv
  <2>3. NothingLeftRunning' /\ HandInv' /\ TableInv'
    BY <1>1 DEF Connect, LoadKey, SpawnGateway, TypeOK, TornDownInOrder, NothingLeftRunning,
       PhaseInv, HandInv, TableInv
  <2> QED BY <2>1, <2>2, <2>3
<1>2. CASE SpawnHealth
  <2>1. TypeOK'
    BY <1>2 DEF SpawnHealth, TypeOK
  <2>2. DependenciesUp' /\ TornDownInOrder' /\ PhaseInv'
    BY <1>2 DEF SpawnHealth, TypeOK, DependenciesUp, TornDownInOrder, PhaseInv
  <2>3. NothingLeftRunning' /\ HandInv' /\ TableInv'
    BY <1>2 DEF SpawnHealth, TypeOK, TornDownInOrder, NothingLeftRunning,
       PhaseInv, HandInv, TableInv
  <2> QED BY <2>1, <2>2, <2>3
<1>3. CASE SpawnReconciler
  <2>1. TypeOK'
    BY <1>3 DEF SpawnReconciler, TypeOK
  <2>2. DependenciesUp' /\ TornDownInOrder' /\ PhaseInv'
    BY <1>3 DEF SpawnReconciler, TypeOK, DependenciesUp, TornDownInOrder, PhaseInv
  <2>3. NothingLeftRunning' /\ HandInv' /\ TableInv'
    BY <1>3 DEF SpawnReconciler, TypeOK, TornDownInOrder, NothingLeftRunning,
       PhaseInv, HandInv, TableInv
  <2> QED BY <2>1, <2>2, <2>3
<1>4. CASE Bind
  <2>1. TypeOK'
    BY <1>4 DEF Bind, TypeOK
  <2>2. DependenciesUp' /\ TornDownInOrder' /\ PhaseInv'
    BY <1>4 DEF Bind, TypeOK, DependenciesUp, TornDownInOrder, PhaseInv
  <2>3. NothingLeftRunning' /\ HandInv' /\ TableInv'
    BY <1>4 DEF Bind, TypeOK, TornDownInOrder, NothingLeftRunning,
       PhaseInv, HandInv, TableInv
  <2> QED BY <2>1, <2>2, <2>3
<1>5. CASE Panic
  <2>1. TypeOK'
    BY <1>5, NoneOpen DEF Panic, Die, TypeOK
  <2>2. DependenciesUp' /\ TornDownInOrder' /\ PhaseInv'
    BY <1>5, NoneOpen DEF Panic, Die, TypeOK, DependenciesUp, TornDownInOrder, PhaseInv
  <2>3. NothingLeftRunning' /\ HandInv' /\ TableInv'
    BY <1>5, NoneOpen DEF Panic, Die, TypeOK, TornDownInOrder, NothingLeftRunning,
       PhaseInv, HandInv, TableInv
  <2> QED BY <2>1, <2>2, <2>3
<1> QED BY <1>1, <1>2, <1>3, <1>4, <1>5 DEF Boot

\* api: requests and event streams, taken while main serves and no longer.
LEMMA ClientPreserves ==
  ASSUME IInv, Client
  PROVE  IInv'
<1> USE FromLayers DEF IInv, Inv
<1>1. /\ requests' \in [Phases -> Nat] /\ Open \in Nat /\ Open' \in Nat
      /\ Open' <= MaxRequests /\ streams \in Nat /\ streams' \in 0..MaxStreams
      /\ Busy' => Busy \/ pc = "serving"
  BY ClientCounts
<1>2. UNCHANGED <<pc, db, gateway, tasks, table, todo, on, left>>
  BY DEF Client, Accept, Received, Respond, Leave, Subscribe, HangUp
<1>3. TypeOK'
  BY <1>1, <1>2 DEF TypeOK, tasks, table
<1>4. DependenciesUp' /\ TornDownInOrder' /\ PhaseInv'
  <2>1. Busy' => Busy \/ pc = "serving"
    BY <1>1
  <2>2. Busy => pc \in {"serving", "drain"}
    BY DEF PhaseInv
  <2>3. Busy' => pc \in {"serving", "drain"}
    BY <2>1, <2>2
  <2>4. pc = "serving" => db = "open" /\ "off" \notin {gateway, health.at, rec.at}
    BY DEF PhaseInv
  <2>5. DependenciesUp'
    BY <1>2, <2>1, <2>4 DEF tasks, table, DependenciesUp
  <2>6. TornDownInOrder'
    BY <1>2, <2>3 DEF tasks, table, TornDownInOrder
  <2>7. PhaseInv'
    BY <1>2, <2>3 DEF tasks, table, PhaseInv
  <2> QED BY <2>5, <2>6, <2>7
<1>5. NothingLeftRunning' /\ HandInv' /\ TableInv'
  BY <1>2 DEF tasks, table, NothingLeftRunning, HandInv, TableInv
<1> QED BY <1>3, <1>4, <1>5

\* runtime/manager.rs: the health loop.
LEMMA HealthPreserves ==
  ASSUME IInv, HealthProbe \/ HealthVerdict \/ HealthExit
  PROVE  IInv'
<1> USE FromLayers DEF tasks, table, clients, Open, Busy, Booting, IInv, Inv
<1>1. CASE HealthProbe \/ HealthVerdict \/ HealthExit
  <2>1. TypeOK'
    BY <1>1 DEF HealthProbe, HealthVerdict, HealthExit, TypeOK
  <2>2. DependenciesUp' /\ TornDownInOrder' /\ PhaseInv'
    BY <1>1 DEF HealthProbe, HealthVerdict, HealthExit, TypeOK, DependenciesUp, TornDownInOrder, PhaseInv
  <2>3. NothingLeftRunning' /\ HandInv' /\ TableInv'
    BY <1>1 DEF HealthProbe, HealthVerdict, HealthExit, TypeOK, TornDownInOrder, NothingLeftRunning,
       PhaseInv, HandInv, TableInv
  <2> QED BY <2>1, <2>2, <2>3
<1> QED BY <1>1

\* A step of the reconciler alone keeps the types, if it leaves a record of a task, sets
\* of instances, and the lock in the hands of whoever works on an instance.
LEMMA RecStepTypes ==
  ASSUME IInv, RecOnly,
         NEW a \in {"idle", "list", "act", "begin", "started", "stopping", "gone"},
         NEW o \in SUBSET Instances, NEW b \in BOOLEAN,
         rec' = [at |-> a, on |-> o, abort |-> b],
         runs' \in SUBSET Instances, gens' \in SUBSET Instances,
         live' \in SUBSET Instances, left' \in SUBSET Instances,
         lock' \in {"free", "rec", "main"},
         lock' = "main" <=> on # {}, lock' = "rec" <=> o # {}
  PROVE  TypeOK'
<1> USE DEF IInv, Inv, RecOnly, clients, Open
<1>1. /\ (pc \in Booting \cup {"serving", "drain", "panicked", "killed"}
                \cup From("join_health"))'
      /\ (db \in {"none", "open", "closed"} /\ gateway \in {"off", "up", "stopped"})'
      /\ (health \in [at : {"off", "idle", "probing", "gone"}, abort : BOOLEAN])'
      /\ (requests \in [Phases -> Nat] /\ Open <= MaxRequests /\ streams \in 0..MaxStreams)'
  BY DEF TypeOK
<1>2. (rec \in [at : {"off", "idle", "list", "act", "begin", "started", "stopping", "gone"},
                on : SUBSET Instances, abort : BOOLEAN])'
  OBVIOUS
<1>3. ({runs, gens, live, todo, on, left} \subseteq SUBSET Instances)'
  BY DEF TypeOK
<1>4. /\ (lock \in {"free", "rec", "main"})'
      /\ (lock = "main" <=> on # {})'
      /\ (lock = "rec" <=> rec.on # {})'
  OBVIOUS
<1> QED BY <1>1, <1>2, <1>3, <1>4 DEF TypeOK

\* reconciler/mod.rs: a round, its starts and its stops.
LEMMA RoundPreserves ==
  ASSUME IInv, Round
  PROVE  IInv'
<1> USE FromLayers DEF tasks, table, clients, Open, Busy, Booting, IInv, Inv
<1>1. CASE RecRound
  <2>1. TypeOK'
    BY <1>1 DEF RecRound, RecRuns, RecTo, RecOnly, TypeOK
  <2>2. DependenciesUp' /\ TornDownInOrder' /\ PhaseInv'
    BY <1>1 DEF RecRound, RecRuns, RecTo, RecOnly, TypeOK, DependenciesUp, TornDownInOrder, PhaseInv
  <2>3. NothingLeftRunning' /\ HandInv' /\ TableInv'
    BY <1>1 DEF RecRound, RecRuns, RecTo, RecOnly, TypeOK, TornDownInOrder, NothingLeftRunning,
       PhaseInv, HandInv, TableInv
  <2> QED BY <2>1, <2>2, <2>3
<1>2. CASE RecExit
  <2>1. TypeOK'
    BY <1>2 DEF RecExit, RecRuns, RecTo, RecOnly, TypeOK
  <2>2. DependenciesUp' /\ TornDownInOrder' /\ PhaseInv'
    BY <1>2 DEF RecExit, RecRuns, RecTo, RecOnly, TypeOK, DependenciesUp, TornDownInOrder, PhaseInv
  <2>3. NothingLeftRunning' /\ HandInv' /\ TableInv'
    BY <1>2 DEF RecExit, RecRuns, RecTo, RecOnly, TypeOK, TornDownInOrder, NothingLeftRunning,
       PhaseInv, HandInv, TableInv
  <2> QED BY <2>1, <2>2, <2>3
<1>3. CASE RecList
  <2>1. TypeOK'
    BY <1>3 DEF RecList, RecRuns, RecTo, RecOnly, TypeOK
  <2>2. DependenciesUp' /\ TornDownInOrder' /\ PhaseInv'
    BY <1>3 DEF RecList, RecRuns, RecTo, RecOnly, TypeOK, DependenciesUp, TornDownInOrder, PhaseInv
  <2>3. NothingLeftRunning' /\ HandInv' /\ TableInv'
    BY <1>3 DEF RecList, RecRuns, RecTo, RecOnly, TypeOK, TornDownInOrder, NothingLeftRunning,
       PhaseInv, HandInv, TableInv
  <2> QED BY <2>1, <2>2, <2>3
<1>4. CASE RecDone
  <2>1. TypeOK'
    BY <1>4 DEF RecDone, RecRuns, RecTo, RecOnly, TypeOK
  <2>2. DependenciesUp' /\ TornDownInOrder' /\ PhaseInv'
    BY <1>4 DEF RecDone, RecRuns, RecTo, RecOnly, TypeOK, DependenciesUp, TornDownInOrder, PhaseInv
  <2>3. NothingLeftRunning' /\ HandInv' /\ TableInv'
    BY <1>4 DEF RecDone, RecRuns, RecTo, RecOnly, TypeOK, TornDownInOrder, NothingLeftRunning,
       PhaseInv, HandInv, TableInv
  <2> QED BY <2>1, <2>2, <2>3
<1>5. ASSUME NEW i \in Instances, RecStart(i)
      PROVE  IInv'
  <2>1. TypeOK'
    <3>1. rec' = [at |-> "begin", on |-> {i}, abort |-> FALSE]
      BY <1>5 DEF RecStart, RecRuns, TypeOK
    <3>2. on = {} /\ {runs', gens', live', left'} \subseteq SUBSET Instances
      BY <1>5 DEF RecStart, TypeOK
    <3>3. lock' = "rec" /\ RecOnly /\ {i} \in SUBSET Instances
      BY <1>5 DEF RecStart
    <3> QED BY <3>1, <3>2, <3>3, RecStepTypes
  <2>2. DependenciesUp' /\ TornDownInOrder' /\ PhaseInv'
    BY <1>5 DEF RecStart, RecRuns, RecOnly, TypeOK, DependenciesUp, TornDownInOrder, PhaseInv
  <2>3. NothingLeftRunning' /\ HandInv' /\ TableInv'
    BY <1>5 DEF RecStart, RecRuns, RecOnly, TypeOK, TornDownInOrder, NothingLeftRunning,
       PhaseInv, HandInv, TableInv
  <2> QED BY <2>1, <2>2, <2>3
<1>6. ASSUME NEW i \in Instances, RecStop(i)
      PROVE  IInv'
  <2>1. TypeOK'
    <3>1. rec' = [at |-> "stopping", on |-> {i}, abort |-> FALSE]
      BY <1>6 DEF RecStop, RecRuns, TypeOK
    <3>2. on = {} /\ {runs', gens', live', left'} \subseteq SUBSET Instances
      BY <1>6 DEF RecStop, TypeOK
    <3>3. lock' = "rec" /\ RecOnly /\ {i} \in SUBSET Instances
      BY <1>6 DEF RecStop
    <3> QED BY <3>1, <3>2, <3>3, RecStepTypes
  <2>2. DependenciesUp' /\ TornDownInOrder' /\ PhaseInv'
    BY <1>6 DEF RecStop, RecRuns, RecOnly, TypeOK, DependenciesUp, TornDownInOrder, PhaseInv
  <2>3. NothingLeftRunning' /\ HandInv' /\ TableInv'
    BY <1>6 DEF RecStop, RecRuns, RecOnly, TypeOK, TornDownInOrder, NothingLeftRunning,
       PhaseInv, HandInv, TableInv
  <2> QED BY <2>1, <2>2, <2>3
<1>7. CASE RecSpawn
  <2>1. TypeOK'
    BY <1>7 DEF RecSpawn, RecRuns, RecTo, RecOnly, TypeOK
  <2>2. DependenciesUp' /\ TornDownInOrder' /\ PhaseInv'
    BY <1>7 DEF RecSpawn, RecRuns, RecTo, RecOnly, TypeOK, DependenciesUp, TornDownInOrder, PhaseInv
  <2>3. NothingLeftRunning' /\ HandInv' /\ TableInv'
    BY <1>7 DEF RecSpawn, RecRuns, RecTo, RecOnly, TypeOK, TornDownInOrder, NothingLeftRunning,
       PhaseInv, HandInv, TableInv
  <2> QED BY <2>1, <2>2, <2>3
<1>8. CASE RecSpawnFails
  <2>1. TypeOK'
    <3>1. rec' = [at |-> "act", on |-> {}, abort |-> FALSE]
      BY <1>8 DEF RecSpawnFails, RecRuns, RecOnly, TypeOK
    <3>2. rec.on # {} /\ lock = "rec" /\ on = {}
      BY <1>8 DEF RecSpawnFails, RecRuns, RecOnly, TypeOK, HandInv
    <3>3. {runs', gens', live', left'} \subseteq SUBSET Instances
      BY <1>8 DEF RecSpawnFails, TypeOK
    <3> QED BY <1>8, <3>1, <3>2, <3>3, RecStepTypes DEF RecSpawnFails
  <2>2. DependenciesUp' /\ TornDownInOrder' /\ PhaseInv'
    BY <1>8 DEF RecSpawnFails, RecRuns, RecOnly, TypeOK, DependenciesUp, TornDownInOrder, PhaseInv
  <2>3. NothingLeftRunning' /\ HandInv' /\ TableInv'
    BY <1>8 DEF RecSpawnFails, RecRuns, RecOnly, TypeOK, TornDownInOrder, NothingLeftRunning,
       PhaseInv, HandInv, TableInv
  <2> QED BY <2>1, <2>2, <2>3
<1>9. CASE RecStarted
  <2>1. TypeOK'
    <3>1. rec' = [at |-> "act", on |-> {}, abort |-> FALSE]
      BY <1>9 DEF RecStarted, RecRuns, RecOnly, TypeOK
    <3>2. rec.on # {} /\ lock = "rec" /\ on = {}
      BY <1>9 DEF RecStarted, RecRuns, RecOnly, TypeOK, HandInv
    <3>3. {runs', gens', live', left'} \subseteq SUBSET Instances
      BY <1>9 DEF RecStarted, TypeOK
    <3> QED BY <1>9, <3>1, <3>2, <3>3, RecStepTypes DEF RecStarted
  <2>2. DependenciesUp' /\ TornDownInOrder' /\ PhaseInv'
    BY <1>9 DEF RecStarted, RecRuns, RecOnly, TypeOK, DependenciesUp, TornDownInOrder, PhaseInv
  <2>3. NothingLeftRunning' /\ HandInv' /\ TableInv'
    BY <1>9 DEF RecStarted, RecRuns, RecOnly, TypeOK, TornDownInOrder, NothingLeftRunning,
       PhaseInv, HandInv, TableInv
  <2> QED BY <2>1, <2>2, <2>3
<1>10. CASE RecStartFails
  <2>1. TypeOK'
    <3>1. rec' = [at |-> "act", on |-> {}, abort |-> FALSE]
      BY <1>10 DEF RecStartFails, RecRuns, RecOnly, TypeOK
    <3>2. rec.on # {} /\ lock = "rec" /\ on = {}
      BY <1>10 DEF RecStartFails, RecRuns, RecOnly, TypeOK, HandInv
    <3>3. {runs', gens', live', left'} \subseteq SUBSET Instances
      BY <1>10 DEF RecStartFails, TypeOK
    <3> QED BY <1>10, <3>1, <3>2, <3>3, RecStepTypes DEF RecStartFails
  <2>2. DependenciesUp' /\ TornDownInOrder' /\ PhaseInv'
    BY <1>10 DEF RecStartFails, RecRuns, RecOnly, TypeOK, DependenciesUp, TornDownInOrder, PhaseInv
  <2>3. NothingLeftRunning' /\ HandInv' /\ TableInv'
    BY <1>10 DEF RecStartFails, RecRuns, RecOnly, TypeOK, TornDownInOrder, NothingLeftRunning,
       PhaseInv, HandInv, TableInv
  <2> QED BY <2>1, <2>2, <2>3
<1>11. CASE RecStopped
  <2>1. TypeOK'
    <3>1. \/ rec' = [at |-> "act", on |-> {}, abort |-> FALSE] /\ lock' = "free"
          \/ rec' = [at |-> "begin", on |-> rec.on, abort |-> FALSE] /\ lock' = lock
      BY <1>11 DEF RecStopped, RecRuns, RecTo, TypeOK
    <3>2. rec.on # {} /\ lock = "rec" /\ on = {}
      BY <1>11 DEF RecStopped, RecRuns, TypeOK, HandInv
    <3>3. {runs', gens', live', left'} \subseteq SUBSET Instances /\ rec.on \in SUBSET Instances
      BY <1>11 DEF RecStopped, TypeOK
    <3> QED BY <1>11, <3>1, <3>2, <3>3, RecStepTypes DEF RecStopped
  <2>2. DependenciesUp' /\ TornDownInOrder' /\ PhaseInv'
    BY <1>11 DEF RecStopped, RecRuns, RecTo, RecOnly, TypeOK, DependenciesUp, TornDownInOrder, PhaseInv
  <2>3. NothingLeftRunning' /\ HandInv' /\ TableInv'
    BY <1>11 DEF RecStopped, RecRuns, RecTo, RecOnly, TypeOK, TornDownInOrder, NothingLeftRunning,
       PhaseInv, HandInv, TableInv
  <2> QED BY <2>1, <2>2, <2>3
<1>12. CASE RecStopFails
  <2>1. TypeOK'
    <3>1. rec' = [at |-> "act", on |-> {}, abort |-> FALSE]
      BY <1>12 DEF RecStopFails, RecRuns, RecOnly, TypeOK
    <3>2. rec.on # {} /\ lock = "rec" /\ on = {}
      BY <1>12 DEF RecStopFails, RecRuns, RecOnly, TypeOK, HandInv
    <3>3. {runs', gens', live', left'} \subseteq SUBSET Instances
      BY <1>12 DEF RecStopFails, TypeOK
    <3> QED BY <1>12, <3>1, <3>2, <3>3, RecStepTypes DEF RecStopFails
  <2>2. DependenciesUp' /\ TornDownInOrder' /\ PhaseInv'
    BY <1>12 DEF RecStopFails, RecRuns, RecOnly, TypeOK, DependenciesUp, TornDownInOrder, PhaseInv
  <2>3. NothingLeftRunning' /\ HandInv' /\ TableInv'
    BY <1>12 DEF RecStopFails, RecRuns, RecOnly, TypeOK, TornDownInOrder, NothingLeftRunning,
       PhaseInv, HandInv, TableInv
  <2> QED BY <2>1, <2>2, <2>3
<1> QED BY <1>1, <1>2, <1>3, <1>4, <1>5, <1>6, <1>7, <1>8, <1>9, <1>10, <1>11, <1>12 DEF Round

\* main.rs: the abort takes effect, wherever the task is; a daemon may end at any time.
LEMMA AbortPreserves ==
  ASSUME IInv, RecAborted \/ (\E i \in Instances : SvcExits(i))
  PROVE  IInv'
<1> USE FromLayers DEF tasks, table, clients, Open, Busy, Booting, IInv, Inv
<1>1. CASE RecAborted
  <2>1. TypeOK'
    <3>1. rec' = [at |-> "gone", on |-> {}, abort |-> TRUE]
      BY <1>1 DEF RecAborted, TypeOK
    <3>2. live' \subseteq Instances /\ left' \subseteq Instances
      BY <1>1 DEF RecAborted, TypeOK
    <3>3. lock' \in {"free", "main"} /\ (lock' = "main" <=> on # {})
      BY <1>1 DEF RecAborted, TypeOK
    <3>4. runs' \in SUBSET Instances /\ gens' \in SUBSET Instances
      BY <1>1 DEF RecAborted, TypeOK
    <3> QED BY <1>1, <3>1, <3>2, <3>3, <3>4, RecStepTypes DEF RecAborted
  <2>2. DependenciesUp' /\ TornDownInOrder' /\ PhaseInv'
    BY <1>1 DEF RecAborted, RecOnly, TypeOK, DependenciesUp, TornDownInOrder, PhaseInv
  <2>3. NothingLeftRunning' /\ HandInv' /\ TableInv'
    BY <1>1 DEF RecAborted, RecOnly, TypeOK, TornDownInOrder, NothingLeftRunning,
       PhaseInv, HandInv, TableInv
  <2> QED BY <2>1, <2>2, <2>3
<1>2. ASSUME NEW i \in Instances, SvcExits(i)
      PROVE  IInv'
  <2>1. TypeOK'
    BY <1>2 DEF SvcExits, TypeOK
  <2>2. DependenciesUp' /\ TornDownInOrder' /\ PhaseInv'
    BY <1>2 DEF SvcExits, TypeOK, DependenciesUp, TornDownInOrder, PhaseInv
  <2>3. NothingLeftRunning' /\ HandInv' /\ TableInv'
    BY <1>2 DEF SvcExits, TypeOK, TornDownInOrder, NothingLeftRunning,
       PhaseInv, HandInv, TableInv
  <2> QED BY <2>1, <2>2, <2>3
<1> QED BY <1>1, <1>2

\* main.rs: the signal, the joins with their time-outs, and what follows stop_all.
LEMMA JoinPreserves ==
  ASSUME IInv, \/ Signal \/ Drained \/ JoinHealth \/ HealthTimeout \/ JoinRec \/ RecTimeout
               \/ StopGateway \/ TailTimeout \/ Close \/ Killed
  PROVE  IInv'
<1> USE FromLayers DEF tasks, table, clients, Open, Busy, Booting, IInv, Inv
<1>1. CASE Signal \/ Drained \/ JoinHealth \/ JoinRec \/ TailTimeout
  <2>1. TypeOK'
    BY <1>1 DEF Signal, Drained, JoinHealth, JoinRec, TailTimeout, TypeOK
  <2>2. DependenciesUp' /\ TornDownInOrder' /\ PhaseInv'
    BY <1>1 DEF Signal, Drained, JoinHealth, JoinRec, TailTimeout, TypeOK, DependenciesUp, TornDownInOrder, PhaseInv
  <2>3. NothingLeftRunning' /\ HandInv' /\ TableInv'
    BY <1>1 DEF Signal, Drained, JoinHealth, JoinRec, TailTimeout, TypeOK, TornDownInOrder, NothingLeftRunning,
       PhaseInv, HandInv, TableInv
  <2> QED BY <2>1, <2>2, <2>3
<1>2. CASE HealthTimeout
  <2>1. TypeOK'
    BY <1>2 DEF HealthTimeout, TypeOK
  <2>2. DependenciesUp' /\ TornDownInOrder' /\ PhaseInv'
    BY <1>2 DEF HealthTimeout, TypeOK, DependenciesUp, TornDownInOrder, PhaseInv
  <2>3. NothingLeftRunning' /\ HandInv' /\ TableInv'
    BY <1>2 DEF HealthTimeout, TypeOK, TornDownInOrder, NothingLeftRunning,
       PhaseInv, HandInv, TableInv
  <2> QED BY <2>1, <2>2, <2>3
<1>3. CASE RecTimeout
  <2>1. TypeOK'
    BY <1>3 DEF RecTimeout, TypeOK
  <2>2. DependenciesUp' /\ TornDownInOrder' /\ PhaseInv'
    BY <1>3 DEF RecTimeout, TypeOK, DependenciesUp, TornDownInOrder, PhaseInv
  <2>3. NothingLeftRunning' /\ HandInv' /\ TableInv'
    BY <1>3 DEF RecTimeout, TypeOK, TornDownInOrder, NothingLeftRunning,
       PhaseInv, HandInv, TableInv
  <2> QED BY <2>1, <2>2, <2>3
<1>4. CASE StopGateway
  <2>1. TypeOK'
    BY <1>4 DEF StopGateway, TypeOK
  <2>2. DependenciesUp' /\ TornDownInOrder' /\ PhaseInv'
    BY <1>4 DEF StopGateway, TypeOK, DependenciesUp, TornDownInOrder, PhaseInv
  <2>3. NothingLeftRunning' /\ HandInv' /\ TableInv'
    BY <1>4 DEF StopGateway, TypeOK, TornDownInOrder, NothingLeftRunning,
       PhaseInv, HandInv, TableInv
  <2> QED BY <2>1, <2>2, <2>3
<1>5. CASE Close
  <2>1. TypeOK'
    BY <1>5 DEF Close, TypeOK
  <2>2. DependenciesUp' /\ TornDownInOrder' /\ PhaseInv'
    BY <1>5 DEF Close, TypeOK, DependenciesUp, TornDownInOrder, PhaseInv
  <2>3. NothingLeftRunning' /\ HandInv' /\ TableInv'
    BY <1>5 DEF Close, TypeOK, TornDownInOrder, NothingLeftRunning,
       PhaseInv, HandInv, TableInv
  <2> QED BY <2>1, <2>2, <2>3
<1>6. CASE Killed
  <2>1. TypeOK'
    BY <1>6, NoneOpen DEF Killed, Die, Signalled, TypeOK
  <2>2. DependenciesUp' /\ TornDownInOrder' /\ PhaseInv'
    BY <1>6, NoneOpen DEF Killed, Die, Signalled, TypeOK, DependenciesUp, TornDownInOrder, PhaseInv
  <2>3. NothingLeftRunning' /\ HandInv' /\ TableInv'
    BY <1>6, NoneOpen DEF Killed, Die, Signalled, TypeOK, TornDownInOrder, NothingLeftRunning,
       PhaseInv, HandInv, TableInv
  <2> QED BY <2>1, <2>2, <2>3
<1> QED BY <1>1, <1>2, <1>3, <1>4, <1>5, <1>6

\* runtime/manager.rs, stop_all: one instance at a time, or all given up at the deadline.
LEMMA StopAllPreserves ==
  ASSUME IInv, \/ \E i \in Instances : StopOne(i)
               \/ StopOneDone \/ StopOneFails \/ StopAllDone \/ StopAllTimeout
  PROVE  IInv'
<1> USE FromLayers DEF tasks, table, clients, Open, Busy, Booting, IInv, Inv
<1>1. ASSUME NEW i \in Instances, StopOne(i)
      PROVE  IInv'
  <2>1. TypeOK'
    BY <1>1 DEF StopOne, TypeOK
  <2>2. DependenciesUp' /\ TornDownInOrder' /\ PhaseInv'
    BY <1>1 DEF StopOne, TypeOK, DependenciesUp, TornDownInOrder, PhaseInv
  <2>3. NothingLeftRunning' /\ HandInv' /\ TableInv'
    BY <1>1 DEF StopOne, TypeOK, TornDownInOrder, NothingLeftRunning,
       PhaseInv, HandInv, TableInv
  <2> QED BY <2>1, <2>2, <2>3
<1>2. CASE StopOneDone
  <2>1. TypeOK'
    BY <1>2 DEF StopOneDone, TypeOK
  <2>2. DependenciesUp' /\ TornDownInOrder' /\ PhaseInv'
    BY <1>2 DEF StopOneDone, TypeOK, DependenciesUp, TornDownInOrder, PhaseInv
  <2>3. NothingLeftRunning' /\ HandInv' /\ TableInv'
    BY <1>2 DEF StopOneDone, TypeOK, TornDownInOrder, NothingLeftRunning,
       PhaseInv, HandInv, TableInv
  <2> QED BY <2>1, <2>2, <2>3
<1>3. CASE StopOneFails
  <2>1. TypeOK'
    BY <1>3 DEF StopOneFails, TypeOK
  <2>2. DependenciesUp' /\ TornDownInOrder' /\ PhaseInv'
    BY <1>3 DEF StopOneFails, TypeOK, DependenciesUp, TornDownInOrder, PhaseInv
  <2>3. NothingLeftRunning' /\ HandInv' /\ TableInv'
    BY <1>3 DEF StopOneFails, TypeOK, TornDownInOrder, NothingLeftRunning,
       PhaseInv, HandInv, TableInv
  <2> QED BY <2>1, <2>2, <2>3
<1>4. CASE StopAllDone
  <2>1. TypeOK'
    BY <1>4 DEF StopAllDone, TypeOK
  <2>2. DependenciesUp' /\ TornDownInOrder' /\ PhaseInv'
    BY <1>4 DEF StopAllDone, TypeOK, DependenciesUp, TornDownInOrder, PhaseInv
  <2>3. NothingLeftRunning' /\ HandInv' /\ TableInv'
    BY <1>4 DEF StopAllDone, TypeOK, TornDownInOrder, NothingLeftRunning,
       PhaseInv, HandInv, TableInv
  <2> QED BY <2>1, <2>2, <2>3
<1>5. CASE StopAllTimeout
  <2>1. TypeOK'
    BY <1>5 DEF StopAllTimeout, TypeOK
  <2>2. DependenciesUp' /\ TornDownInOrder' /\ PhaseInv'
    BY <1>5 DEF StopAllTimeout, TypeOK, DependenciesUp, TornDownInOrder, PhaseInv
  <2>3. NothingLeftRunning' /\ HandInv' /\ TableInv'
    BY <1>5 DEF StopAllTimeout, TypeOK, TornDownInOrder, NothingLeftRunning,
       PhaseInv, HandInv, TableInv
  <2> QED BY <2>1, <2>2, <2>3
<1> QED BY <1>1, <1>2, <1>3, <1>4, <1>5

\* Every step keeps the inductive invariant.
LEMMA NextPreserves ==
  ASSUME IInv, [Next]_vars
  PROVE  IInv'
<1>1. CASE UNCHANGED vars
  BY <1>1 DEF vars, tasks, table, clients, Open, Busy, IInv, Inv, TypeOK, DependenciesUp,
     TornDownInOrder,
     NothingLeftRunning, PhaseInv, HandInv, TableInv
<1> QED BY <1>1, BootPreserves, ClientPreserves, HealthPreserves, RoundPreserves, AbortPreserves,
    JoinPreserves, StopAllPreserves DEF Next, Teardown

\* main.rs: nothing is there when the process begins.
LEMMA InitEstablishes == Init => IInv
<1> USE FromLayers, BoundsAssumption
<1>1. NoRequests \in [Phases -> Nat] /\ (Init => requests = NoRequests /\ Open = 0 /\ ~Busy)
  BY DEF NoRequests, Phases, Open, Busy, Init
<1> QED BY <1>1 DEF Init, Booting, IInv, Inv, TypeOK, DependenciesUp, TornDownInOrder,
   NothingLeftRunning, PhaseInv, HandInv, TableInv

\* The strengthened invariant holds in every reachable state of the process.
THEOREM ServerInvariance == Spec => []IInv
BY InitEstablishes, NextPreserves, PTL DEF Spec

\* main.rs: nothing works without what it uses, the layers go one after the other, and
\* behind stop_all no daemon runs but the ones that a time-out, an abort or a failed
\* stop gave up, however many instances a round was in the middle of.
THEOREM NothingIsLeftRunning == Spec => []Inv
<1>1. IInv => Inv
  BY DEF IInv
<1> QED BY <1>1, ServerInvariance, PTL

\* main.rs, from stop_all on: no step starts a daemon, unless the round was aborted in
\* the middle of one.
THEOREM NothingStartsBehindStopAll == Spec => NoStartBehindStopAll
<1>1. ASSUME IInv, Next, pc \in From("stop_all"), ~rec.abort
      PROVE  live' \subseteq live
  <2>1. rec.at = "gone"
    BY <1>1, FromLayers DEF IInv, Inv, TornDownInOrder
  <2>2. ~Round /\ ~RecAborted
    BY <1>1, <2>1 DEF Round, RecRuns, RecRound, RecExit, RecList, RecDone, RecStart, RecStop,
       RecSpawn, RecSpawnFails, RecStarted, RecStartFails, RecStopped, RecStopFails, RecAborted
  <2>3. CASE Killed \/ Panic
    BY <2>3 DEF Killed, Panic, Die
  <2>4. CASE Boot \/ Client \/ HealthProbe \/ HealthVerdict \/ HealthExit \/ Signal
    BY <2>4 DEF Boot, Connect, LoadKey, SpawnHealth, SpawnGateway, SpawnReconciler, Bind, Client,
       Accept, Received, Respond, Leave, Subscribe, HangUp, HealthProbe, HealthVerdict, HealthExit, Signal, table
  <2>5. CASE Teardown \/ \E i \in Instances : SvcExits(i)
    BY <2>5 DEF Teardown, Drained, JoinHealth, HealthTimeout, JoinRec, RecTimeout, StopGateway,
       StopOne, StopOneDone, StopOneFails, StopAllDone, StopAllTimeout, TailTimeout, Close,
       SvcExits, table
  <2> QED BY <1>1, <2>2, <2>3, <2>4, <2>5 DEF Next
<1>2. IInv /\ [Next]_vars =>
        [(pc \in From("stop_all") /\ ~rec.abort) => live' \subseteq live]_vars
  BY <1>1
<1> QED BY <1>2, ServerInvariance, PTL DEF Spec, NoStartBehindStopAll
=============================================================================
