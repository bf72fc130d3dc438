------------------------------ MODULE Lifecycle ------------------------------
(***************************************************************************)
(* What the instance manager promises to everybody who looks at an         *)
(* instance: the state that is shown, whether a warp-svc process of the    *)
(* instance is alive, and whether the data plane of the present process    *)
(* was ever seen up.  No lock, no watcher, no generation and no snapshot:  *)
(* InstanceManager has those, and is shown to implement this.              *)
(***************************************************************************)
CONSTANT Ids

VARIABLES state,   \* what the registry shows
          alive,   \* a process of the instance is alive
          seen     \* the present process was seen up with warp=on

vars == <<state, alive, seen>>

InService == {"Healthy", "Degraded"}

Init ==
    /\ state = [i \in Ids |-> "Absent"]
    /\ alive = [i \in Ids |-> FALSE]
    /\ seen = [i \in Ids |-> FALSE]

To(i, s) == state' = [state EXCEPT ![i] = s]

Appears(i) == state[i] = "Absent" /\ To(i, "Stopped") /\ UNCHANGED <<alive, seen>>

\* A start begins when nothing is in service and no process is left.
Begins(i) ==
    /\ state[i] \notin InService /\ ~alive[i]
    /\ \E s \in {"Starting", "Failed"} : To(i, s)
    /\ seen' = [seen EXCEPT ![i] = FALSE]
    /\ UNCHANGED alive

\* The one process of this start.
Launches(i) ==
    /\ state[i] \in {"Starting", "Failed"} /\ ~alive[i]
    /\ alive' = [alive EXCEPT ![i] = TRUE]
    /\ UNCHANGED <<state, seen>>

\* The start has its process and its pid.
Runs(i) == state[i] \in {"Starting", "Failed"} /\ To(i, "Starting") /\ UNCHANGED <<alive, seen>>

\* A start that fails leaves no process.
GivesUp(i) ==
    /\ state[i] \in {"Starting", "Failed"} /\ To(i, "Failed")
    /\ alive' = [alive EXCEPT ![i] = FALSE]
    /\ UNCHANGED seen

\* Only a process that is alive is seen up.
SeenUp(i) ==
    /\ alive[i] /\ seen' = [seen EXCEPT ![i] = TRUE]
    /\ UNCHANGED <<state, alive>>

\* The end of a start puts the instance into service: Healthy if it was seen up.
Enters(i) ==
    /\ state[i] \in {"Starting", "Failed"}
    /\ \E s \in InService : To(i, s) /\ (s = "Healthy" => seen[i])
    /\ UNCHANGED <<alive, seen>>

\* A verdict moves an instance that is in service, and no other.
Judged(i) ==
    /\ state[i] \in InService
    /\ \E s \in InService \cup {"Failed"} : To(i, s) /\ (s = "Healthy" => seen'[i])
    /\ \/ UNCHANGED seen
       \/ alive[i] /\ seen' = [seen EXCEPT ![i] = TRUE]
    /\ UNCHANGED alive

\* The process ends, by itself or because it is stopped ...
Dies(i) ==
    /\ alive[i] /\ alive' = [alive EXCEPT ![i] = FALSE]
    /\ UNCHANGED <<state, seen>>

\* ... and a crash is reported of a process that is gone.
CrashShown(i) ==
    /\ state[i] # "Absent" /\ ~alive[i] /\ To(i, "Failed")
    /\ UNCHANGED <<alive, seen>>

StopBegins(i) == state[i] # "Absent" /\ To(i, "Stopping") /\ UNCHANGED <<alive, seen>>

\* Stopped, or no longer there: out of service, and no process is left.
Settles(i) ==
    /\ state[i] \notin InService /\ ~alive[i]
    /\ \E s \in {"Stopped", "Absent"} : To(i, s)
    /\ UNCHANGED <<alive, seen>>

Next ==
    \E i \in Ids :
        \/ Appears(i) \/ Begins(i) \/ Launches(i) \/ Runs(i) \/ GivesUp(i) \/ SeenUp(i)
        \/ Enters(i) \/ Judged(i) \/ Dies(i) \/ CrashShown(i) \/ StopBegins(i) \/ Settles(i)

Spec == Init /\ [][Next]_vars
=============================================================================
