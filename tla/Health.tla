------------------------------- MODULE Health -------------------------------
(***************************************************************************)
(* The health verdict of one round (runtime/health.rs): three layers       *)
(* (process, control plane, data plane), two counters and two thresholds.  *)
(* Pure operators; the counters are u32 in the code and saturate.          *)
(***************************************************************************)
EXTENDS Naturals

CONSTANTS FailureThreshold,   \* HealthConfig.failure_threshold (3)
          RecoveryThreshold,  \* HealthConfig.recovery_success_threshold (2)
          CounterMax          \* where the counters saturate (u32::MAX)

\* assess_layers asserts both thresholds to be at least one.
ASSUME ThresholdAssumption ==
    /\ FailureThreshold \in Nat \ {0}
    /\ RecoveryThreshold \in Nat \ {0}
    /\ CounterMax \in Nat
    /\ CounterMax >= FailureThreshold
    /\ CounterMax >= RecoveryThreshold

Counter == 0 .. CounterMax

\* u32::saturating_add(1)
SaturatingInc(n) == IF n < CounterMax THEN n + 1 ELSE n

\* assess_layers: "alive" is the process layer, "up" is control_connected and
\* data_plane_ok together, "current" the state the snapshot was taken in.
AssessLayers(alive, up, current, failures, successes) ==
    IF ~alive
    THEN [state |-> "Failed", failures |-> SaturatingInc(failures), successes |-> 0]
    ELSE IF up
    THEN [state |-> IF \/ SaturatingInc(successes) >= RecoveryThreshold
                       \/ current = "Healthy"
                    THEN "Healthy" ELSE "Degraded",
          failures |-> 0, successes |-> SaturatingInc(successes)]
    ELSE [state |-> IF SaturatingInc(failures) >= FailureThreshold
                    THEN "Failed" ELSE "Degraded",
          failures |-> SaturatingInc(failures), successes |-> 0]
=============================================================================
