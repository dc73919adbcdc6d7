---------------------------- MODULE MCResilience ----------------------------
(***************************************************************************)
(* The three guards around shared resources, each on its own: a behaviour   *)
(* is one of the bulkhead, one of the circuit breaker or one of the daemon  *)
(* executor, which share no state.                                          *)
(***************************************************************************)
EXTENDS Bulkhead, CircuitBreaker, DaemonExecutor

VARIABLE guard

allVars == <<guard, vars, circuitVars, executorVars>>

GuardInit ==
    /\ guard \in {"bulkhead", "circuit", "executor"}
    /\ Init /\ CircuitInit /\ ExecutorInit

GuardNext ==
    /\ UNCHANGED guard
    /\ \/ guard = "bulkhead" /\ Next /\ UNCHANGED <<circuitVars, executorVars>>
       \/ guard = "circuit" /\ CircuitNext /\ UNCHANGED <<vars, executorVars>>
       \/ guard = "executor" /\ ExecutorNext /\ UNCHANGED <<vars, circuitVars>>

GuardSpec == GuardInit /\ [][GuardNext]_allVars /\ Fairness /\ ExecutorFairness
=============================================================================
