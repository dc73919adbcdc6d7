-------------------------- MODULE MCReconciliation --------------------------
(* Two callers, in one process or in two, reconcile one execution with two     *)
(* attempts and one fault.                                                     *)
EXTENDS ReconciliationWorkers

CONSTANTS w1, w2, p1, p2

SomePlacements == {p \in [Calls -> Processes] : p[w1] = p1}

FairWorkersSpec == WorkersSpec /\ WorkersFairness
=============================================================================
