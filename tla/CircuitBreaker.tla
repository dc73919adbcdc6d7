--------------------------- MODULE CircuitBreaker ---------------------------
(***************************************************************************)
(* CircuitBreaker: failures in a row open the circuit, which refuses calls  *)
(* until the recovery time has passed and then lets one probe through.  A   *)
(* call is admitted under the lock, runs outside it and reports under the   *)
(* lock again, so the report of a call that was admitted long ago meets     *)
(* whatever the circuit has become meanwhile; the breaker does not tell     *)
(* such a report from the probe's.                                          *)
(***************************************************************************)
EXTENDS Naturals, FiniteSets

CONSTANTS
    Calls,              \* calls of the dependency
    FailureThreshold    \* failure_threshold; 0 would switch the breaker off

ASSUME CircuitConstants == IsFiniteSet(Calls) /\ FailureThreshold \in Nat \ {0}

VARIABLES
    failures,           \* _failures
    opened,             \* _opened_at: never, or whether the recovery time has passed
    probe,              \* _probe_in_flight
    call,               \* where each call is
    late                \* calls let in while closed that ended while open

circuitVars == <<failures, opened, probe, call, late>>

CircuitInit ==
    /\ failures = 0
    /\ opened = "never"
    /\ probe = FALSE
    /\ call = [c \in Calls |-> "new"]
    /\ late = {}

\* Mutant: a recovering circuit does not look for a probe under way.
BeforeCallUnguarded(c) ==
    /\ call[c] = "new"
    /\ call' = [call EXCEPT ![c] = CASE opened = "never" -> "running"
                                      [] opened = "ripe" -> "probing"
                                      [] OTHER -> "refused"]
    /\ probe' = (probe \/ call'[c] = "probing")
    /\ UNCHANGED <<failures, opened, late>>

\* _before_call()
BeforeCall(c) ==
    /\ call[c] = "new"
    /\ call' = [call EXCEPT ![c] = CASE opened = "never" -> "running"
                                      [] opened = "ripe" /\ ~probe -> "probing"
                                      [] OTHER -> "refused"]
    /\ probe' = (probe \/ call'[c] = "probing")
    /\ UNCHANGED <<failures, opened, late>>

\* A call ends; late remembers the ones admitted before the circuit opened.
End(c) ==
    /\ call[c] \in {"running", "probing"}
    /\ call' = [call EXCEPT ![c] = "ended"]
    /\ late' = IF call[c] = "running" /\ opened # "never" THEN late \cup {c} ELSE late

\* _record_success()
RecordSuccess(c) ==
    /\ End(c)
    /\ failures' = 0
    /\ opened' = "never"
    /\ probe' = FALSE

\* _record_failure(): past the threshold every failure restarts the recovery time.
RecordFailure(c) ==
    /\ End(c)
    /\ probe' = FALSE
    /\ failures' = failures + 1
    /\ opened' = IF failures' >= FailureThreshold THEN "fresh" ELSE opened

\* Mutant: cancellation is not accounted for at all.
RecordCancelledSilent(c) ==
    /\ End(c)
    /\ UNCHANGED <<failures, opened, probe>>

\* _record_cancelled()
RecordCancelled(c) ==
    /\ End(c)
    /\ probe' = FALSE
    /\ UNCHANGED <<failures, opened>>

\* monotonic() passes _opened_at + recovery_seconds.
Recover ==
    /\ opened = "fresh"
    /\ opened' = "ripe"
    /\ UNCHANGED <<failures, probe, call, late>>

Report(c) == RecordSuccess(c) \/ RecordFailure(c) \/ RecordCancelled(c)

CircuitNext == Recover \/ \E c \in Calls : BeforeCall(c) \/ Report(c)

CircuitSpec == CircuitInit /\ [][CircuitNext]_circuitVars

-----------------------------------------------------------------------------

Probing == {c \in Calls : call[c] = "probing"}

\* The circuit is open exactly while the threshold of failures was reached with no
\* success since, whichever order the reports came in; and the probe flag of an
\* open circuit always belongs to a call that will still report, so the circuit
\* cannot stay wedged (the comment in _await_result()).
CircuitFollowsReports ==
    /\ (opened # "never") = (failures >= FailureThreshold)
    /\ probe => opened # "never" /\ Probing # {}

\* One probe at a time, except that each call admitted before the circuit opened
\* and reporting after it can take the flag of a running probe and let one more in.
ProbeOverlapBounded == Cardinality(Probing) <= 1 + Cardinality(late)
=============================================================================
