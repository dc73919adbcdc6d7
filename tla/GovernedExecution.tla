-------------------------- MODULE GovernedExecution --------------------------
(***************************************************************************)
(* One governed execution of an IDEMPOTENT tool with a key: _arun_admitted *)
(* in runtime.py from the acquisition of the key to the answer the caller  *)
(* gets, over the durable authority.                                       *)
(*                                                                         *)
(* An invocation that becomes the owner of a key is named by the execution *)
(* record it created.  An invocation that does not only reads the row, or  *)
(* expires a lapsed lease.  Any number of runtimes in any number of        *)
(* processes share the authority; a crash takes one invocation with it.    *)
(*                                                                         *)
(* A store operation runs on a worker thread.  Its caller waits for it     *)
(* with a timeout or until it is cancelled; an operation nobody waits for  *)
(* any more still runs, sooner or later (_run_critical_store_operation,    *)
(* _run_reconciliation_operation).                                         *)
(*                                                                         *)
(* The tool body is external.  Its contract is that of ExecutionMode       *)
(* IDEMPOTENT: a body that returns has taken effect, a body that raises    *)
(* has not and will not, and of a body nobody waits for nothing is known.  *)
(***************************************************************************)
EXTENDS Authority

CONSTANTS
    MaxAttempts,        \* RetryMiddleware.max_attempts; 1 without the middleware
    MiddlewareMayRaise  \* some execution middleware may raise after the tool returned

ASSUME MaxAttemptsAssumption == MaxAttempts \in Nat \ {0}
ASSUME MiddlewareAssumption == MiddlewareMayRaise \in BOOLEAN

VARIABLES
    stage,    \* where the invocation that owns a record is
    attempt,  \* RetryMiddleware.execute: the attempt it is in
    started,  \* execution_started
    verdict,  \* context.status when the outcome is settled
    ops,      \* store operations submitted to a worker and not yet run
    answer,   \* the status the caller was told
    running,  \* external: the attempts whose tool body may still act
    applied,  \* external: the attempts whose side effect has happened
    pruned    \* history: records deleted by prune_completed

runVars == <<stage, attempt, started, verdict, ops, answer>>
effectVars == <<running, applied>>
vars == <<dbVars, runVars, effectVars, pruned>>

-----------------------------------------------------------------------------
Stages ==
    {"none", "claimed", "preparing", "dispatched", "finishing", "settling",
     "done", "crashed"}

Statuses == {"SUCCEEDED", "FAILED", "DENIED", "UNKNOWN"}

Operations == {"complete", "fail", "unknown"}

Init ==
    /\ AuthorityInit
    /\ stage = [r \in Records |-> "none"]
    /\ attempt = [r \in Records |-> 0]
    /\ started = [r \in Records |-> FALSE]
    /\ verdict = [r \in Records |-> "none"]
    /\ ops = [r \in Records |-> {}]
    /\ answer = [r \in Records |-> "none"]
    /\ running = [r \in Records |-> {}]
    /\ applied = [r \in Records |-> {}]
    /\ pruned = {}

\* Mutant: an unknown outcome is failed like any other error.
FailUnlessSucceeded(status) ==
    IF status = "SUCCEEDED" THEN "complete" ELSE "fail"

\* _finish_idempotency: the operation that records a status.
OperationFor(status) ==
    IF status = "SUCCEEDED" THEN "complete"
    ELSE IF status = "UNKNOWN" THEN "unknown" ELSE "fail"

\* The invocation submits the operation for a status and waits for it, in
\* stage "finishing" inside the try block and "settling" in its handlers.
Submit(r, s, status) ==
    /\ stage' = [stage EXCEPT ![r] = s]
    /\ verdict' = [verdict EXCEPT ![r] = status]
    /\ ops' = [ops EXCEPT ![r] = @ \cup {OperationFor(status)}]
    /\ UNCHANGED <<attempt, started, answer>>

\* The invocation is over, and its local variables are gone.
Leave(r, s, status) ==
    /\ stage' = [stage EXCEPT ![r] = s]
    /\ answer' = [answer EXCEPT ![r] = status]
    /\ attempt' = [attempt EXCEPT ![r] = 0]
    /\ started' = [started EXCEPT ![r] = FALSE]
    /\ verdict' = [verdict EXCEPT ![r] = "none"]

\* What the caller is told of a status once it is settled: a critical observer
\* that fails makes it unknown unless the request was denied, and a caller
\* that gives up meanwhile is told nothing.
Told(status) ==
    {status, "none"} \cup (IF status = "DENIED" THEN {} ELSE {"UNKNOWN"})

Answer(r, status) == \E told \in Told(status) : Leave(r, "done", told)

-----------------------------------------------------------------------------
\* _acquire_idempotency

AcquireOwner(r, k, f) ==
    /\ Claim(r, k, f)
    /\ stage' = [stage EXCEPT ![r] = "claimed"]
    /\ UNCHANGED <<attempt, started, verdict, ops, answer, effectVars, pruned>>

\* The request timed out or was cancelled before the worker committed the
\* claim: settle_orphaned_claim records it as unknown.
AcquireOrphaned(r, k, f) ==
    /\ Claim(r, k, f)
    /\ \E status \in {"UNKNOWN", "FAILED"} : Answer(r, status)
    /\ ops' = [ops EXCEPT ![r] = {"unknown"}]
    /\ UNCHANGED <<effectVars, pruned>>

\* The request was cancelled just after the claim was committed: nobody
\* holds the claim any more.
AcquireDropped(r, k, f) ==
    /\ Claim(r, k, f)
    /\ Answer(r, "FAILED")
    /\ UNCHANGED <<ops, effectVars, pruned>>

\* Another caller finds the lease lapsed and is told the outcome is unknown.
AcquireExpired(r, k, f) ==
    /\ ExpireLease(r, k, f)
    /\ UNCHANGED <<runVars, effectVars, pruned>>

-----------------------------------------------------------------------------
\* From the claim to the tool body.

\* _commit_approvals denies: the claim is failed inside the try block.
DeniedAtCommit(r) ==
    /\ stage[r] = "claimed"
    /\ Submit(r, "finishing", "DENIED")
    /\ UNCHANGED <<dbVars, effectVars, pruned>>

StartExecution(r) ==
    /\ stage[r] = "claimed"
    /\ stage' = [stage EXCEPT ![r] = "preparing"]
    /\ attempt' = [attempt EXCEPT ![r] = 1]
    /\ UNCHANGED <<dbVars, started, verdict, ops, answer, effectVars, pruned>>

\* Mutant: the heartbeat takes back a row that has left 'pending'.
RenewRevives(r) ==
    /\ stage[r] \in {"preparing", "dispatched"}
    /\ Present(r)
    /\ rows' = [rows EXCEPT ![r].state = "pending", ![r].lease = "live"]
    /\ UNCHANGED <<issued, prepared, heads, attempts, outbox>>
    /\ UNCHANGED <<runVars, effectVars, pruned>>

\* heartbeat
RenewLease(r) ==
    /\ stage[r] \in {"preparing", "dispatched"}
    /\ Renew(r)
    /\ UNCHANGED <<runVars, effectVars, pruned>>

\* RetryMiddleware starts the next attempt.
RetryAttempt(r) ==
    /\ attempt[r] < MaxAttempts
    /\ stage' = [stage EXCEPT ![r] = "preparing"]
    /\ attempt' = [attempt EXCEPT ![r] = @ + 1]
    /\ UNCHANGED <<started, verdict, ops, answer>>

\* execute_tool fails before the body is submitted: an exception, a denial
\* by the boundary or the bound action, or a timeout.  RetryMiddleware
\* retries a timeout or a connection error.
PrepareFails(r) ==
    /\ stage[r] \in {"claimed", "preparing"}
    /\ \/ \E status \in {"FAILED", "UNKNOWN"} : Submit(r, "settling", status)
       \/ stage[r] = "preparing" /\ (Submit(r, "settling", "DENIED") \/ RetryAttempt(r))
    /\ UNCHANGED <<dbVars, effectVars, pruned>>

\* _run_sync_tool, _run_async_tool: the body is submitted.  Nothing checks
\* that the claim is still held.
Dispatch(r) ==
    /\ stage[r] = "preparing"
    /\ stage' = [stage EXCEPT ![r] = "dispatched"]
    /\ started' = [started EXCEPT ![r] = TRUE]
    /\ running' = [running EXCEPT ![r] = @ \cup {attempt[r]}]
    /\ UNCHANGED <<dbVars, attempt, verdict, ops, answer, applied, pruned>>

\* Mutant: a cancelled request is always a failed one.
CancelledMeansFailed(r) ==
    /\ stage[r] \in {"claimed", "preparing", "dispatched"}
    /\ Submit(r, "settling", "FAILED")
    /\ UNCHANGED <<dbVars, effectVars, pruned>>

\* The caller cancels the request.
Cancelled(r) ==
    /\ stage[r] \in {"claimed", "preparing", "dispatched"}
    /\ Submit(r, "settling", IF started[r] THEN "UNKNOWN" ELSE "FAILED")
    /\ UNCHANGED <<dbVars, effectVars, pruned>>

-----------------------------------------------------------------------------
\* The tool body.

\* The side effect of a body happens, whoever waits for the body.
BodyApplies(r, n) ==
    /\ n \in running[r] \ applied[r]
    /\ applied' = [applied EXCEPT ![r] = @ \cup {n}]
    /\ UNCHANGED <<dbVars, runVars, running, pruned>>

\* A body nobody waits for comes to its end.
BodyEnds(r, n) ==
    /\ n \in running[r]
    /\ ~ (stage[r] = "dispatched" /\ n = attempt[r])
    /\ running' = [running EXCEPT ![r] = @ \ {n}]
    /\ UNCHANGED <<dbVars, runVars, applied, pruned>>

\* The body returns.  A result that cannot be normalised, or a heartbeat
\* that failed, makes the outcome unknown.
BodyReturns(r) ==
    /\ stage[r] = "dispatched"
    /\ attempt[r] \in running[r] \cap applied[r]
    /\ running' = [running EXCEPT ![r] = @ \ {attempt[r]}]
    /\ Submit(r, "finishing", "SUCCEEDED") \/ Submit(r, "settling", "UNKNOWN")
    /\ UNCHANGED <<dbVars, applied, pruned>>

\* The body raises; RetryMiddleware retries a ConnectionError.
BodyRaises(r) ==
    /\ stage[r] = "dispatched"
    /\ attempt[r] \in running[r] \ applied[r]
    /\ running' = [running EXCEPT ![r] = @ \ {attempt[r]}]
    /\ Submit(r, "settling", "FAILED") \/ RetryAttempt(r)
    /\ UNCHANGED <<dbVars, applied, pruned>>

\* An execution middleware raises, or returns a context it may not, after
\* the tool returned: tool_returned is not set yet, so that is a failure.
MiddlewareRaises(r) ==
    /\ MiddlewareMayRaise
    /\ stage[r] = "dispatched"
    /\ attempt[r] \in running[r] \cap applied[r]
    /\ running' = [running EXCEPT ![r] = @ \ {attempt[r]}]
    /\ Submit(r, "settling", "FAILED")
    /\ UNCHANGED <<dbVars, applied, pruned>>

\* The execution deadline or TimeoutMiddleware stops waiting for the body,
\* which goes on.  RetryMiddleware retries the latter.
AttemptTimesOut(r) ==
    /\ stage[r] = "dispatched"
    /\ Submit(r, "settling", "UNKNOWN") \/ RetryAttempt(r)
    /\ UNCHANGED <<dbVars, effectVars, pruned>>

-----------------------------------------------------------------------------
\* Settling the outcome.

Waiting(r, op) ==
    stage[r] \in {"finishing", "settling"} /\ OperationFor(verdict[r]) = op

Transaction(r, op) ==
    CASE op = "complete" -> Complete(r)
      [] op = "fail" -> Fail(r)
      [] op = "unknown" -> RecordUnknown(r)

\* The awaited operation failed, was refused or did not answer in time.  In
\* the try block that leads to a handler, which settles the outcome again;
\* in a handler _settle_idempotency reports UNKNOWN unless it was denied.
OperationFailed(r, left) ==
    LET status == IF verdict[r] = "DENIED" THEN "DENIED" ELSE "UNKNOWN"
    IN  \/ /\ stage[r] = "finishing"
           /\ stage' = [stage EXCEPT ![r] = "settling"]
           /\ verdict' = [verdict EXCEPT ![r] = status]
           /\ ops' = [ops EXCEPT ![r] = left \cup {OperationFor(status)}]
           /\ UNCHANGED <<attempt, started, answer>>
        \/ /\ stage[r] = "settling"
           /\ Answer(r, status)
           /\ ops' = [ops EXCEPT ![r] = left]

\* A worker runs the transaction, and the row is still pending.
OperationCommits(r, op) ==
    /\ op \in ops[r]
    /\ Transaction(r, op)
    /\ IF Waiting(r, op)
       THEN Answer(r, verdict[r])
       ELSE UNCHANGED <<stage, attempt, started, verdict, answer>>
    /\ ops' = [ops EXCEPT ![r] = @ \ {op}]
    /\ UNCHANGED <<effectVars, pruned>>

\* Mutant: a transaction that updates no row is taken for a success.
RaiseIgnored(r, op) ==
    /\ op \in ops[r]
    /\ ops' = [ops EXCEPT ![r] = @ \ {op}]
    /\ IF Waiting(r, op)
       THEN Answer(r, verdict[r])
       ELSE UNCHANGED <<stage, attempt, started, verdict, answer>>
    /\ UNCHANGED <<dbVars, effectVars, pruned>>

\* The transaction raises: the row has left 'pending', or the database is
\* busy or broken.
OperationRaises(r, op) ==
    /\ op \in ops[r]
    /\ IF Waiting(r, op)
       THEN OperationFailed(r, ops[r] \ {op})
       ELSE /\ ops' = [ops EXCEPT ![r] = @ \ {op}]
            /\ UNCHANGED <<stage, attempt, started, verdict, answer>>
    /\ UNCHANGED <<dbVars, effectVars, pruned>>

\* Mutant: only the try block bounds its wait.
HandlerWaitsForever(r) ==
    /\ stage[r] = "finishing"
    /\ OperationFailed(r, ops[r])
    /\ UNCHANGED <<dbVars, effectVars, pruned>>

\* The caller stops waiting; the worker still has the operation.
OperationTimesOut(r) ==
    /\ stage[r] \in {"finishing", "settling"}
    /\ OperationFailed(r, ops[r])
    /\ UNCHANGED <<dbVars, effectVars, pruned>>

\* A cancellation while a handler settles leaves without an answer.
CancelledSettling(r) ==
    /\ stage[r] = "settling"
    /\ Leave(r, "done", "none")
    /\ UNCHANGED <<dbVars, ops, effectVars, pruned>>

\* The process dies.  What the body asked for may still happen.
Crash(r) ==
    /\ stage[r] \notin {"none", "crashed"}
    /\ Leave(r, "crashed", answer[r])
    /\ ops' = [ops EXCEPT ![r] = {}]
    /\ UNCHANGED <<dbVars, effectVars, pruned>>

-----------------------------------------------------------------------------
\* Reconciliation by any worker, and maintenance.

CanDispatch(r) == stage[r] \in {"claimed", "preparing", "dispatched"}

MayTakeEffect(r) == applied[r] # {} \/ running[r] # {}

\* What retry_safe asserts: nothing was applied, nothing runs that could,
\* and the invocation cannot dispatch any more.
RetrySafe(r) == ~ MayTakeEffect(r) /\ ~ CanDispatch(r)

\* Providers and operators conclude only what is the case.
Truthful(r, finding) ==
    /\ finding.state = "CONFIRMED_SUCCEEDED" => applied[r] # {}
    /\ finding.state = "CONFIRMED_NOT_APPLIED" => RetrySafe(r)

Reconcile(r) ==
    /\ \/ RecoverUnfinished(r)
       \/ \E finding \in Findings :
            Truthful(r, finding) /\ ManualTransition(r, heads[r].revision, finding)
       \/ \E a \in Attempts :
            \/ StartAttempt(r, a, heads[r].revision)
            \/ DeadlineLapses(r, a)
            \/ \E finding \in Findings \cup {NoFinding} :
                 \/ Truthful(r, finding) /\ FinishAttempt(r, a, heads[r].revision, finding)
                 \/ ProviderTransition(r, a, heads[r].revision, finding)
    /\ UNCHANGED <<runVars, effectVars, pruned>>

Prune(S) ==
    /\ PruneCompleted(S)
    /\ pruned' = pruned \cup S
    /\ UNCHANGED <<runVars, effectVars>>

Time(r) ==
    /\ LeaseLapses(r)
    /\ UNCHANGED <<runVars, effectVars, pruned>>

-----------------------------------------------------------------------------
Invocation(r) ==
    \/ \E k \in Keys, f \in Fingerprints :
         \/ AcquireOwner(r, k, f)
         \/ AcquireOrphaned(r, k, f)
         \/ AcquireDropped(r, k, f)
         \/ AcquireExpired(r, k, f)
    \/ DeniedAtCommit(r)
    \/ StartExecution(r)
    \/ RenewLease(r)
    \/ PrepareFails(r)
    \/ Dispatch(r)
    \/ Cancelled(r)
    \/ BodyReturns(r)
    \/ BodyRaises(r)
    \/ MiddlewareRaises(r)
    \/ AttemptTimesOut(r)
    \/ \E op \in Operations : OperationCommits(r, op) \/ OperationRaises(r, op)
    \/ OperationTimesOut(r)
    \/ CancelledSettling(r)
    \/ Crash(r)

Effect(r) == \E n \in 1..MaxAttempts : BodyApplies(r, n) \/ BodyEnds(r, n)

Next ==
    \/ \E r \in Records : Invocation(r) \/ Effect(r) \/ Reconcile(r) \/ Time(r)
    \/ \E S \in SUBSET Records : Prune(S)

Spec == Init /\ [][Next]_vars

\* The event loop keeps running: every stage of an invocation is bounded by
\* a timeout.  Nothing is assumed of tool bodies, workers or the database.
Fairness ==
    \A r \in Records :
      /\ WF_vars(StartExecution(r) \/ PrepareFails(r) \/ Dispatch(r))
      /\ WF_vars(AttemptTimesOut(r))
      /\ WF_vars(OperationTimesOut(r))

FairSpec == Spec /\ Fairness

-----------------------------------------------------------------------------
\* The variables of the runtime have the values the code gives them.
TypeOK ==
    /\ AuthorityTypeOK
    /\ stage \in [Records -> Stages]
    /\ attempt \in [Records -> 0..MaxAttempts]
    /\ started \in [Records -> BOOLEAN]
    /\ verdict \in [Records -> Statuses \cup {"none"}]
    /\ ops \in [Records -> SUBSET Operations]
    /\ answer \in [Records -> Statuses \cup {"none"}]
    /\ running \in [Records -> SUBSET (1..MaxAttempts)]
    /\ applied \in [Records -> SUBSET (1..MaxAttempts)]
    /\ pruned \subseteq Records

\* A row that keeps its key from being taken again.
Blocking(r) == rows[r].state \notin {"absent", "not_applied"}

\* README: "A side effect with an uncertain outcome is recorded as UNKNOWN,
\* and automatic reuse stays blocked while that idempotency record is
\* retained": as long as a body may still act, or has acted, the row of its
\* execution keeps the key from being taken again, unless prune_completed
\* deleted it.
UncertainStaysBlocked ==
    \A r \in Records : MayTakeEffect(r) => Blocking(r) \/ r \in pruned

\* No two executions of one key can both take effect, whatever times out,
\* crashes, loses its lease or is reconciled in between.
OneEffectPerKey ==
    \A r, s \in Records :
      r # s /\ Present(r) /\ Present(s) /\ rows[r].key = rows[s].key =>
        ~ (MayTakeEffect(r) /\ MayTakeEffect(s))

\* A caller who was told FAILED or DENIED can rely on it: the body of that
\* invocation has had no effect and will not have one later.
FailureIsDefinite ==
    \A r \in Records : answer[r] \in {"FAILED", "DENIED"} => RetrySafe(r)

\* A stored success is real, and a caller told SUCCEEDED finds it stored:
\* a late complete never stores a result the tool did not produce.
SuccessIsRecorded ==
    \A r \in Records :
      /\ rows[r].state \in {"completed", "applied_no_result"} => applied[r] # {}
      /\ answer[r] = "SUCCEEDED" => rows[r].state = "completed" \/ r \in pruned

\* Every step of the runtime is a transaction of the authority or leaves
\* the database alone.
RefinesAuthority == AuthoritySpec

\* Every invocation that owns a key comes to an end, even if its tool never
\* returns and its store never answers.
EventuallyAnswered ==
    \A r \in Records : stage[r] = "claimed" ~> stage[r] \in {"done", "crashed"}

\* Why the properties above are inductive when a body is dispatched once and
\* no middleware raises after it: until the outcome is settled the row stays
\* with its owner or becomes unknown; fail is only ever submitted, and
\* NOT_APPLIED only ever found, when nothing was applied and nothing can be;
\* complete is only submitted for what was applied.
RecordInv(r) ==
    /\ r \notin issued =>
         stage[r] = "none" /\ ops[r] = {} /\ answer[r] = "none" /\ ~ MayTakeEffect(r)
    /\ CanDispatch(r) =>
         (Blocking(r) \/ r \in pruned) /\ ops[r] = {} /\ answer[r] = "none"
    /\ stage[r] \in {"claimed", "preparing"} => ~ MayTakeEffect(r)
    /\ stage[r] \in {"preparing", "dispatched"} => attempt[r] = MaxAttempts
    /\ stage[r] = "dispatched" => started[r]
    /\ stage[r] = "finishing" => verdict[r] \in {"SUCCEEDED", "DENIED"}
    /\ stage[r] = "settling" => verdict[r] \in {"FAILED", "DENIED", "UNKNOWN"}
    /\ stage[r] \in {"finishing", "settling"} /\ verdict[r] \in {"FAILED", "DENIED"} =>
         RetrySafe(r)
    /\ stage[r] = "finishing" /\ verdict[r] = "SUCCEEDED" => applied[r] # {}
    /\ "fail" \in ops[r] => RetrySafe(r)
    /\ "complete" \in ops[r] => applied[r] # {}
    /\ \A a \in Attempts : Truthful(r, attempts[r][a].finding)
    /\ MayTakeEffect(r) => Blocking(r) \/ r \in pruned
    /\ answer[r] \in {"FAILED", "DENIED"} => RetrySafe(r)
    /\ rows[r].state \in {"completed", "applied_no_result"} => applied[r] # {}
    /\ answer[r] = "SUCCEEDED" => rows[r].state = "completed" \/ r \in pruned
    /\ r \in pruned => rows[r].state = "absent" /\ r \in issued

ExecutionInv == TypeOK /\ \A r \in Records : RecordInv(r)
=============================================================================
