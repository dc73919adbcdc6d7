---------------------- MODULE GovernedExecutionProofs -----------------------
(***************************************************************************)
(* Governed executions implement the durable authority and report only the *)
(* successes that are stored and were applied, whatever the middleware.    *)
(* Without retries and without a middleware that raises after the tool     *)
(* returned, no key takes effect twice and an uncertain effect keeps its   *)
(* key blocked.  All of it for any records, keys and attempts.             *)
(***************************************************************************)
EXTENDS GovernedExecution, AuthorityProofs

USE ZenonT(40)

-----------------------------------------------------------------------------
\* The records a step does not concern keep their invariant.
Same(t) ==
  /\ rows'[t] = rows[t] /\ attempts'[t] = attempts[t]
  /\ stage'[t] = stage[t] /\ attempt'[t] = attempt[t] /\ started'[t] = started[t]
  /\ verdict'[t] = verdict[t] /\ ops'[t] = ops[t] /\ answer'[t] = answer[t]
  /\ running'[t] = running[t] /\ applied'[t] = applied[t]
  /\ t \in pruned' <=> t \in pruned

\* A record a step does not concern keeps its invariant.
LEMMA RecordFrame ==
  ASSUME NEW t \in Records, RecordInv(t), Same(t), issued \subseteq issued'
  PROVE  RecordInv(t)'
BY SMTT(30) DEF RecordInv, Same, CanDispatch, MayTakeEffect, RetrySafe, Blocking, Truthful

\* A step that concerns one record only has to re-establish that one.
LEMMA FrameInv ==
  ASSUME ExecutionInv, NEW r \in Records, TypeOK', RecordInv(r)',
         \A t \in Records : t # r => Same(t), issued \subseteq issued'
  PROVE  ExecutionInv'
BY RecordFrame DEF ExecutionInv

\* An invocation that could still dispatch submits the operation for a
\* status that is right for what its body has done.
LEMMA SubmitKeepsInv ==
  ASSUME ExecutionInv, NEW r \in Records, NEW s \in {"finishing", "settling"},
         NEW status \in Statuses, NEW left \in SUBSET running[r],
         CanDispatch(r), Submit(r, s, status),
         running' = [running EXCEPT ![r] = left],
         UNCHANGED <<dbVars, applied, pruned>>,
         s = "finishing" => status \in {"SUCCEEDED", "DENIED"},
         s = "settling" => status # "SUCCEEDED",
         status \in {"FAILED", "DENIED"} => applied[r] = {} /\ left = {},
         status = "SUCCEEDED" => applied[r] # {}
  PROVE  ExecutionInv'
<1> TypeOK /\ RecordInv(r)
  BY DEF ExecutionInv
<1>1. OperationFor(status) \in Operations
      /\ (OperationFor(status) = "fail" <=> status \in {"FAILED", "DENIED"})
      /\ (OperationFor(status) = "complete" <=> status = "SUCCEEDED")
  BY DEF OperationFor, Statuses, Operations
<1>2. TypeOK'
  BY <1>1 DEF TypeOK, AuthorityTypeOK, Submit, dbVars, Stages, Statuses
<1>3. \A t \in Records : t # r => Same(t)
  BY DEF Same, Submit, TypeOK, dbVars
<1>4. /\ stage'[r] = s /\ verdict'[r] = status /\ ops'[r] = ops[r] \cup {OperationFor(status)}
      /\ running'[r] = left /\ applied'[r] = applied[r] /\ answer'[r] = answer[r]
      /\ rows'[r] = rows[r] /\ attempts'[r] = attempts[r]
      /\ issued' = issued /\ pruned' = pruned
  BY DEF Submit, TypeOK, dbVars
<1>5. RecordInv(r)
  OBVIOUS
<1>6. r \in issued
  BY <1>5 DEF RecordInv, CanDispatch
<1>7. ops[r] = {} /\ (Blocking(r) \/ r \in pruned) /\ answer[r] = "none"
  BY <1>5 DEF RecordInv
<1>8. \A a \in Attempts : Truthful(r, attempts[r][a].finding)'
  BY <1>4, <1>5 DEF RecordInv, Truthful, RetrySafe
<1>9. RecordInv(r)'
  BY <1>1, <1>4, <1>5, <1>6, <1>7, <1>8
     DEF RecordInv, CanDispatch, MayTakeEffect, RetrySafe, Blocking, Statuses
<1>10. QED
  BY <1>2, <1>3, <1>4, <1>9, FrameInv

\* The steps that stop waiting for a body, or never dispatch it.
LEMMA SubmittingStepsKeepInv ==
  ASSUME MaxAttempts = 1, ~ MiddlewareMayRaise, ExecutionInv, NEW r \in Records,
         \/ DeniedAtCommit(r) \/ PrepareFails(r) \/ Cancelled(r) \/ BodyReturns(r)
         \/ BodyRaises(r) \/ MiddlewareRaises(r) \/ AttemptTimesOut(r)
  PROVE  ExecutionInv'
<1> TypeOK /\ RecordInv(r)
  BY DEF ExecutionInv
<1>1. RecordInv(r) /\ running[r] \subseteq {1} /\ applied[r] \subseteq {1}
  BY SMTT(30) DEF TypeOK
<1>2. running = [running EXCEPT ![r] = running[r]]
  BY DEF TypeOK
<1>3. ASSUME stage[r] \in {"preparing", "dispatched"}
      PROVE  attempt[r] = 1 /\ ~ RetryAttempt(r)
  BY <1>1, <1>3, SMTT(30) DEF RecordInv, RetryAttempt
<1>4. CASE DeniedAtCommit(r)
  <2>1. CanDispatch(r) /\ applied[r] = {} /\ running[r] = {}
    BY <1>1, <1>4 DEF DeniedAtCommit, RecordInv, CanDispatch, MayTakeEffect
  <2>2. Submit(r, "finishing", "DENIED") /\ UNCHANGED <<dbVars, running, applied, pruned>>
    BY <1>4 DEF DeniedAtCommit, effectVars
  <2>3. QED
    BY <1>2, <2>1, <2>2, SubmitKeepsInv DEF Statuses
<1>5. CASE PrepareFails(r)
  <2>1. CanDispatch(r) /\ applied[r] = {} /\ running[r] = {}
    BY <1>1, <1>5 DEF PrepareFails, RecordInv, CanDispatch, MayTakeEffect
  <2>2. PICK status \in {"FAILED", "UNKNOWN", "DENIED"} :
          Submit(r, "settling", status) /\ UNCHANGED <<dbVars, running, applied, pruned>>
    BY <1>3, <1>5 DEF PrepareFails, effectVars
  <2>3. /\ running' = [running EXCEPT ![r] = running[r]] /\ running[r] \in SUBSET running[r]
        /\ status \in Statuses /\ status # "SUCCEEDED"
    BY <1>2, <2>2 DEF Statuses
  <2>4. QED
    BY <2>1, <2>2, <2>3, SubmitKeepsInv
<1>6. CASE Cancelled(r)
  <2>1. CanDispatch(r)
    BY <1>6 DEF Cancelled, CanDispatch
  <2>2. ~ started[r] => applied[r] = {} /\ running[r] = {}
    BY <1>1, <1>6 DEF Cancelled, RecordInv, MayTakeEffect
  <2>3. PICK status \in {"FAILED", "UNKNOWN"} :
          /\ Submit(r, "settling", status) /\ UNCHANGED <<dbVars, running, applied, pruned>>
          /\ status = "FAILED" => ~ started[r]
    BY <1>6 DEF Cancelled, effectVars
  <2>4. QED
    BY <1>2, <2>1, <2>2, <2>3, SubmitKeepsInv, SMTT(30) DEF Statuses
<1>7. CASE BodyReturns(r)
  <2>1. CanDispatch(r) /\ applied[r] # {}
    BY <1>7 DEF BodyReturns, CanDispatch
  <2>2. /\ running' = [running EXCEPT ![r] = running[r] \ {attempt[r]}]
        /\ UNCHANGED <<dbVars, applied, pruned>>
    BY <1>7 DEF BodyReturns
  <2>3. CASE Submit(r, "finishing", "SUCCEEDED")
    BY <2>1, <2>2, <2>3, SubmitKeepsInv DEF Statuses
  <2>4. CASE Submit(r, "settling", "UNKNOWN")
    BY <2>1, <2>2, <2>4, SubmitKeepsInv DEF Statuses
  <2>5. QED
    BY <1>7, <2>3, <2>4 DEF BodyReturns
<1>8. CASE BodyRaises(r)
  <2>1. CanDispatch(r) /\ attempt[r] = 1 /\ 1 \notin applied[r]
    BY <1>3, <1>8 DEF BodyRaises, CanDispatch
  <2>2. applied[r] = {} /\ running[r] \ {attempt[r]} = {}
    BY <1>1, <2>1
  <2>3. /\ Submit(r, "settling", "FAILED")
        /\ running' = [running EXCEPT ![r] = running[r] \ {attempt[r]}]
        /\ UNCHANGED <<dbVars, applied, pruned>>
    BY <1>3, <1>8 DEF BodyRaises
  <2>4. QED
    BY <2>1, <2>2, <2>3, SubmitKeepsInv DEF Statuses
<1>9. CASE AttemptTimesOut(r)
  <2>1. CanDispatch(r)
    BY <1>9 DEF AttemptTimesOut, CanDispatch
  <2>2. Submit(r, "settling", "UNKNOWN") /\ UNCHANGED <<dbVars, running, applied, pruned>>
    BY <1>3, <1>9 DEF AttemptTimesOut, effectVars
  <2>3. QED
    BY <1>2, <2>1, <2>2, SubmitKeepsInv DEF Statuses
<1>10. QED
  BY <1>4, <1>5, <1>6, <1>7, <1>8, <1>9 DEF MiddlewareRaises

\* Entering execute_tool.
LEMMA StartExecutionKeepsInv ==
  ASSUME MaxAttempts = 1, ExecutionInv, NEW r \in Records, StartExecution(r)
  PROVE  ExecutionInv'
<1> TypeOK /\ RecordInv(r)
  BY DEF ExecutionInv
<1>1. TypeOK'
  BY SMTT(30) DEF TypeOK, AuthorityTypeOK, StartExecution, dbVars, effectVars, Stages
<1>2. \A t \in Records : t # r => Same(t)
  BY DEF Same, StartExecution, TypeOK, dbVars, effectVars
<1>3. /\ stage'[r] = "preparing" /\ attempt'[r] = 1 /\ stage[r] = "claimed"
      /\ UNCHANGED <<dbVars, started, verdict, ops, answer, running, applied, pruned>>
  BY DEF StartExecution, TypeOK, effectVars
<1>4. RecordInv(r)'
  BY <1>3
     DEF RecordInv, CanDispatch, MayTakeEffect, RetrySafe, Blocking, Truthful, dbVars
<1>5. QED
  BY <1>1, <1>2, <1>3, <1>4, FrameInv DEF dbVars

\* The body is submitted: from here on the row must keep its key blocked.
LEMMA DispatchKeepsInv ==
  ASSUME MaxAttempts = 1, ExecutionInv, NEW r \in Records, Dispatch(r)
  PROVE  ExecutionInv'
<1> TypeOK /\ RecordInv(r)
  BY DEF ExecutionInv
<1>1. RecordInv(r) /\ attempt[r] = 1
  BY DEF RecordInv, Dispatch
<1>2. TypeOK'
  BY <1>1, SMTT(30) DEF TypeOK, AuthorityTypeOK, Dispatch, dbVars, Stages
<1>3. \A t \in Records : t # r => Same(t)
  BY DEF Same, Dispatch, TypeOK, dbVars
<1>4. /\ stage'[r] = "dispatched" /\ started'[r] = TRUE /\ stage[r] = "preparing"
      /\ UNCHANGED <<dbVars, attempt, verdict, ops, answer, applied, pruned>>
  BY DEF Dispatch, TypeOK
<1>5. ~ RetrySafe(r) /\ (Blocking(r) \/ r \in pruned) /\ r \in issued /\ ops[r] = {} /\ answer[r] = "none"
  BY <1>1, <1>4 DEF RecordInv, RetrySafe, CanDispatch
<1>6. \A a \in Attempts : Truthful(r, attempts[r][a].finding)'
  BY <1>1, <1>4, <1>5 DEF RecordInv, Truthful, dbVars
<1>7. RecordInv(r)'
  BY <1>1, <1>4, <1>5, <1>6 DEF RecordInv, CanDispatch, MayTakeEffect, Blocking, dbVars
<1>8. QED
  BY <1>2, <1>3, <1>4, <1>7, FrameInv DEF dbVars

\* A body acts or ends: only while it was running, so never after the
\* execution became safe to retry.
LEMMA EffectKeepsInv ==
  ASSUME ExecutionInv, NEW r \in Records, Effect(r)
  PROVE  ExecutionInv'
<1> TypeOK /\ RecordInv(r)
  BY DEF ExecutionInv
<1>1. PICK n \in 1..MaxAttempts : BodyApplies(r, n) \/ BodyEnds(r, n)
  BY DEF Effect
<1>2. /\ n \in running[r] /\ UNCHANGED <<dbVars, runVars, pruned>>
      /\ \/ applied' = [applied EXCEPT ![r] = applied[r] \cup {n}] /\ running' = running
         \/ running' = [running EXCEPT ![r] = running[r] \ {n}] /\ applied' = applied
            /\ ~ (stage[r] = "dispatched" /\ n = attempt[r])
  BY <1>1 DEF BodyApplies, BodyEnds
<1>3. TypeOK'
  <2>1. /\ applied' \in [Records -> SUBSET (1..MaxAttempts)]
        /\ running' \in [Records -> SUBSET (1..MaxAttempts)]
    BY <1>2, SMTT(30) DEF TypeOK
  <2>2. QED
    BY <1>2, <2>1 DEF TypeOK, AuthorityTypeOK, dbVars, runVars
<1>4. \A t \in Records : t # r => Same(t)
  BY <1>2 DEF Same, TypeOK, dbVars, runVars
<1>5. /\ MayTakeEffect(r) /\ RecordInv(r) /\ applied[r] \subseteq applied'[r]
  BY <1>2, SMTT(30) DEF MayTakeEffect, TypeOK
<1>6. ~ RetrySafe(r) /\ stage[r] \notin {"claimed", "preparing"}
  BY <1>5 DEF RecordInv, RetrySafe
<1>7. \A a \in Attempts : Truthful(r, attempts[r][a].finding)'
  BY <1>2, <1>5, <1>6 DEF RecordInv, Truthful, dbVars
<1>8. RecordInv(r)'
  BY <1>2, <1>5, <1>6, <1>7, SMTT(30) DEF RecordInv, CanDispatch, Blocking, dbVars, runVars
<1>9. QED
  BY <1>2, <1>3, <1>4, <1>8, FrameInv DEF dbVars

\* An invocation that is over has lost its local variables.
LEMMA LeaveTyped ==
  ASSUME TypeOK, NEW r \in Records, NEW s \in {"done", "crashed"},
         NEW status \in Statuses \cup {"none"}, Leave(r, s, status)
  PROVE  /\ stage' \in [Records -> Stages]
         /\ attempt' \in [Records -> 0..MaxAttempts]
         /\ started' \in [Records -> BOOLEAN]
         /\ verdict' \in [Records -> Statuses \cup {"none"}]
         /\ answer' \in [Records -> Statuses \cup {"none"}]
BY MaxAttemptsAssumption, SMTT(30) DEF TypeOK, Leave, Stages

\* The three ways a claim is committed.
LEMMA AcquireKeepsInv ==
  ASSUME AuthorityInv, AuthorityTypeOK', ExecutionInv, NEW r \in Records, NEW k \in Keys,
         NEW f \in Fingerprints,
         AcquireOwner(r, k, f) \/ AcquireOrphaned(r, k, f) \/ AcquireDropped(r, k, f)
  PROVE  ExecutionInv'
<1> TypeOK /\ RecordInv(r)
  BY DEF ExecutionInv
<1>1. Claim(r, k, f) /\ UNCHANGED <<running, applied, pruned>>
  BY DEF AcquireOwner, AcquireOrphaned, AcquireDropped, effectVars
<1>2. /\ rows'[r].state = "pending" /\ \A t \in Records : t # r => rows'[t] = rows[t]
      /\ attempts' = attempts /\ issued' = issued \cup {r} /\ r \notin issued
  BY <1>1, SMTT(30) DEF Claim, AuthorityInv, AuthorityTypeOK
<1>3. /\ RecordInv(r) /\ stage[r] = "none" /\ ops[r] = {} /\ answer[r] = "none"
      /\ running[r] = {} /\ applied[r] = {} /\ r \notin pruned
  BY <1>2 DEF RecordInv, MayTakeEffect
<1>4. \A a \in Attempts : attempts[r][a].finding.state = "none"
  <2>1. IssuedCoversTables /\ AttemptsNeedHead
    BY DEF AuthorityInv
  <2>2. \A a \in Attempts : attempts[r][a] = NoAttempt
    BY <1>2, <2>1 DEF IssuedCoversTables, AttemptsNeedHead
  <2>3. QED
    BY <2>2, SMTT(30) DEF NoAttempt, NoFinding
<1>5. \A a \in Attempts : Truthful(r, attempts[r][a].finding)'
  BY <1>2, <1>4 DEF Truthful
<1>6. CASE AcquireOwner(r, k, f)
  <2>1. TypeOK'
    BY <1>6 DEF AcquireOwner, TypeOK, effectVars, Stages
  <2>2. \A t \in Records : t # r => Same(t)
    BY <1>2, <1>6 DEF AcquireOwner, Same, TypeOK, effectVars
  <2>3. RecordInv(r)'
    BY <1>1, <1>2, <1>3, <1>5, <1>6
       DEF AcquireOwner, RecordInv, CanDispatch, MayTakeEffect, Blocking, TypeOK
  <2>4. QED
    BY <1>2, <2>1, <2>2, <2>3, FrameInv
<1>7. CASE AcquireOrphaned(r, k, f) \/ AcquireDropped(r, k, f)
  <2>1. PICK status \in {"UNKNOWN", "FAILED", "none"}, o \in {{}, {"unknown"}} :
          Leave(r, "done", status) /\ ops' = [ops EXCEPT ![r] = o]
    <3>1. CASE AcquireOrphaned(r, k, f)
      BY <3>1 DEF AcquireOrphaned, Answer, Told
    <3>2. CASE AcquireDropped(r, k, f)
      <4>1. ops' = [ops EXCEPT ![r] = {}]
        BY <3>2, <1>3 DEF AcquireDropped, TypeOK
      <4>2. QED
        BY <3>2, <4>1 DEF AcquireDropped, Answer, Told
    <3>3. QED
      BY <1>7, <3>1, <3>2
  <2>2. TypeOK'
    <3>1. ops' \in [Records -> SUBSET Operations]
      BY <2>1 DEF TypeOK, Operations
    <3>2. QED
      BY <1>1, <2>1, <3>1, LeaveTyped DEF TypeOK, Statuses
  <2>3. \A t \in Records : t # r => Same(t)
    BY <1>1, <1>2, <2>1 DEF Leave, Same, TypeOK
  <2>4. stage'[r] = "done" /\ answer'[r] = status /\ ops'[r] = o
    BY <2>1 DEF Leave, TypeOK
  <2>5. RecordInv(r)'
    BY <1>1, <1>2, <1>3, <1>5, <2>4
       DEF RecordInv, CanDispatch, MayTakeEffect, RetrySafe, Blocking
  <2>6. QED
    BY <1>2, <2>2, <2>3, <2>5, FrameInv
<1>8. QED
  BY <1>6, <1>7

\* Steps that only rewrite the row of a pending execution: its lease, or
\* its state to unknown.
LEMMA RowStepsKeepInv ==
  ASSUME AuthorityInv, AuthorityTypeOK', ExecutionInv, NEW r \in Records,
         \/ \E k \in Keys, f \in Fingerprints : AcquireExpired(r, k, f)
         \/ RenewLease(r) \/ Time(r)
  PROVE  ExecutionInv'
<1> TypeOK /\ RecordInv(r)
  BY DEF ExecutionInv
<1>1. /\ UNCHANGED <<runVars, effectVars, pruned, issued, attempts>>
      /\ rows[r].state = "pending"
  BY DEF AcquireExpired, ExpireLease, RenewLease, Renew, Owned, Time, LeaseLapses
<1>2. rows'[r].state \in {"pending", "unknown"} /\ \A t \in Records : t # r => rows'[t] = rows[t]
  BY SMTT(30)
     DEF AcquireExpired, ExpireLease, SetRowState, RenewLease, Renew, Time, LeaseLapses, Owned,
         AuthorityInv, AuthorityTypeOK, Row
<1>3. TypeOK'
  BY <1>1 DEF TypeOK, runVars, effectVars
<1>4. \A t \in Records : t # r => Same(t)
  BY <1>1, <1>2 DEF Same, runVars, effectVars
<1>5. RecordInv(r)'
  BY <1>1, <1>2
     DEF RecordInv, CanDispatch, MayTakeEffect, RetrySafe, Blocking, Truthful, runVars, effectVars
<1>6. QED
  BY <1>1, <1>3, <1>4, <1>5, FrameInv

\* The invocation is over: it cannot dispatch, and what it answers is right.
LEMMA LeaveKeepsInv ==
  ASSUME ExecutionInv, NEW r \in Records, NEW s \in {"done", "crashed"},
         NEW status \in Statuses \cup {"none"}, NEW o \in SUBSET ops[r],
         r \in issued, Leave(r, s, status), ops' = [ops EXCEPT ![r] = o],
         UNCHANGED <<dbVars, effectVars, pruned>>,
         status \in {"FAILED", "DENIED"} => running[r] = {} /\ applied[r] = {},
         status = "SUCCEEDED" => rows[r].state = "completed" \/ r \in pruned
  PROVE  ExecutionInv'
<1> TypeOK /\ RecordInv(r)
  BY DEF ExecutionInv
<1>1. TypeOK'
  <2>1. ops' \in [Records -> SUBSET Operations]
    BY DEF TypeOK
  <2>2. AuthorityTypeOK'
    BY DEF TypeOK, AuthorityTypeOK, dbVars
  <2>3. QED
    BY <2>1, <2>2, LeaveTyped, SMTT(30) DEF TypeOK, effectVars
<1>2. \A t \in Records : t # r => Same(t)
  BY SMTT(30) DEF Leave, Same, TypeOK, dbVars, effectVars
<1>3. /\ stage'[r] = s /\ answer'[r] = status /\ ops'[r] = o
      /\ UNCHANGED <<dbVars, running, applied, pruned>>
  BY DEF Leave, TypeOK, effectVars
<1>4. \A a \in Attempts : Truthful(r, attempts[r][a].finding)'
  <2>1. RetrySafe(r) => RetrySafe(r)'
    BY <1>3 DEF RetrySafe, MayTakeEffect, CanDispatch
  <2>2. RecordInv(r) /\ attempts' = attempts
    BY <1>3 DEF dbVars
  <2>3. QED
    BY <1>3, <2>1, <2>2 DEF RecordInv, Truthful
<1>5. RecordInv(r)'
  BY <1>3, <1>4
     DEF RecordInv, CanDispatch, MayTakeEffect, RetrySafe, Blocking, dbVars
<1>6. QED
  BY <1>1, <1>2, <1>5, FrameInv DEF dbVars

\* The awaited operation failed: the outcome is settled again, or reported.
LEMMA OperationFailedKeepsInv ==
  ASSUME ExecutionInv, NEW r \in Records, NEW left \in SUBSET ops[r],
         OperationFailed(r, left), UNCHANGED <<dbVars, effectVars, pruned>>
  PROVE  ExecutionInv'
<1> TypeOK /\ RecordInv(r)
  BY DEF ExecutionInv
<1> DEFINE status == IF verdict[r] = "DENIED" THEN "DENIED" ELSE "UNKNOWN"
<1>1. RecordInv(r) /\ r \in issued /\ status \in {"DENIED", "UNKNOWN"}
  BY DEF RecordInv, OperationFailed
<1>2. stage[r] \in {"finishing", "settling"}
  BY DEF OperationFailed
<1>3. status = "DENIED" => RetrySafe(r) /\ running[r] = {} /\ applied[r] = {}
  BY <1>1, <1>2 DEF RecordInv, RetrySafe, MayTakeEffect
<1>4. CASE stage[r] = "settling"
  <2>1. Answer(r, status) /\ ops' = [ops EXCEPT ![r] = left]
    BY <1>4 DEF OperationFailed
  <2>2. PICK told \in Told(status) : Leave(r, "done", told)
    BY <2>1 DEF Answer
  <2>3. told \in {"DENIED", "UNKNOWN", "none"} /\ (told = "DENIED" => status = "DENIED")
    BY <1>1, <2>2 DEF Told
  <2>4. QED
    BY <1>1, <1>3, <2>1, <2>2, <2>3, LeaveKeepsInv DEF Statuses
<1>5. CASE stage[r] = "finishing"
  <2>1. /\ stage' = [stage EXCEPT ![r] = "settling"]
        /\ verdict' = [verdict EXCEPT ![r] = status]
        /\ ops' = [ops EXCEPT ![r] = left \cup {OperationFor(status)}]
        /\ UNCHANGED <<attempt, started, answer>>
    BY <1>5 DEF OperationFailed
  <2>2. /\ OperationFor(status) \in Operations
        /\ OperationFor(status) = "fail" <=> status = "DENIED"
        /\ OperationFor(status) # "complete"
    BY <1>1 DEF OperationFor, Operations
  <2> HIDE DEF status
  <2>3. TypeOK'
    <3>1. /\ ops' \in [Records -> SUBSET Operations]
          /\ verdict' \in [Records -> Statuses \cup {"none"}]
          /\ stage' \in [Records -> Stages]
      BY <1>1, <2>1, <2>2 DEF TypeOK, Statuses, Stages
    <3>2. QED
      BY <2>1, <3>1 DEF TypeOK, AuthorityTypeOK, dbVars, effectVars
  <2>4. \A t \in Records : t # r => Same(t)
    BY <2>1 DEF Same, TypeOK, dbVars, effectVars
  <2>5. /\ stage'[r] = "settling" /\ verdict'[r] = status /\ answer' = answer
        /\ ops'[r] = left \cup {OperationFor(status)}
        /\ UNCHANGED <<dbVars, running, applied, pruned>>
    BY <2>1 DEF TypeOK, effectVars
  <2>6. RetrySafe(r) => RetrySafe(r)'
    BY <2>5 DEF RetrySafe, MayTakeEffect, CanDispatch
  <2>7. \A a \in Attempts : Truthful(r, attempts[r][a].finding)'
    BY <1>1, <2>5, <2>6 DEF RecordInv, Truthful, dbVars
  <2>8. RecordInv(r)'
    BY <1>1, <1>3, <2>2, <2>5, <2>6, <2>7
       DEF RecordInv, CanDispatch, MayTakeEffect, Blocking, dbVars
  <2>9. QED
    BY <2>3, <2>4, <2>8, FrameInv DEF dbVars
<1>6. QED
  BY <1>2, <1>4, <1>5

\* Operations that fail, time out or are abandoned.
LEMMA SettlingStepsKeepInv ==
  ASSUME ExecutionInv, NEW r \in Records,
         \/ \E op \in Operations : OperationRaises(r, op)
         \/ OperationTimesOut(r) \/ CancelledSettling(r) \/ Crash(r)
  PROVE  ExecutionInv'
<1> TypeOK /\ RecordInv(r)
  BY DEF ExecutionInv
<1>1. RecordInv(r)
  OBVIOUS
<1>2. ASSUME NEW op \in Operations, OperationRaises(r, op)
      PROVE  ExecutionInv'
  <2>1. op \in ops[r] /\ UNCHANGED <<dbVars, effectVars, pruned>>
    BY <1>2 DEF OperationRaises
  <2>2. CASE Waiting(r, op)
    BY <1>2, <2>1, <2>2, OperationFailedKeepsInv DEF OperationRaises
  <2>3. CASE ~ Waiting(r, op)
    <3>1. /\ ops' = [ops EXCEPT ![r] = ops[r] \ {op}]
          /\ UNCHANGED <<stage, attempt, started, verdict, answer>>
      BY <1>2, <2>3 DEF OperationRaises
    <3>2. TypeOK'
      BY <2>1, <3>1 DEF TypeOK, AuthorityTypeOK, dbVars, effectVars
    <3>3. \A t \in Records : t # r => Same(t)
      BY <2>1, <3>1 DEF Same, TypeOK, dbVars, effectVars
    <3>4. ops'[r] \subseteq ops[r] /\ r \in issued /\ ~ CanDispatch(r)
      BY <1>1, <2>1, <3>1 DEF RecordInv, TypeOK
    <3>5. RecordInv(r)'
      BY <1>1, <2>1, <3>1, <3>4
         DEF RecordInv, CanDispatch, MayTakeEffect, RetrySafe, Blocking, Truthful, dbVars, effectVars
    <3>6. QED
      BY <2>1, <3>2, <3>3, <3>5, FrameInv DEF dbVars
  <2>4. QED
    BY <2>2, <2>3
<1>3. CASE OperationTimesOut(r)
  BY <1>3, OperationFailedKeepsInv DEF OperationTimesOut
<1>4. ops = [ops EXCEPT ![r] = ops[r]]
  BY DEF TypeOK
<1>5. CASE CancelledSettling(r)
  <2>1. r \in issued
    BY <1>1, <1>5 DEF RecordInv, CancelledSettling
  <2>2. Leave(r, "done", "none") /\ ops' = [ops EXCEPT ![r] = ops[r]]
        /\ UNCHANGED <<dbVars, effectVars, pruned>>
    BY <1>4, <1>5 DEF CancelledSettling
  <2>3. QED
    BY <2>1, <2>2, LeaveKeepsInv
<1>6. CASE Crash(r)
  <2>1. r \in issued
    BY <1>1, <1>6 DEF RecordInv, Crash
  <2>2. Leave(r, "crashed", answer[r]) /\ ops' = [ops EXCEPT ![r] = {}]
        /\ UNCHANGED <<dbVars, effectVars, pruned>>
    BY <1>6 DEF Crash
  <2>3. answer[r] \in Statuses \cup {"none"}
    BY DEF TypeOK
  <2>4. answer[r] \in {"FAILED", "DENIED"} => running[r] = {} /\ applied[r] = {}
    BY <1>1 DEF RecordInv, RetrySafe, MayTakeEffect
  <2>5. answer[r] = "SUCCEEDED" => rows[r].state = "completed" \/ r \in pruned
    BY <1>1 DEF RecordInv
  <2>6. QED
    BY <2>1, <2>2, <2>3, <2>4, <2>5, LeaveKeepsInv
<1>7. QED
  BY <1>2, <1>3, <1>5, <1>6

\* A worker commits an operation while the row is pending.
LEMMA CommitKeepsInv ==
  ASSUME AuthorityInv, AuthorityTypeOK', ExecutionInv, NEW r \in Records, NEW op \in Operations,
         OperationCommits(r, op)
  PROVE  ExecutionInv'
<1> TypeOK /\ RecordInv(r)
  BY DEF ExecutionInv
<1>1. RecordInv(r) /\ op \in ops[r] /\ UNCHANGED <<running, applied, pruned>>
      /\ ops' = [ops EXCEPT ![r] = ops[r] \ {op}]
  BY DEF OperationCommits, effectVars
<1>2. /\ rows[r].state = "pending" /\ UNCHANGED <<issued, attempts>>
      /\ \A t \in Records : t # r => rows'[t] = rows[t]
      /\ op = "complete" => rows'[r].state = "completed"
      /\ op = "fail" => rows'[r].state = "absent"
      /\ op = "unknown" => rows'[r].state = "unknown"
  <2>1. CASE op = "complete"
    BY <2>1, SMTT(30) DEF OperationCommits, Transaction, Complete, Owned, SetRowState, AuthorityInv,
                AuthorityTypeOK, Row
  <2>2. CASE op = "fail"
    BY <2>2, SMTT(30)
       DEF OperationCommits, Transaction, Fail, Owned, NoRow, AuthorityInv, AuthorityTypeOK
  <2>3. CASE op = "unknown"
    BY <2>3, SMTT(30)
       DEF OperationCommits, Transaction, RecordUnknown, Owned, SetRowState, AuthorityInv,
                AuthorityTypeOK, Row
  <2>4. QED
    BY <2>1, <2>2, <2>3 DEF Operations
<1>3. r \in issued /\ ~ CanDispatch(r) /\ r \notin pruned
  BY <1>1, <1>2 DEF RecordInv
<1>4. /\ op = "fail" => running[r] = {} /\ applied[r] = {}
      /\ op = "complete" => applied[r] # {}
  BY <1>1 DEF RecordInv, RetrySafe, MayTakeEffect
<1>5. ops' \in [Records -> SUBSET Operations]
  BY <1>1 DEF TypeOK
<1>6. CASE Waiting(r, op)
  <2>1. PICK told \in Told(verdict[r]) : Leave(r, "done", told)
    BY <1>6 DEF OperationCommits, Answer
  <2>2. /\ verdict[r] \in Statuses
        /\ op = "fail" <=> verdict[r] \in {"FAILED", "DENIED"}
        /\ op = "complete" <=> verdict[r] = "SUCCEEDED"
    BY <1>1, <1>6 DEF Waiting, RecordInv, OperationFor, Statuses
  <2>3. TypeOK'
    <3>1. told \in Statuses \cup {"none"}
      BY <2>1, <2>2 DEF Told, Statuses
    <3>2. QED
      BY <1>1, <1>5, <2>1, <3>1, LeaveTyped DEF TypeOK
  <2>4. \A t \in Records : t # r => Same(t)
    BY <1>1, <1>2, <2>1 DEF Same, Leave, TypeOK
  <2>5. stage'[r] = "done" /\ answer'[r] = told /\ ops'[r] = ops[r] \ {op}
    BY <1>1, <2>1 DEF Leave, TypeOK
  <2>6. RetrySafe(r) => RetrySafe(r)'
    BY <1>1, <2>5 DEF RetrySafe, MayTakeEffect, CanDispatch
  <2>7. \A a \in Attempts : Truthful(r, attempts[r][a].finding)'
    BY <1>1, <1>2, <2>6 DEF RecordInv, Truthful
  <2>8. /\ told \in {"FAILED", "DENIED"} => op = "fail"
        /\ told = "SUCCEEDED" => op = "complete"
    BY <2>1, <2>2 DEF Told
  <2>9. RecordInv(r)'
    BY <1>1, <1>2, <1>3, <1>4, <2>5, <2>6, <2>7, <2>8
       DEF RecordInv, CanDispatch, MayTakeEffect, Blocking, RetrySafe, Operations
  <2>10. QED
    BY <1>2, <2>3, <2>4, <2>9, FrameInv
<1>7. CASE ~ Waiting(r, op)
  <2>1. UNCHANGED <<stage, attempt, started, verdict, answer>>
    BY <1>7 DEF OperationCommits
  <2>2. TypeOK'
    BY <1>1, <1>5, <2>1 DEF TypeOK
  <2>3. \A t \in Records : t # r => Same(t)
    BY <1>1, <1>2, <2>1 DEF Same, TypeOK
  <2>4. ops'[r] = ops[r] \ {op}
    BY <1>1 DEF TypeOK
  <2>5. answer[r] # "SUCCEEDED"
    BY <1>1, <1>2, <1>3 DEF RecordInv
  <2>6. RetrySafe(r) <=> RetrySafe(r)'
    BY <1>1, <2>1 DEF RetrySafe, MayTakeEffect, CanDispatch
  <2>7. \A a \in Attempts : Truthful(r, attempts[r][a].finding)'
    BY <1>1, <1>2, <2>6 DEF RecordInv, Truthful
  <2>8. RecordInv(r)'
    BY <1>1, <1>2, <1>3, <1>4, <2>1, <2>4, <2>5, <2>6, <2>7
       DEF RecordInv, CanDispatch, MayTakeEffect, Blocking, Operations
  <2>9. QED
    BY <1>2, <2>2, <2>3, <2>8, FrameInv
<1>8. QED
  BY <1>6, <1>7

\* A ledger transaction on r, with truthful findings, resolves r rightly.
LEMMA LedgerStepKeepsInv ==
  ASSUME AuthorityTypeOK', ExecutionInv, NEW r \in Records,
         UNCHANGED <<issued, runVars, effectVars, pruned>>,
         \A t \in Records : t # r => rows'[t] = rows[t] /\ attempts'[t] = attempts[t],
         \A a \in Attempts : Truthful(r, attempts'[r][a].finding),
         \/ rows'[r].state = rows[r].state
         \/ /\ rows[r].state \in {"unknown", "manual_review"}
            /\ rows'[r].state # "absent"
            /\ rows'[r].state = "not_applied" => RetrySafe(r)
            /\ rows'[r].state \in {"completed", "applied_no_result"} => applied[r] # {}
  PROVE  ExecutionInv'
<1> TypeOK /\ RecordInv(r)
  BY DEF ExecutionInv
<1>1. TypeOK'
  BY DEF TypeOK, runVars, effectVars
<1>2. \A t \in Records : t # r => Same(t)
  BY DEF Same, runVars, effectVars
<1>3. RecordInv(r) /\ UNCHANGED <<stage, attempt, started, verdict, ops, answer, running, applied>>
  BY DEF runVars, effectVars
<1>4. RetrySafe(r) <=> RetrySafe(r)'
  BY <1>3 DEF RetrySafe, MayTakeEffect, CanDispatch
<1>5. \A a \in Attempts : Truthful(r, attempts[r][a].finding)'
  BY <1>3, <1>4 DEF Truthful
<1>6. RecordInv(r)'
  BY <1>3, <1>4, <1>5 DEF RecordInv, CanDispatch, MayTakeEffect, RetrySafe, Blocking
<1>7. QED
  BY <1>1, <1>2, <1>6, FrameInv

\* A finding that is the case, or that an earlier attempt recorded.
Known(r, finding) ==
  Truthful(r, finding) \/ \E a \in Attempts : finding = attempts[r][a].finding

\* What a reconciliation step does to its record: every finding in the ledger
\* is a known one, and the row is resolved only as a known finding says.
Reconciled(r) ==
  /\ UNCHANGED <<issued, runVars, effectVars, pruned>>
  /\ \A t \in Records : t # r => rows'[t] = rows[t] /\ attempts'[t] = attempts[t]
  /\ \A a \in Attempts : Known(r, attempts'[r][a].finding)
  /\ \/ rows'[r].state = rows[r].state
     \/ /\ rows[r].state \in {"unknown", "manual_review"} /\ rows'[r].state # "absent"
        /\ \E finding \in Findings :
             /\ Known(r, finding)
             /\ rows'[r].state = "not_applied" => finding.state = "CONFIRMED_NOT_APPLIED"
             /\ rows'[r].state \in {"completed", "applied_no_result"} =>
                  finding.state = "CONFIRMED_SUCCEEDED"

\* The transition part of a ledger transaction follows its finding.
LEMMA TransitionFollowsFinding ==
  ASSUME AuthorityTypeOK, NEW r \in Records, NEW rev, NEW finding \in Findings,
         AppendTransition(r, rev, finding)
  PROVE  /\ rows[r].state \in {"unknown", "manual_review"}
         /\ \A t \in Records : t # r => rows'[t] = rows[t]
         /\ rows'[r].state # "absent"
         /\ rows'[r].state = "not_applied" => finding.state = "CONFIRMED_NOT_APPLIED"
         /\ rows'[r].state \in {"completed", "applied_no_result"} =>
              finding.state = "CONFIRMED_SUCCEEDED"
<1> DEFINE disposition == IdempotencyDisposition(finding.state, finding.result)
<1>1. finding.state \in Confirmed \cup {"MANUAL_REVIEW"}
  BY DEF Findings
<1>2. /\ finding.state = "MANUAL_REVIEW" => disposition = "manual_review"
      /\ finding.state = "CONFIRMED_NOT_APPLIED" => disposition = "not_applied"
      /\ finding.state = "CONFIRMED_SUCCEEDED" =>
           disposition \in {"completed", "applied_no_result"}
  BY <1>1 DEF IdempotencyDisposition, Confirmed
<1>3. rows[r].state \in {"unknown", "manual_review"} /\ SetRowState(r, disposition)
  BY DEF AppendTransition
<1> HIDE DEF disposition
<1>4. rows'[r].state = disposition /\ \A t \in Records : t # r => rows'[t] = rows[t]
  BY <1>3 DEF SetRowState, AuthorityTypeOK, Row
<1>5. QED
  BY <1>1, <1>2, <1>3, <1>4 DEF Confirmed

\* Reconciliation by any worker.
LEMMA ReconcileChanges ==
  ASSUME AuthorityTypeOK, NEW r \in Records, Reconcile(r)
  PROVE  Reconciled(r)
<1>1. UNCHANGED <<runVars, effectVars, pruned>>
  BY DEF Reconcile
<1>2. \A a \in Attempts : Known(r, attempts[r][a].finding)
  BY DEF Known
<1>3. ASSUME NEW finding \in Findings, NEW rev, Known(r, finding), issued' = issued,
             AppendTransition(r, rev, finding),
             \A t \in Records : t # r => attempts'[t] = attempts[t],
             \A a \in Attempts : attempts'[r][a].finding = attempts[r][a].finding
      PROVE  Reconciled(r)
  <2>1. \A a \in Attempts : Known(r, attempts'[r][a].finding)
    BY <1>2, <1>3
  <2>2. QED
    BY <1>1, <1>3, <2>1, TransitionFollowsFinding DEF Reconciled
<1>4. CASE RecoverUnfinished(r)
  <2> DEFINE quarantine == [state |-> "MANUAL_REVIEW", result |-> FALSE]
             last == heads[r].revision + Cardinality(Unmatched(r))
  <2>1. quarantine \in Findings /\ Known(r, quarantine)
    BY DEF Findings, Confirmed, Known, Truthful
  <2>2. AppendTransition(r, last, quarantine) /\ issued' = issued
    BY <1>4 DEF RecoverUnfinished
  <2>3. \A t \in Records : t # r => attempts'[t] = attempts[t]
    BY <1>4 DEF RecoverUnfinished, AuthorityTypeOK
  <2>4. \A a \in Attempts : attempts'[r][a].finding = attempts[r][a].finding
    <3> SUFFICES ASSUME NEW a \in Attempts PROVE attempts'[r][a].finding = attempts[r][a].finding
      OBVIOUS
    <3>1. attempts[r][a] \in Attempt
      BY DEF AuthorityTypeOK
    <3>2. attempts'[r][a] = IF a \in Unmatched(r)
                            THEN [attempts[r][a] EXCEPT !.status = "finished"]
                            ELSE attempts[r][a]
      BY <1>4 DEF RecoverUnfinished, AuthorityTypeOK
    <3>3. QED
      BY <3>1, <3>2 DEF Attempt
  <2> HIDE DEF quarantine, last
  <2>5. QED
    BY <1>3, <2>1, <2>2, <2>3, <2>4
<1>5. ASSUME NEW finding \in Findings, Truthful(r, finding),
             ManualTransition(r, heads[r].revision, finding)
      PROVE  Reconciled(r)
  <2>1. AppendTransition(r, heads[r].revision, finding) /\ UNCHANGED <<issued, attempts>>
    BY <1>5 DEF ManualTransition
  <2>2. QED
    BY <1>3, <1>5, <2>1 DEF Known
<1>6. ASSUME NEW a \in Attempts, NEW finding \in Findings \cup {NoFinding},
             ProviderTransition(r, a, heads[r].revision, finding)
      PROVE  Reconciled(r)
  <2>1. /\ AppendTransition(r, heads[r].revision, finding) /\ UNCHANGED <<issued, attempts>>
        /\ finding \in Findings /\ finding = attempts[r][a].finding
    BY <1>6 DEF ProviderTransition
  <2>2. QED
    BY <1>2, <1>3, <2>1
<1>7. ASSUME NEW a \in Attempts, NEW record, NEW finding, Known(r, finding),
             record.finding = finding, attempts' = [attempts EXCEPT ![r][a] = record],
             UNCHANGED <<issued, rows>>
      PROVE  Reconciled(r)
  <2>1. \A t \in Records : t # r => attempts'[t] = attempts[t]
    BY <1>7 DEF AuthorityTypeOK
  <2>2. \A b \in Attempts : attempts'[r][b] = IF b = a THEN record ELSE attempts[r][b]
    BY <1>7 DEF AuthorityTypeOK
  <2>3. \A b \in Attempts : Known(r, attempts'[r][b].finding)
    BY <1>2, <1>7, <2>2
  <2>4. QED
    BY <1>1, <1>7, <2>1, <2>3 DEF Reconciled
<1>8. ASSUME NEW a \in Attempts, StartAttempt(r, a, heads[r].revision)
      PROVE  Reconciled(r)
  <2> DEFINE record == [NoAttempt EXCEPT !.status = "started"]
  <2>1. record.finding = NoFinding
    BY DEF NoAttempt
  <2>2. attempts' = [attempts EXCEPT ![r][a] = record] /\ UNCHANGED <<issued, rows>>
    BY <1>8 DEF StartAttempt, AppendAttempt
  <2>3. Known(r, NoFinding)
    BY DEF Known, Truthful, NoFinding
  <2> HIDE DEF record
  <2>4. QED
    BY <1>7, <2>1, <2>2, <2>3
<1>9. ASSUME NEW a \in Attempts, DeadlineLapses(r, a)
      PROVE  Reconciled(r)
  <2> DEFINE record == [attempts[r][a] EXCEPT !.deadline = "lapsed"]
  <2>1. attempts[r][a] \in Attempt
    BY DEF AuthorityTypeOK
  <2>2. record.finding = attempts[r][a].finding
    BY <2>1 DEF Attempt
  <2>3. attempts' = [attempts EXCEPT ![r][a] = record] /\ UNCHANGED <<issued, rows>>
    BY <1>9 DEF DeadlineLapses
  <2> HIDE DEF record
  <2>4. QED
    BY <1>2, <1>7, <2>2, <2>3
<1>10. ASSUME NEW a \in Attempts, NEW finding \in Findings \cup {NoFinding},
              Truthful(r, finding), FinishAttempt(r, a, heads[r].revision, finding)
       PROVE  Reconciled(r)
  <2> DEFINE record == [attempts[r][a] EXCEPT !.status = "finished", !.finding = finding]
  <2>1. attempts[r][a] \in Attempt
    BY DEF AuthorityTypeOK
  <2>2. record.finding = finding
    BY <2>1 DEF Attempt
  <2>3. attempts' = [attempts EXCEPT ![r][a] = record] /\ UNCHANGED <<issued, rows>>
    BY <1>10 DEF FinishAttempt, AppendAttempt
  <2>4. Known(r, finding)
    BY <1>10 DEF Known
  <2> HIDE DEF record
  <2>5. QED
    BY <1>7, <2>2, <2>3, <2>4
<1>11. QED
  BY <1>4, <1>5, <1>6, <1>8, <1>9, <1>10 DEF Reconcile

\* What is found, and what a row is resolved to, is the case.
LEMMA ReconcileKeepsInv ==
  ASSUME AuthorityTypeOK', ExecutionInv, NEW r \in Records, Reconcile(r)
  PROVE  ExecutionInv'
<1>1. AuthorityTypeOK /\ RecordInv(r)
  BY DEF ExecutionInv, TypeOK
<1>2. Reconciled(r)
  BY <1>1, ReconcileChanges
<1>3. \A finding : Known(r, finding) => Truthful(r, finding)
  BY <1>1 DEF Known, RecordInv
<1>4. \A a \in Attempts : Truthful(r, attempts'[r][a].finding)
  BY <1>2, <1>3 DEF Reconciled
<1>5. \/ rows'[r].state = rows[r].state
      \/ /\ rows[r].state \in {"unknown", "manual_review"} /\ rows'[r].state # "absent"
         /\ rows'[r].state = "not_applied" => RetrySafe(r)
         /\ rows'[r].state \in {"completed", "applied_no_result"} => applied[r] # {}
  BY <1>2, <1>3 DEF Reconciled, Truthful
<1>6. /\ UNCHANGED <<issued, runVars, effectVars, pruned>>
      /\ \A t \in Records : t # r => rows'[t] = rows[t] /\ attempts'[t] = attempts[t]
  BY <1>2 DEF Reconciled
<1>7. QED
  BY <1>4, <1>5, <1>6, LedgerStepKeepsInv

\* Pruning deletes results that were applied, and remembers that it did.
LEMMA PruneKeepsInv ==
  ASSUME AuthorityInv, AuthorityTypeOK', ExecutionInv, NEW S \in SUBSET Records, Prune(S)
  PROVE  ExecutionInv'
<1> TypeOK /\ \A t \in Records : RecordInv(t)
  BY DEF ExecutionInv
<1>1. /\ S \subseteq Prunable /\ pruned' = pruned \cup S
      /\ rows' = [r \in Records |-> IF r \in S THEN NoRow ELSE rows[r]]
      /\ UNCHANGED <<issued, attempts, runVars, effectVars>>
  BY DEF Prune, PruneCompleted
<1>2. TypeOK'
  BY <1>1 DEF TypeOK, runVars, effectVars
<1>3. ASSUME NEW t \in Records, t \notin S
      PROVE  RecordInv(t)'
  <2>1. Same(t) /\ RecordInv(t)
    BY <1>1, <1>3 DEF Same, runVars, effectVars
  <2>2. QED
    BY <1>1, <2>1, RecordFrame
<1>4. ASSUME NEW t \in S
      PROVE  RecordInv(t)'
  <2>1. /\ t \in Records /\ rows[t].state = "completed" /\ RecordInv(t)
        /\ rows'[t].state = "absent" /\ t \in pruned'
    BY <1>1 DEF Prunable, NoRow
  <2>2. t \in issued
    <3>1. IssuedCoversTables /\ rows[t] # NoRow
      BY <2>1, SMTT(30) DEF AuthorityInv, NoRow
    <3>2. QED
      BY <2>1, <3>1 DEF IssuedCoversTables
  <2>3. UNCHANGED <<stage, attempt, started, verdict, ops, answer, running, applied>>
    BY <1>1 DEF runVars, effectVars
  <2>4. applied[t] # {} /\ ~ RetrySafe(t) /\ ~ RetrySafe(t)'
    BY <2>1, <2>3 DEF RecordInv, RetrySafe, MayTakeEffect
  <2>5. \A a \in Attempts : Truthful(t, attempts[t][a].finding)'
    BY <1>1, <2>1, <2>3, <2>4 DEF RecordInv, Truthful
  <2>6. QED
    BY <1>1, <2>1, <2>2, <2>3, <2>4, <2>5
       DEF RecordInv, CanDispatch, MayTakeEffect, Blocking
<1>5. QED
  BY <1>2, <1>3, <1>4 DEF ExecutionInv

-----------------------------------------------------------------------------
\* Every step of the runtime is a transaction or leaves the database alone.
LEMMA StepIsTransaction ==
  ASSUME [Next]_vars
  PROVE  [AuthorityNext]_dbVars
<1>1. ASSUME NEW r \in Records, NEW k \in Keys, NEW f \in Fingerprints,
             \/ AcquireOwner(r, k, f) \/ AcquireOrphaned(r, k, f)
             \/ AcquireDropped(r, k, f) \/ AcquireExpired(r, k, f)
      PROVE  AuthorityNext
  BY <1>1 DEF AcquireOwner, AcquireOrphaned, AcquireDropped, AcquireExpired,
              AuthorityNext, StoreNext
<1>2. ASSUME NEW r \in Records,
             \/ DeniedAtCommit(r) \/ StartExecution(r) \/ PrepareFails(r) \/ Dispatch(r)
             \/ Cancelled(r) \/ BodyReturns(r) \/ BodyRaises(r) \/ MiddlewareRaises(r)
             \/ AttemptTimesOut(r) \/ OperationTimesOut(r) \/ CancelledSettling(r) \/ Crash(r)
      PROVE  UNCHANGED dbVars
  BY <1>2 DEF DeniedAtCommit, StartExecution, PrepareFails, Dispatch, Cancelled, BodyReturns,
              BodyRaises, MiddlewareRaises, AttemptTimesOut, OperationTimesOut,
              CancelledSettling, Crash
<1>3. ASSUME NEW r \in Records, RenewLease(r) \/ Time(r)
      PROVE  AuthorityNext
  BY <1>3 DEF RenewLease, Time, AuthorityNext, StoreNext
<1>4. ASSUME NEW r \in Records, NEW op \in Operations, OperationRaises(r, op)
      PROVE  UNCHANGED dbVars
  BY <1>4 DEF OperationRaises
<1>5. ASSUME NEW r \in Records, NEW op \in Operations, OperationCommits(r, op)
      PROVE  AuthorityNext
  <2>1. Complete(r) \/ Fail(r) \/ RecordUnknown(r)
    BY <1>5 DEF OperationCommits, Transaction, Operations
  <2>2. QED
    BY <2>1 DEF AuthorityNext, StoreNext, LedgerNext
<1>6. ASSUME NEW r \in Records, Effect(r)
      PROVE  UNCHANGED dbVars
  BY <1>6 DEF Effect, BodyApplies, BodyEnds
<1>7. ASSUME NEW r \in Records, Reconcile(r)
      PROVE  AuthorityNext
  <2>1. CASE RecoverUnfinished(r)
    BY <2>1 DEF AuthorityNext, LedgerNext
  <2>2. CASE \E finding \in Findings : ManualTransition(r, heads[r].revision, finding)
    BY <2>2 DEF AuthorityNext, LedgerNext
  <2>3. CASE \E a \in Attempts : StartAttempt(r, a, heads[r].revision) \/ DeadlineLapses(r, a)
    BY <2>3 DEF AuthorityNext, LedgerNext
  <2>4. CASE \E a \in Attempts, finding \in Findings \cup {NoFinding} :
               \/ FinishAttempt(r, a, heads[r].revision, finding)
               \/ ProviderTransition(r, a, heads[r].revision, finding)
    BY <2>4 DEF AuthorityNext, LedgerNext
  <2>5. QED
    BY <1>7, <2>1, <2>2, <2>3, <2>4 DEF Reconcile
<1>8. ASSUME NEW S \in SUBSET Records, Prune(S)
      PROVE  AuthorityNext
  BY <1>8 DEF Prune, AuthorityNext, StoreNext
<1>9. ASSUME NEW r \in Records, Invocation(r)
      PROVE  [AuthorityNext]_dbVars
  BY <1>9, <1>1, <1>2, <1>3, <1>4, <1>5 DEF Invocation
<1>10. CASE UNCHANGED vars
  BY <1>10 DEF vars
<1>11. QED
  BY <1>3, <1>6, <1>7, <1>8, <1>9, <1>10 DEF Next

\* The runtime changes the store and the ledger only by their transactions,
\* so whatever holds of the authority holds under it.
THEOREM ExecutionRefinesAuthority == Spec => RefinesAuthority
<1>1. Init => AuthorityInit
  BY DEF Init
<1>2. [Next]_vars => [AuthorityNext]_dbVars
  BY StepIsTransaction
<1>3. QED
  BY <1>1, <1>2, PTL DEF Spec, AuthoritySpec, RefinesAuthority

\* The invariants of the authority hold under the runtime.
THEOREM ExecutionKeepsAuthority == Spec => []AuthorityInv
BY ExecutionRefinesAuthority, AuthoritySafe, PTL DEF RefinesAuthority

-----------------------------------------------------------------------------
\* The initial states satisfy the invariant.
LEMMA InitEstablishesExecutionInv == Init => ExecutionInv
<1> SUFFICES ASSUME Init PROVE ExecutionInv
  OBVIOUS
<1>1. AuthorityTypeOK
  BY InitEstablishesInv DEF Init, AuthorityInv
<1>2. TypeOK
  BY <1>1, MaxAttemptsAssumption, SMTT(30) DEF Init, TypeOK, Stages
<1>3. ASSUME NEW r \in Records PROVE RecordInv(r)
  <2>1. \A a \in Attempts : attempts[r][a].finding.state = "none"
    BY DEF Init, AuthorityInit, NoAttempt, NoFinding
  <2>2. QED
    BY <2>1 DEF Init, AuthorityInit, NoRow, RecordInv, CanDispatch, MayTakeEffect, Truthful
<1>4. QED
  BY <1>2, <1>3 DEF ExecutionInv

\* Every step preserves the invariant when a body is dispatched once and no
\* middleware raises after it.
LEMMA StepKeepsExecutionInv ==
  ASSUME MaxAttempts = 1, ~ MiddlewareMayRaise, AuthorityInv, AuthorityInv', ExecutionInv,
         [Next]_vars
  PROVE  ExecutionInv'
<1>1. AuthorityTypeOK /\ AuthorityTypeOK'
  BY DEF AuthorityInv
<1>2. ASSUME NEW r \in Records, Invocation(r)
      PROVE  ExecutionInv'
  <2>1. ASSUME NEW k \in Keys, NEW f \in Fingerprints,
               \/ AcquireOwner(r, k, f) \/ AcquireOrphaned(r, k, f)
               \/ AcquireDropped(r, k, f)
        PROVE  ExecutionInv'
    BY <1>1, <2>1, AcquireKeepsInv
  <2>2. ASSUME NEW k \in Keys, NEW f \in Fingerprints, AcquireExpired(r, k, f)
        PROVE  ExecutionInv'
    BY <1>1, <2>2, RowStepsKeepInv
  <2>3. CASE RenewLease(r)
    BY <1>1, <2>3, RowStepsKeepInv, SMTT(30)
  <2>4. CASE \/ DeniedAtCommit(r) \/ PrepareFails(r) \/ Cancelled(r) \/ BodyReturns(r)
             \/ BodyRaises(r) \/ MiddlewareRaises(r) \/ AttemptTimesOut(r)
    BY <2>4, SubmittingStepsKeepInv
  <2>5. CASE StartExecution(r)
    BY <2>5, StartExecutionKeepsInv
  <2>6. CASE Dispatch(r)
    BY <2>6, DispatchKeepsInv
  <2>7. CASE \E op \in Operations : OperationCommits(r, op)
    BY <1>1, <2>7, CommitKeepsInv
  <2>8. CASE \/ \E op \in Operations : OperationRaises(r, op)
             \/ OperationTimesOut(r) \/ CancelledSettling(r) \/ Crash(r)
    BY <2>8, SettlingStepsKeepInv
  <2>9. QED
    BY <1>2, <2>1, <2>2, <2>3, <2>4, <2>5, <2>6, <2>7, <2>8 DEF Invocation
<1>3. ASSUME NEW r \in Records, Effect(r)
      PROVE  ExecutionInv'
  BY <1>3, EffectKeepsInv
<1>4. ASSUME NEW r \in Records, Reconcile(r)
      PROVE  ExecutionInv'
  BY <1>1, <1>4, ReconcileKeepsInv
<1>5. ASSUME NEW r \in Records, Time(r)
      PROVE  ExecutionInv'
  BY <1>1, <1>5, RowStepsKeepInv
<1>6. ASSUME NEW S \in SUBSET Records, Prune(S)
      PROVE  ExecutionInv'
  BY <1>1, <1>6, PruneKeepsInv
<1>7. CASE UNCHANGED vars
  <2>1. /\ UNCHANGED <<issued, rows, prepared, heads, attempts, outbox, pruned>>
        /\ UNCHANGED <<stage, attempt, started, verdict, ops, answer, running, applied>>
    BY <1>7 DEF vars, dbVars, runVars, effectVars
  <2>2. TypeOK'
    BY <1>1, <2>1 DEF ExecutionInv, TypeOK
  <2>3. \A t \in Records : Same(t)
    BY <2>1 DEF Same
  <2>4. QED
    BY <2>1, <2>2, <2>3, RecordFrame DEF ExecutionInv
<1>8. QED
  BY <1>2, <1>3, <1>4, <1>5, <1>6, <1>7 DEF Next

\* When a body is dispatched once and no middleware raises after it, the
\* invariant holds under every interleaving, timeout and crash.
THEOREM ExecutionSafe ==
  ASSUME MaxAttempts = 1, ~ MiddlewareMayRaise
  PROVE  Spec => []ExecutionInv
<1>1. Init => ExecutionInv
  BY InitEstablishesExecutionInv
<1>2. AuthorityInv /\ AuthorityInv' /\ ExecutionInv /\ [Next]_vars => ExecutionInv'
  BY StepKeepsExecutionInv
<1>3. QED
  BY <1>1, <1>2, ExecutionKeepsAuthority, PTL DEF Spec

\* An execution whose body acted, or may still act, keeps its key blocked
\* until prune_completed deletes a result the tool did produce.
THEOREM UncertainEffectsStayBlocked ==
  ASSUME MaxAttempts = 1, ~ MiddlewareMayRaise
  PROVE  Spec => []UncertainStaysBlocked
<1>1. ExecutionInv => UncertainStaysBlocked
  BY DEF ExecutionInv, RecordInv, UncertainStaysBlocked
<1>2. QED
  BY <1>1, ExecutionSafe, PTL

\* Two executions of one key never both take effect: the older one was
\* confirmed as not applied, which it would not be had it acted.
THEOREM KeysTakeEffectOnce ==
  ASSUME MaxAttempts = 1, ~ MiddlewareMayRaise
  PROVE  Spec => []OneEffectPerKey
<1>1. AuthorityInv /\ ExecutionInv => OneEffectPerKey
  <2> SUFFICES ASSUME AuthorityInv, ExecutionInv, NEW r \in Records, NEW s \in Records,
                      r # s, Present(r), Present(s), rows[r].key = rows[s].key,
                      MayTakeEffect(r), MayTakeEffect(s)
               PROVE  FALSE
    BY DEF OneEffectPerKey
  <2>1. RecordInv(r) /\ RecordInv(s)
    BY DEF ExecutionInv
  <2>2. Blocking(r) /\ Blocking(s)
    BY <2>1 DEF RecordInv, Present
  <2>3. rows[r].gen \in Nat /\ rows[s].gen \in Nat
    BY DEF AuthorityInv, AuthorityTypeOK, Row
  <2>4. /\ rows[r].gen # rows[s].gen
        /\ rows[r].gen < rows[s].gen => rows[r].state = "not_applied"
        /\ rows[s].gen < rows[r].gen => rows[s].state = "not_applied"
    BY DEF AuthorityInv, GenerationChain
  <2>5. QED
    BY <2>2, <2>3, <2>4, SMTT(30) DEF Blocking
<1>2. QED
  BY <1>1, ExecutionSafe, ExecutionKeepsAuthority, PTL

\* A caller told FAILED or DENIED knows that the tool had no effect and
\* that this invocation will not have one later.
THEOREM FailuresAreDefinite ==
  ASSUME MaxAttempts = 1, ~ MiddlewareMayRaise
  PROVE  Spec => []FailureIsDefinite
<1>1. ExecutionInv => FailureIsDefinite
  BY DEF ExecutionInv, RecordInv, FailureIsDefinite
<1>2. QED
  BY <1>1, ExecutionSafe, PTL

-----------------------------------------------------------------------------
\* What a success rests on, however often the body is dispatched and whatever
\* the middleware does: complete is submitted, and SUCCEEDED found, only for
\* what was applied, and a record that was pruned was issued.
SuccessRecord(r) ==
  /\ stage[r] \in {"preparing", "dispatched"} => attempt[r] \in 1..MaxAttempts
  /\ "complete" \in ops[r] => applied[r] # {}
  /\ \A a \in Attempts :
       attempts[r][a].finding.state = "CONFIRMED_SUCCEEDED" => applied[r] # {}
  /\ rows[r].state \in {"completed", "applied_no_result"} => applied[r] # {}
  /\ answer[r] = "SUCCEEDED" => rows[r].state = "completed" \/ r \in pruned
  /\ r \in pruned => r \in issued

\* The inductive invariant of SuccessesAreRecorded.
SuccessInv == TypeOK /\ \A r \in Records : SuccessRecord(r)

\* A record a step does not concern keeps its success.
LEMMA SuccessFrame ==
  ASSUME SuccessInv, NEW r \in Records, TypeOK', SuccessRecord(r)',
         \A t \in Records : t # r => Same(t), issued \subseteq issued'
  PROVE  SuccessInv'
<1>1. ASSUME NEW t \in Records, t # r
      PROVE  SuccessRecord(t)'
  <2>1. SuccessRecord(t) /\ Same(t)
    BY <1>1 DEF SuccessInv
  <2>2. QED
    BY <2>1 DEF SuccessRecord, Same
<1>2. QED
  BY <1>1 DEF SuccessInv

\* A step of an invocation that leaves the database alone: it submits
\* complete only for what was applied, and answers SUCCEEDED only again.
LEMMA LocalStepKeepsSuccess ==
  ASSUME SuccessInv, NEW r \in Records, TypeOK', UNCHANGED <<dbVars, applied, pruned>>,
         \A t \in Records : t # r => Same(t),
         stage'[r] \in {"preparing", "dispatched"} => attempt'[r] \in 1..MaxAttempts,
         "complete" \in ops'[r] => "complete" \in ops[r] \/ applied[r] # {},
         answer'[r] = "SUCCEEDED" => answer[r] = "SUCCEEDED"
  PROVE  SuccessInv'
<1>1. SuccessRecord(r)
  BY DEF SuccessInv
<1>2. UNCHANGED <<issued, rows, attempts, applied, pruned>>
  BY DEF dbVars
<1>3. SuccessRecord(r)'
  BY <1>1, <1>2 DEF SuccessRecord
<1>4. QED
  BY <1>2, <1>3, SuccessFrame

\* An invocation submits an operation; complete only for what was applied.
LEMMA SubmitKeepsSuccess ==
  ASSUME SuccessInv, NEW r \in Records, NEW s \in {"finishing", "settling"},
         NEW status \in Statuses, NEW left \in SUBSET running[r],
         Submit(r, s, status), running' = [running EXCEPT ![r] = left],
         UNCHANGED <<dbVars, applied, pruned>>,
         status = "SUCCEEDED" => applied[r] # {}
  PROVE  SuccessInv'
<1> TypeOK
  BY DEF SuccessInv
<1>1. OperationFor(status) \in Operations
      /\ (OperationFor(status) = "complete" <=> status = "SUCCEEDED")
  BY DEF OperationFor, Statuses, Operations
<1>2. TypeOK'
  BY <1>1 DEF TypeOK, AuthorityTypeOK, Submit, dbVars, Stages, Statuses
<1>3. \A t \in Records : t # r => Same(t)
  BY DEF Same, Submit, TypeOK, dbVars
<1>4. /\ stage'[r] = s /\ ops'[r] = ops[r] \cup {OperationFor(status)} /\ answer' = answer
  BY DEF Submit, TypeOK
<1>5. QED
  BY <1>1, <1>2, <1>3, <1>4, LocalStepKeepsSuccess

\* RetryMiddleware counts an attempt it may still make.
LEMMA RetryKeepsSuccess ==
  ASSUME SuccessInv, NEW r \in Records, NEW left \in SUBSET running[r],
         stage[r] \in {"preparing", "dispatched"}, RetryAttempt(r),
         running' = [running EXCEPT ![r] = left], UNCHANGED <<dbVars, applied, pruned>>
  PROVE  SuccessInv'
<1> TypeOK
  BY DEF SuccessInv
<1>1. attempt[r] \in 1..MaxAttempts /\ attempt[r] < MaxAttempts /\ MaxAttempts \in Nat
  BY MaxAttemptsAssumption DEF SuccessInv, SuccessRecord, RetryAttempt
<1>2. /\ attempt'[r] = attempt[r] + 1 /\ stage'[r] = "preparing"
      /\ UNCHANGED <<started, verdict, ops, answer>>
  BY DEF RetryAttempt, TypeOK
<1>3. attempt'[r] \in 1..MaxAttempts
  BY <1>1, <1>2, SMTT(30)
<1>4. TypeOK'
  <2>1. attempt' \in [Records -> 0..MaxAttempts] /\ stage' \in [Records -> Stages]
    BY <1>1, SMTT(30) DEF RetryAttempt, TypeOK, Stages
  <2>2. QED
    BY <1>2, <2>1 DEF TypeOK, AuthorityTypeOK, dbVars
<1>5. \A t \in Records : t # r => Same(t)
  BY <1>2 DEF Same, RetryAttempt, TypeOK, dbVars
<1>6. QED
  BY <1>2, <1>3, <1>4, <1>5, LocalStepKeepsSuccess

\* An invocation that is over answers SUCCEEDED only if it had.
LEMMA LeaveKeepsSuccess ==
  ASSUME SuccessInv, NEW r \in Records, NEW s \in {"done", "crashed"},
         NEW status \in Statuses \cup {"none"}, NEW o \in SUBSET ops[r],
         Leave(r, s, status), ops' = [ops EXCEPT ![r] = o],
         UNCHANGED <<dbVars, effectVars, pruned>>,
         status = "SUCCEEDED" => answer[r] = "SUCCEEDED"
  PROVE  SuccessInv'
<1> TypeOK
  BY DEF SuccessInv
<1>1. TypeOK'
  <2>1. ops' \in [Records -> SUBSET Operations]
    BY DEF TypeOK
  <2>2. AuthorityTypeOK'
    BY DEF TypeOK, AuthorityTypeOK, dbVars
  <2>3. QED
    BY <2>1, <2>2, LeaveTyped DEF TypeOK, effectVars
<1>2. \A t \in Records : t # r => Same(t)
  BY DEF Leave, Same, TypeOK, dbVars, effectVars
<1>3. stage'[r] = s /\ answer'[r] = status /\ ops'[r] = o /\ applied' = applied
  BY DEF Leave, TypeOK, effectVars
<1>4. QED
  BY <1>1, <1>2, <1>3, LocalStepKeepsSuccess

\* The steps between the claim and the settling of the outcome.
LEMMA RunningStepsKeepSuccess ==
  ASSUME SuccessInv, NEW r \in Records,
         \/ DeniedAtCommit(r) \/ PrepareFails(r) \/ Cancelled(r) \/ BodyReturns(r)
         \/ BodyRaises(r) \/ MiddlewareRaises(r) \/ AttemptTimesOut(r)
  PROVE  SuccessInv'
<1>1. UNCHANGED <<dbVars, applied, pruned>>
  BY DEF DeniedAtCommit, PrepareFails, Cancelled, BodyReturns, BodyRaises, MiddlewareRaises,
         AttemptTimesOut, effectVars
<1>2. running \in [Records -> SUBSET (1..MaxAttempts)]
  BY DEF SuccessInv, TypeOK
<1>3. PICK left \in SUBSET running[r] : running' = [running EXCEPT ![r] = left]
  <2>1. CASE running' = running
    <3>1. running' = [running EXCEPT ![r] = running[r]]
      BY <1>2, <2>1
    <3>2. QED
      BY <3>1
  <2>2. CASE running' = [running EXCEPT ![r] = running[r] \ {attempt[r]}]
    BY <2>2
  <2>3. QED
    BY <2>1, <2>2 DEF DeniedAtCommit, PrepareFails, Cancelled, BodyReturns, BodyRaises,
                      MiddlewareRaises, AttemptTimesOut, effectVars
<1>4. \/ stage[r] \in {"preparing", "dispatched"} /\ RetryAttempt(r)
      \/ \E s \in {"finishing", "settling"}, status \in Statuses :
           Submit(r, s, status) /\ (status = "SUCCEEDED" => applied[r] # {})
  <2>1. CASE DeniedAtCommit(r) \/ Cancelled(r) \/ MiddlewareRaises(r)
    BY <2>1 DEF DeniedAtCommit, Cancelled, MiddlewareRaises, Statuses
  <2>2. CASE PrepareFails(r)
    BY <2>2 DEF PrepareFails, Statuses
  <2>3. CASE BodyReturns(r)
    BY <2>3 DEF BodyReturns, Statuses
  <2>4. CASE BodyRaises(r) \/ AttemptTimesOut(r)
    BY <2>4 DEF BodyRaises, AttemptTimesOut, Statuses
  <2>5. QED
    BY <2>1, <2>2, <2>3, <2>4
<1>5. CASE stage[r] \in {"preparing", "dispatched"} /\ RetryAttempt(r)
  BY <1>1, <1>3, <1>5, RetryKeepsSuccess
<1>6. ASSUME NEW s \in {"finishing", "settling"}, NEW status \in Statuses,
             Submit(r, s, status), status = "SUCCEEDED" => applied[r] # {}
      PROVE  SuccessInv'
  BY <1>1, <1>3, <1>6, SubmitKeepsSuccess
<1>7. QED
  BY <1>4, <1>5, <1>6

\* The attempts are counted from one, up to MaxAttempts.
LEMMA DispatchingKeepsSuccess ==
  ASSUME SuccessInv, NEW r \in Records, StartExecution(r) \/ Dispatch(r)
  PROVE  SuccessInv'
<1> TypeOK /\ SuccessRecord(r)
  BY DEF SuccessInv
<1>1. CASE StartExecution(r)
  <2>1. 1 \in 0..MaxAttempts /\ 1 \in 1..MaxAttempts
    BY MaxAttemptsAssumption, SMTT(30)
  <2>2. TypeOK'
    BY <1>1, <2>1 DEF TypeOK, AuthorityTypeOK, StartExecution, dbVars, effectVars, Stages
  <2>3. \A t \in Records : t # r => Same(t)
    BY <1>1 DEF Same, StartExecution, TypeOK, dbVars, effectVars
  <2>4. attempt'[r] = 1 /\ UNCHANGED <<dbVars, ops, answer, applied, pruned>>
    BY <1>1 DEF StartExecution, TypeOK, effectVars
  <2>5. QED
    BY <2>1, <2>2, <2>3, <2>4, LocalStepKeepsSuccess
<1>2. CASE Dispatch(r)
  <2>1. attempt[r] \in 1..MaxAttempts
    BY <1>2 DEF SuccessRecord, Dispatch
  <2>2. TypeOK'
    BY <1>2, <2>1 DEF TypeOK, AuthorityTypeOK, Dispatch, dbVars, Stages
  <2>3. \A t \in Records : t # r => Same(t)
    BY <1>2 DEF Same, Dispatch, TypeOK, dbVars
  <2>4. UNCHANGED <<dbVars, attempt, ops, answer, applied, pruned>>
    BY <1>2 DEF Dispatch
  <2>5. QED
    BY <2>1, <2>2, <2>3, <2>4, LocalStepKeepsSuccess
<1>3. QED
  BY <1>1, <1>2

\* The awaited operation failed: nobody is told that it succeeded.
LEMMA OperationFailedKeepsSuccess ==
  ASSUME SuccessInv, NEW r \in Records, NEW left \in SUBSET ops[r],
         OperationFailed(r, left), UNCHANGED <<dbVars, effectVars, pruned>>
  PROVE  SuccessInv'
<1> TypeOK
  BY DEF SuccessInv
<1> DEFINE status == IF verdict[r] = "DENIED" THEN "DENIED" ELSE "UNKNOWN"
<1>1. /\ status \in {"DENIED", "UNKNOWN"} /\ OperationFor(status) \in {"fail", "unknown"}
  BY DEF OperationFor
<1>2. CASE stage[r] = "settling"
  <2>1. PICK told \in Told(status) : Leave(r, "done", told)
    BY <1>2 DEF OperationFailed, Answer
  <2>2. ops' = [ops EXCEPT ![r] = left]
    BY <1>2 DEF OperationFailed
  <2> HIDE DEF status
  <2>3. told \in Statuses \cup {"none"} /\ told # "SUCCEEDED"
    BY <1>1, <2>1 DEF Told, Statuses
  <2>4. QED
    BY <2>1, <2>2, <2>3, LeaveKeepsSuccess
<1>3. CASE stage[r] = "finishing"
  <2>1. /\ stage' = [stage EXCEPT ![r] = "settling"]
        /\ verdict' = [verdict EXCEPT ![r] = status]
        /\ ops' = [ops EXCEPT ![r] = left \cup {OperationFor(status)}]
        /\ UNCHANGED <<dbVars, attempt, started, answer, running, applied, pruned>>
    BY <1>3 DEF OperationFailed, effectVars
  <2> HIDE DEF status
  <2>2. TypeOK'
    <3>1. /\ ops' \in [Records -> SUBSET Operations]
          /\ verdict' \in [Records -> Statuses \cup {"none"}]
          /\ stage' \in [Records -> Stages]
      BY <1>1, <2>1 DEF TypeOK, Statuses, Stages, Operations
    <3>2. QED
      BY <2>1, <3>1 DEF TypeOK, AuthorityTypeOK, dbVars
  <2>3. \A t \in Records : t # r => Same(t)
    BY <2>1 DEF Same, TypeOK, dbVars
  <2>4. stage'[r] = "settling" /\ ops'[r] = left \cup {OperationFor(status)}
    BY <2>1 DEF TypeOK
  <2>5. QED
    BY <1>1, <2>1, <2>2, <2>3, <2>4, LocalStepKeepsSuccess
<1>4. QED
  BY <1>2, <1>3 DEF OperationFailed

\* Operations that fail, time out or are abandoned.
LEMMA SettlingStepsKeepSuccess ==
  ASSUME SuccessInv, NEW r \in Records,
         \/ \E op \in Operations : OperationRaises(r, op)
         \/ OperationTimesOut(r) \/ CancelledSettling(r) \/ Crash(r)
  PROVE  SuccessInv'
<1> TypeOK /\ SuccessRecord(r)
  BY DEF SuccessInv
<1>1. ASSUME NEW op \in Operations, OperationRaises(r, op)
      PROVE  SuccessInv'
  <2>1. UNCHANGED <<dbVars, effectVars, pruned>>
    BY <1>1 DEF OperationRaises
  <2>2. CASE Waiting(r, op)
    BY <1>1, <2>1, <2>2, OperationFailedKeepsSuccess DEF OperationRaises
  <2>3. CASE ~ Waiting(r, op)
    <3>1. /\ ops' = [ops EXCEPT ![r] = ops[r] \ {op}]
          /\ UNCHANGED <<stage, attempt, started, verdict, answer>>
      BY <1>1, <2>3 DEF OperationRaises
    <3>2. TypeOK'
      BY <2>1, <3>1 DEF TypeOK, AuthorityTypeOK, dbVars, effectVars
    <3>3. \A t \in Records : t # r => Same(t)
      BY <2>1, <3>1 DEF Same, TypeOK, dbVars, effectVars
    <3>4. ops'[r] \subseteq ops[r] /\ applied' = applied
      BY <2>1, <3>1 DEF TypeOK, effectVars
    <3>5. stage'[r] \in {"preparing", "dispatched"} => attempt'[r] \in 1..MaxAttempts
      BY <3>1 DEF SuccessRecord
    <3>6. QED
      BY <2>1, <3>1, <3>2, <3>3, <3>4, <3>5, LocalStepKeepsSuccess
  <2>4. QED
    BY <2>2, <2>3
<1>2. CASE OperationTimesOut(r)
  BY <1>2, OperationFailedKeepsSuccess DEF OperationTimesOut
<1>3. CASE CancelledSettling(r)
  <2>1. Leave(r, "done", "none") /\ ops' = [ops EXCEPT ![r] = ops[r]]
        /\ UNCHANGED <<dbVars, effectVars, pruned>>
    BY <1>3 DEF CancelledSettling, TypeOK
  <2>2. QED
    BY <2>1, LeaveKeepsSuccess
<1>4. CASE Crash(r)
  <2>1. Leave(r, "crashed", answer[r]) /\ ops' = [ops EXCEPT ![r] = {}]
        /\ UNCHANGED <<dbVars, effectVars, pruned>>
    BY <1>4 DEF Crash
  <2>2. answer[r] \in Statuses \cup {"none"}
    BY DEF TypeOK
  <2>3. QED
    BY <2>1, <2>2, LeaveKeepsSuccess
<1>5. QED
  BY <1>1, <1>2, <1>3, <1>4

\* The three ways a claim is committed: nothing is told or found of it yet.
LEMMA AcquireKeepsSuccess ==
  ASSUME AuthorityInv, AuthorityTypeOK', SuccessInv, NEW r \in Records, NEW k \in Keys,
         NEW f \in Fingerprints,
         AcquireOwner(r, k, f) \/ AcquireOrphaned(r, k, f) \/ AcquireDropped(r, k, f)
  PROVE  SuccessInv'
<1> TypeOK /\ SuccessRecord(r)
  BY DEF SuccessInv
<1>1. Claim(r, k, f) /\ UNCHANGED <<running, applied, pruned>>
  BY DEF AcquireOwner, AcquireOrphaned, AcquireDropped, effectVars
<1>2. /\ rows'[r].state = "pending" /\ \A t \in Records : t # r => rows'[t] = rows[t]
      /\ attempts' = attempts /\ issued' = issued \cup {r} /\ r \notin issued
  BY <1>1, SMTT(30) DEF Claim, AuthorityInv, AuthorityTypeOK
<1>3. rows[r].state # "completed" /\ r \notin pruned /\ answer[r] # "SUCCEEDED"
  <2>1. rows[r] = NoRow
    BY <1>2 DEF AuthorityInv, IssuedCoversTables
  <2>2. QED
    BY <1>2, <2>1, SMTT(30) DEF SuccessRecord, NoRow
<1>4. PICK o \in SUBSET Operations :
        ops' = [ops EXCEPT ![r] = o] /\ ("complete" \in o => "complete" \in ops[r])
  <2>1. CASE ops' = ops
    <3>1. ops' = [ops EXCEPT ![r] = ops[r]] /\ ops[r] \in SUBSET Operations
      BY <2>1 DEF TypeOK
    <3>2. QED
      BY <3>1
  <2>2. CASE ops' = [ops EXCEPT ![r] = {"unknown"}]
    <3>1. {"unknown"} \in SUBSET Operations /\ "complete" \notin {"unknown"}
      BY DEF Operations
    <3>2. QED
      BY <2>2, <3>1
  <2>3. QED
    BY <2>1, <2>2 DEF AcquireOwner, AcquireOrphaned, AcquireDropped
<1>5. /\ TypeOK' /\ answer'[r] # "SUCCEEDED" /\ stage'[r] \in {"claimed", "done"}
      /\ \A t \in Records : t # r => Same(t)
  <2>1. ops' \in [Records -> SUBSET Operations]
    BY <1>4 DEF TypeOK
  <2>2. CASE AcquireOwner(r, k, f)
    <3>1. TypeOK'
      BY <2>2 DEF AcquireOwner, TypeOK, effectVars, Stages
    <3>2. stage'[r] = "claimed" /\ answer' = answer
      BY <2>2 DEF AcquireOwner, TypeOK
    <3>3. \A t \in Records : t # r => Same(t)
      BY <1>2, <2>2 DEF AcquireOwner, Same, TypeOK, effectVars
    <3>4. QED
      BY <1>3, <3>1, <3>2, <3>3
  <2>3. CASE AcquireOrphaned(r, k, f) \/ AcquireDropped(r, k, f)
    <3>1. PICK status \in {"UNKNOWN", "FAILED", "none"} : Leave(r, "done", status)
      BY <2>3 DEF AcquireOrphaned, AcquireDropped, Answer, Told
    <3>2. TypeOK'
      BY <1>1, <2>1, <3>1, LeaveTyped DEF TypeOK, Statuses
    <3>3. stage'[r] = "done" /\ answer'[r] = status
      BY <3>1 DEF Leave, TypeOK
    <3>4. \A t \in Records : t # r => Same(t)
      BY <1>1, <1>2, <1>4, <3>1 DEF Leave, Same, TypeOK
    <3>5. QED
      BY <3>1, <3>2, <3>3, <3>4
  <2>4. QED
    BY <2>2, <2>3
<1>6. "complete" \in ops'[r] => "complete" \in ops[r]
  BY <1>4 DEF TypeOK
<1>7. SuccessRecord(r)'
  BY <1>1, <1>2, <1>3, <1>5, <1>6 DEF SuccessRecord
<1>8. QED
  BY <1>2, <1>5, <1>7, SuccessFrame

\* The lease of a pending row is renewed, lapses or is found lapsed.
LEMMA RowStepsKeepSuccess ==
  ASSUME AuthorityInv, AuthorityTypeOK', SuccessInv, NEW r \in Records,
         \/ \E k \in Keys, f \in Fingerprints : AcquireExpired(r, k, f)
         \/ RenewLease(r) \/ Time(r)
  PROVE  SuccessInv'
<1> TypeOK /\ SuccessRecord(r)
  BY DEF SuccessInv
<1>1. /\ UNCHANGED <<runVars, effectVars, pruned, issued, attempts>>
      /\ rows[r].state = "pending"
  BY DEF AcquireExpired, ExpireLease, RenewLease, Renew, Owned, Time, LeaseLapses
<1>2. rows'[r].state \in {"pending", "unknown"} /\ \A t \in Records : t # r => rows'[t] = rows[t]
  BY SMTT(30)
     DEF AcquireExpired, ExpireLease, SetRowState, RenewLease, Renew, Time, LeaseLapses, Owned,
         AuthorityInv, AuthorityTypeOK, Row
<1>3. TypeOK'
  BY <1>1 DEF TypeOK, runVars, effectVars
<1>4. \A t \in Records : t # r => Same(t)
  BY <1>1, <1>2 DEF Same, runVars, effectVars
<1>5. SuccessRecord(r)'
  BY <1>1, <1>2 DEF SuccessRecord, runVars, effectVars
<1>6. QED
  BY <1>1, <1>3, <1>4, <1>5, SuccessFrame

\* A worker commits an operation while the row is pending.
LEMMA CommitKeepsSuccess ==
  ASSUME AuthorityInv, AuthorityTypeOK', SuccessInv, NEW r \in Records, NEW op \in Operations,
         OperationCommits(r, op)
  PROVE  SuccessInv'
<1> TypeOK /\ SuccessRecord(r)
  BY DEF SuccessInv
<1>1. op \in ops[r] /\ UNCHANGED <<running, applied, pruned>>
      /\ ops' = [ops EXCEPT ![r] = ops[r] \ {op}]
  BY DEF OperationCommits, effectVars
<1>2. /\ rows[r].state = "pending" /\ UNCHANGED <<issued, attempts>>
      /\ \A t \in Records : t # r => rows'[t] = rows[t]
      /\ op = "complete" => rows'[r].state = "completed"
      /\ op # "complete" => rows'[r].state \in {"absent", "unknown"}
  <2>1. CASE op = "complete"
    BY <2>1, SMTT(30) DEF OperationCommits, Transaction, Complete, Owned, SetRowState, AuthorityInv,
                AuthorityTypeOK, Row
  <2>2. CASE op = "fail"
    BY <2>2, SMTT(30)
       DEF OperationCommits, Transaction, Fail, Owned, NoRow, AuthorityInv, AuthorityTypeOK
  <2>3. CASE op = "unknown"
    BY <2>3, SMTT(30)
       DEF OperationCommits, Transaction, RecordUnknown, Owned, SetRowState, AuthorityInv,
                AuthorityTypeOK, Row
  <2>4. QED
    BY <2>1, <2>2, <2>3 DEF Operations
<1>3. ops' \in [Records -> SUBSET Operations] /\ ops'[r] \subseteq ops[r]
  BY <1>1 DEF TypeOK
<1>4. answer'[r] = "SUCCEEDED" => answer[r] = "SUCCEEDED" \/ op = "complete"
  <2>1. CASE Waiting(r, op)
    <3>1. PICK told \in Told(verdict[r]) : Leave(r, "done", told)
      BY <2>1 DEF OperationCommits, Answer
    <3>2. answer'[r] = told
      BY <3>1 DEF Leave, TypeOK
    <3>3. told = "SUCCEEDED" => verdict[r] = "SUCCEEDED"
      BY <3>1 DEF Told
    <3>4. QED
      BY <2>1, <3>2, <3>3 DEF Waiting, OperationFor
  <2>2. CASE ~ Waiting(r, op)
    BY <2>2 DEF OperationCommits
  <2>3. QED
    BY <2>1, <2>2
<1>5. /\ TypeOK' /\ (stage'[r] = "done" \/ UNCHANGED <<stage, attempt>>)
      /\ \A t \in Records : t # r => Same(t)
  <2>1. CASE Waiting(r, op)
    <3>1. PICK told \in Told(verdict[r]) : Leave(r, "done", told)
      BY <2>1 DEF OperationCommits, Answer
    <3>2. told \in Statuses \cup {"none"}
      BY <3>1 DEF Told, TypeOK, Statuses
    <3>3. TypeOK'
      BY <1>1, <1>3, <3>1, <3>2, LeaveTyped DEF TypeOK
    <3>4. \A t \in Records : t # r => Same(t)
      BY <1>1, <1>2, <3>1 DEF Same, Leave, TypeOK
    <3>5. stage'[r] = "done"
      BY <3>1 DEF Leave, TypeOK
    <3>6. QED
      BY <3>3, <3>4, <3>5
  <2>2. CASE ~ Waiting(r, op)
    <3>1. UNCHANGED <<stage, attempt, started, verdict, answer>>
      BY <2>2 DEF OperationCommits
    <3>2. TypeOK'
      BY <1>1, <1>3, <3>1 DEF TypeOK
    <3>3. \A t \in Records : t # r => Same(t)
      BY <1>1, <1>2, <3>1 DEF Same, TypeOK
    <3>4. QED
      BY <3>1, <3>2, <3>3
  <2>3. QED
    BY <2>1, <2>2
<1>6. SuccessRecord(r)'
  BY <1>1, <1>2, <1>3, <1>4, <1>5 DEF SuccessRecord
<1>7. QED
  BY <1>2, <1>5, <1>6, SuccessFrame

\* A body acts or ends: what was applied stays applied.
LEMMA EffectKeepsSuccess ==
  ASSUME SuccessInv, NEW r \in Records, Effect(r)
  PROVE  SuccessInv'
<1> TypeOK /\ SuccessRecord(r)
  BY DEF SuccessInv
<1>1. PICK n \in 1..MaxAttempts : BodyApplies(r, n) \/ BodyEnds(r, n)
  BY DEF Effect
<1>2. /\ UNCHANGED <<dbVars, runVars, pruned>>
      /\ \/ applied' = [applied EXCEPT ![r] = applied[r] \cup {n}] /\ running' = running
         \/ running' = [running EXCEPT ![r] = running[r] \ {n}] /\ applied' = applied
  BY <1>1 DEF BodyApplies, BodyEnds
<1>3. TypeOK'
  <2>1. /\ applied' \in [Records -> SUBSET (1..MaxAttempts)]
        /\ running' \in [Records -> SUBSET (1..MaxAttempts)]
    <3>1. /\ applied \in [Records -> SUBSET (1..MaxAttempts)]
          /\ running \in [Records -> SUBSET (1..MaxAttempts)]
      BY DEF TypeOK
    <3>2. applied[r] \cup {n} \in SUBSET (1..MaxAttempts)
      BY <3>1
    <3>3. running[r] \ {n} \in SUBSET (1..MaxAttempts)
      BY <3>1
    <3>4. QED
      BY ONLY <1>2, <3>1, <3>2, <3>3, ZenonT(40)
  <2>2. QED
    BY <1>2, <2>1 DEF TypeOK, AuthorityTypeOK, dbVars, runVars
<1>4. \A t \in Records : t # r => Same(t)
  BY <1>2 DEF Same, TypeOK, dbVars, runVars
<1>5. applied[r] \subseteq applied'[r]
  BY <1>2 DEF TypeOK
<1>6. SuccessRecord(r)'
  BY <1>2, <1>5 DEF SuccessRecord, dbVars, runVars
<1>7. QED
  BY <1>2, <1>3, <1>4, <1>6, SuccessFrame DEF dbVars

\* A ledger transaction confirms only a success that was.
LEMMA LedgerStepKeepsSuccess ==
  ASSUME AuthorityTypeOK', SuccessInv, NEW r \in Records,
         UNCHANGED <<issued, runVars, effectVars, pruned>>,
         \A t \in Records : t # r => rows'[t] = rows[t] /\ attempts'[t] = attempts[t],
         \A a \in Attempts :
           attempts'[r][a].finding.state = "CONFIRMED_SUCCEEDED" => applied[r] # {},
         \/ rows'[r].state = rows[r].state
         \/ /\ rows[r].state # "completed"
            /\ rows'[r].state \in {"completed", "applied_no_result"} => applied[r] # {}
  PROVE  SuccessInv'
<1> TypeOK /\ SuccessRecord(r)
  BY DEF SuccessInv
<1>1. TypeOK'
  BY DEF TypeOK, runVars, effectVars
<1>2. \A t \in Records : t # r => Same(t)
  BY DEF Same, runVars, effectVars
<1>3. UNCHANGED <<stage, attempt, ops, answer, applied>>
  BY DEF runVars, effectVars
<1>4. SuccessRecord(r)'
  BY <1>3 DEF SuccessRecord
<1>5. QED
  BY <1>1, <1>2, <1>4, SuccessFrame

\* What is found to have succeeded was applied.
LEMMA ReconcileKeepsSuccess ==
  ASSUME AuthorityTypeOK', SuccessInv, NEW r \in Records, Reconcile(r)
  PROVE  SuccessInv'
<1>1. AuthorityTypeOK /\ SuccessRecord(r)
  BY DEF SuccessInv, TypeOK
<1>2. Reconciled(r)
  BY <1>1, ReconcileChanges
<1>3. \A finding : Known(r, finding) /\ finding.state = "CONFIRMED_SUCCEEDED" => applied[r] # {}
  BY <1>1 DEF Known, SuccessRecord, Truthful
<1>4. \A a \in Attempts :
        attempts'[r][a].finding.state = "CONFIRMED_SUCCEEDED" => applied[r] # {}
  BY <1>2, <1>3 DEF Reconciled
<1>5. \/ rows'[r].state = rows[r].state
      \/ /\ rows[r].state # "completed"
         /\ rows'[r].state \in {"completed", "applied_no_result"} => applied[r] # {}
  BY <1>2, <1>3 DEF Reconciled
<1>6. /\ UNCHANGED <<issued, runVars, effectVars, pruned>>
      /\ \A t \in Records : t # r => rows'[t] = rows[t] /\ attempts'[t] = attempts[t]
  BY <1>2 DEF Reconciled
<1>7. QED
  BY <1>4, <1>5, <1>6, LedgerStepKeepsSuccess

\* Pruning deletes results that were stored, and remembers that it did.
LEMMA PruneKeepsSuccess ==
  ASSUME AuthorityInv, AuthorityTypeOK', SuccessInv, NEW S \in SUBSET Records, Prune(S)
  PROVE  SuccessInv'
<1>1. /\ S \subseteq Prunable /\ pruned' = pruned \cup S
      /\ rows' = [r \in Records |-> IF r \in S THEN NoRow ELSE rows[r]]
      /\ UNCHANGED <<issued, attempts, runVars, effectVars>>
  BY DEF Prune, PruneCompleted
<1>2. UNCHANGED <<stage, attempt, ops, answer, applied>>
  BY <1>1 DEF runVars, effectVars
<1>3. TypeOK'
  BY <1>1 DEF SuccessInv, TypeOK, runVars, effectVars
<1>4. ASSUME NEW t \in Records
      PROVE  SuccessRecord(t)'
  <2>1. SuccessRecord(t)
    BY DEF SuccessInv
  <2>2. CASE t \notin S
    BY <1>1, <1>2, <2>1, <2>2 DEF SuccessRecord
  <2>3. CASE t \in S
    <3>1. rows'[t].state = "absent" /\ rows[t].state = "completed"
      BY <1>1, <2>3 DEF Prunable, NoRow
    <3>2. t \in issued
      BY <3>1, SMTT(30) DEF AuthorityInv, IssuedCoversTables, NoRow
    <3>3. QED
      BY <1>1, <1>2, <2>1, <2>3, <3>1, <3>2 DEF SuccessRecord
  <2>4. QED
    BY <2>2, <2>3
<1>5. QED
  BY <1>3, <1>4 DEF SuccessInv

\* Every step of the runtime preserves the invariant.
LEMMA StepKeepsSuccess ==
  ASSUME AuthorityInv, AuthorityInv', SuccessInv, [Next]_vars
  PROVE  SuccessInv'
<1>1. AuthorityTypeOK /\ AuthorityTypeOK'
  BY DEF AuthorityInv
<1>2. ASSUME NEW r \in Records, Invocation(r)
      PROVE  SuccessInv'
  <2>1. ASSUME NEW k \in Keys, NEW f \in Fingerprints,
               \/ AcquireOwner(r, k, f) \/ AcquireOrphaned(r, k, f)
               \/ AcquireDropped(r, k, f)
        PROVE  SuccessInv'
    BY <1>1, <2>1, AcquireKeepsSuccess
  <2>2. ASSUME NEW k \in Keys, NEW f \in Fingerprints, AcquireExpired(r, k, f)
        PROVE  SuccessInv'
    BY <1>1, <2>2, RowStepsKeepSuccess
  <2>3. CASE RenewLease(r)
    BY <1>1, <2>3, RowStepsKeepSuccess
  <2>4. CASE \/ DeniedAtCommit(r) \/ PrepareFails(r) \/ Cancelled(r) \/ BodyReturns(r)
             \/ BodyRaises(r) \/ MiddlewareRaises(r) \/ AttemptTimesOut(r)
    BY <2>4, RunningStepsKeepSuccess
  <2>5. CASE StartExecution(r) \/ Dispatch(r)
    BY <2>5, DispatchingKeepsSuccess
  <2>6. CASE \E op \in Operations : OperationCommits(r, op)
    BY <1>1, <2>6, CommitKeepsSuccess
  <2>7. CASE \/ \E op \in Operations : OperationRaises(r, op)
             \/ OperationTimesOut(r) \/ CancelledSettling(r) \/ Crash(r)
    BY <2>7, SettlingStepsKeepSuccess
  <2>8. QED
    BY <1>2, <2>1, <2>2, <2>3, <2>4, <2>5, <2>6, <2>7 DEF Invocation
<1>3. ASSUME NEW r \in Records, Effect(r)
      PROVE  SuccessInv'
  BY <1>3, EffectKeepsSuccess
<1>4. ASSUME NEW r \in Records, Reconcile(r)
      PROVE  SuccessInv'
  BY <1>1, <1>4, ReconcileKeepsSuccess
<1>5. ASSUME NEW r \in Records, Time(r)
      PROVE  SuccessInv'
  BY <1>1, <1>5, RowStepsKeepSuccess
<1>6. ASSUME NEW S \in SUBSET Records, Prune(S)
      PROVE  SuccessInv'
  BY <1>1, <1>6, PruneKeepsSuccess
<1>7. CASE UNCHANGED vars
  <2>1. /\ UNCHANGED <<issued, rows, prepared, heads, attempts, outbox, pruned>>
        /\ UNCHANGED <<stage, attempt, started, verdict, ops, answer, running, applied>>
    BY <1>7 DEF vars, dbVars, runVars, effectVars
  <2>2. TypeOK'
    BY <1>1, <2>1 DEF SuccessInv, TypeOK
  <2>3. \A t \in Records : SuccessRecord(t)'
    BY <2>1 DEF SuccessInv, SuccessRecord
  <2>4. QED
    BY <2>2, <2>3 DEF SuccessInv
<1>8. QED
  BY <1>2, <1>3, <1>4, <1>5, <1>6, <1>7 DEF Next

\* However often RetryMiddleware dispatches the body, whatever a middleware
\* raises after it and whatever times out or crashes, the account of what
\* succeeded holds.
THEOREM SuccessInvHolds == Spec => []SuccessInv
<1>1. Init => SuccessInv
  <2> SUFFICES ASSUME Init PROVE SuccessInv
    OBVIOUS
  <2>1. TypeOK
    BY InitEstablishesExecutionInv DEF ExecutionInv
  <2>2. ASSUME NEW r \in Records PROVE SuccessRecord(r)
    <3>1. \A a \in Attempts : attempts[r][a].finding.state = "none"
      BY DEF Init, AuthorityInit, NoAttempt, NoFinding
    <3>2. QED
      BY <3>1 DEF Init, AuthorityInit, NoRow, SuccessRecord
  <2>3. QED
    BY <2>1, <2>2 DEF SuccessInv
<1>2. AuthorityInv /\ AuthorityInv' /\ SuccessInv /\ [Next]_vars => SuccessInv'
  BY StepKeepsSuccess
<1>3. QED
  BY <1>1, <1>2, ExecutionKeepsAuthority, PTL DEF Spec

\* The runtime's variables keep their types, and an execution never gets
\* past its last attempt.
THEOREM ExecutionTypeCorrect == Spec => []TypeOK
<1>1. SuccessInv => TypeOK
  BY DEF SuccessInv
<1>2. QED
  BY <1>1, SuccessInvHolds, PTL

\* A stored result was produced by the tool, and a caller told SUCCEEDED
\* finds it stored, with retries and with any middleware.
THEOREM SuccessesAreRecorded == Spec => []SuccessIsRecorded
<1>1. SuccessInv => SuccessIsRecorded
  BY DEF SuccessInv, SuccessRecord, SuccessIsRecorded
<1>2. QED
  BY <1>1, SuccessInvHolds, PTL
=============================================================================
