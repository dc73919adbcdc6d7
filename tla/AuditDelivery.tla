--------------------------- MODULE AuditDelivery ---------------------------
(***************************************************************************)
(* Delivery of the reconciliation audit outbox (runtime.py): workflows     *)
(* read the pending envelopes, write each to a source-idempotent sink and  *)
(* acknowledge it.  Ledger operations run on worker threads through a      *)
(* channel of the process.  An operation that times out disables           *)
(* ("poisons") the channel, and one whose caller is cancelled suspends it  *)
(* until the thread is done.  Writes to the sink may be late, and a        *)
(* process may die at any point.                                           *)
(***************************************************************************)
EXTENDS Naturals, Sequences, FiniteSets

CONSTANTS
    Executions,     \* execution records that the ledger has heads for
    Processes,      \* runtimes that share the ledger and the sink
    Workers,        \* drain workflows, each with room for one operation
    Home,           \* the process of a worker
    MaxRevision,    \* bound on the revisions of an execution
    MaxLimit        \* bound on the limit of a drain of all executions

ASSUME HomeAssumption == Home \in [Workers -> Processes]

ASSUME BoundsAssumption == MaxRevision \in Nat /\ MaxLimit \in Nat

VARIABLES
    head,           \* head[e]: envelopes enqueued, one per revision
    acked,          \* acked[e]: revisions with delivered_at set
    log,            \* log[e]: revisions in the sink, as written
    poison,         \* _reconciliation_poison of a process: why, or "none"
    draining,       \* _reconciliation_draining of a process
    late,           \* writes to the sink that nobody waits for
    worker          \* the workflows

vars == <<head, acked, log, poison, draining, late, worker>>

Envelopes == [execution : Executions, revision : 1..MaxRevision]

NoEnvelope == [execution |-> "none", revision |-> 0]

Causes == {"none", "timeout", "deadline", "error", "refused"}

(* The locals of a drain: the operation it is in, who waits for that       *)
(* operation, the executions it drains, how many envelopes it may still    *)
(* deliver, the envelopes it has read, the one it is at, and whether the   *)
(* deadline of its caller has passed.                                      *)
Workflows ==
    [step : {"idle", "reading", "writing", "marking", "recording"},
     waiter : {"caller", "resume", "nobody"},
     scope : SUBSET Executions,
     left : Nat,
     batch : SUBSET Envelopes,
     current : Envelopes \cup {NoEnvelope},
     expired : BOOLEAN]

Idle ==
    [step |-> "idle", waiter |-> "caller", scope |-> {}, left |-> 0,
     batch |-> {}, current |-> NoEnvelope, expired |-> FALSE]

TypeOK ==
    /\ head \in [Executions -> 0..MaxRevision]
    /\ acked \in [Executions -> SUBSET (1..MaxRevision)]
    /\ log \in [Executions -> Seq(1..MaxRevision)]
    /\ poison \in [Processes -> Causes]
    /\ draining \in [Processes -> Nat]
    /\ late \in [Processes -> SUBSET Envelopes]
    /\ worker \in [Workers -> Workflows]

Init ==
    /\ head = [e \in Executions |-> 0]
    /\ acked = [e \in Executions |-> {}]
    /\ log = [e \in Executions |-> <<>>]
    /\ poison = [p \in Processes |-> "none"]
    /\ draining = [p \in Processes |-> 0]
    /\ late = [p \in Processes |-> {}]
    /\ worker = [w \in Workers |-> Idle]

-----------------------------------------------------------------------------

(* A mutation of the ledger enqueues the envelope of its revision in the   *)
(* same transaction.                                                       *)
Enqueue(e) ==
    /\ head[e] < MaxRevision
    /\ head' = [head EXCEPT ![e] = @ + 1]
    /\ UNCHANGED <<acked, log, poison, draining, late, worker>>

(* Mutant: the query does not hold back what has an earlier revision       *)
(* pending.                                                                *)
(* Mutant: the revision after the head counts as pending.                  *)
PendingBeyondHead(S) ==
    {n \in Envelopes :
        /\ n.execution \in S
        /\ n.revision <= head[n.execution] + 1
        /\ n.revision \notin acked[n.execution]
        /\ \A r \in 1..(n.revision - 1) : r \in acked[n.execution]}

(* Mutant: an envelope is held back until it is acknowledged itself.       *)
PendingNever(S) ==
    {n \in Envelopes :
        /\ n.execution \in S
        /\ n.revision <= head[n.execution]
        /\ n.revision \notin acked[n.execution]
        /\ \A r \in 1..n.revision : r \in acked[n.execution]}

(* The query of pending_audit_events: of each execution the first revision *)
(* that is not acknowledged.                                               *)
Pending(S) ==
    {n \in Envelopes :
        /\ n.execution \in S
        /\ n.revision <= head[n.execution]
        /\ n.revision \notin acked[n.execution]
        /\ \A r \in 1..(n.revision - 1) : r \in acked[n.execution]}

(* What write_idempotent makes of the sink: a known source is not written  *)
(* again.                                                                  *)
Written(n) ==
    LET written == log[n.execution]
    IN  IF \E i \in DOMAIN written : written[i] = n.revision
        THEN log
        ELSE [log EXCEPT ![n.execution] = Append(@, n.revision)]

(* _raise_if_reconciliation_poisoned passes.                               *)
Open(p) == poison[p] = "none" /\ draining[p] = 0

(* _poison_reconciliation keeps the first cause.                           *)
Poisoned(p, cause) ==
    [poison EXCEPT ![p] = IF @ = "none" THEN cause ELSE @]

-----------------------------------------------------------------------------
(* What a workflow does next, up to its next await.                        *)

Become(w, workflow) == worker' = [worker EXCEPT ![w] = workflow]

(* A delivery or its acknowledgement failed: the failure is recorded, and  *)
(* the workflow returns or raises after that.  If the channel refuses the  *)
(* record, the handler of that error poisons it; if the caller has no time *)
(* left, the error is dropped.                                             *)
RecordFailure(w) ==
    LET me == worker[w]
    IN  IF ~ Open(Home[w])
        THEN poison' = Poisoned(Home[w], "refused") /\ Become(w, Idle)
        ELSE /\ UNCHANGED poison
             /\ Become(w, IF me.expired THEN Idle ELSE [me EXCEPT !.step = "recording"])

(* The envelope is in the sink and is acknowledged.                        *)
Acknowledge(w) ==
    IF Open(Home[w]) /\ ~ worker[w].expired
    THEN Become(w, [worker[w] EXCEPT !.step = "marking"]) /\ UNCHANGED poison
    ELSE RecordFailure(w)

(* The drain reads pending envelopes, if the channel is open and there is  *)
(* time left.                                                              *)
ReadMore(w, me) ==
    /\ Become(w, IF Open(Home[w]) /\ ~ me.expired
                 THEN [me EXCEPT !.step = "reading", !.current = NoEnvelope]
                 ELSE Idle)
    /\ UNCHANGED poison

(* The drain comes to an envelope of the batch.  With no time left the     *)
(* delivery raises before it starts.                                       *)
DeliverOne(w, me) ==
    IF me.expired
    THEN RecordFailure(w)
    ELSE /\ \E n \in me.batch :
               Become(w, [me EXCEPT !.step = "writing", !.current = n, !.batch = @ \ {n}])
         /\ UNCHANGED poison

-----------------------------------------------------------------------------

(* _drain_reconciliation_audit_outbox is called: for one execution, by     *)
(* whoever changed its head, or with a limit for all of them.              *)
Start(w, S, limit) ==
    /\ worker[w] = Idle
    /\ Open(Home[w])
    /\ Become(w, [Idle EXCEPT !.step = "reading", !.scope = S, !.left = limit])
    /\ UNCHANGED <<head, acked, log, poison, draining, late>>

StartOne(w) == \E e \in Executions : Start(w, {e}, MaxRevision + 1)

StartAll(w) == \E limit \in 1..MaxLimit : Start(w, Executions, limit)

(* The deadline of the caller passes.                                      *)
Expire(w) ==
    /\ worker[w].step # "idle"
    /\ worker[w].waiter = "caller"
    /\ ~ worker[w].expired
    /\ Become(w, [worker[w] EXCEPT !.expired = TRUE])
    /\ UNCHANGED <<head, acked, log, poison, draining, late>>

(* pending_audit_events returns.                                           *)
ReadReturns(w) ==
    LET me == worker[w]
        pending == Pending(me.scope)
    IN  /\ me.step = "reading"
        /\ me.waiter = "caller"
        /\ IF pending = {}
           THEN Become(w, Idle) /\ UNCHANGED poison
           ELSE \E envelopes \in SUBSET pending :
                  /\ \/ Cardinality(envelopes) = me.left
                     \/ envelopes = pending /\ Cardinality(pending) < me.left
                  /\ DeliverOne(w, [me EXCEPT !.batch = envelopes])
        /\ UNCHANGED <<head, acked, log, draining, late>>

(* The sink returns in time.                                               *)
WriteReturns(w) ==
    /\ worker[w].step = "writing"
    /\ log' = Written(worker[w].current)
    /\ Acknowledge(w)
    /\ UNCHANGED <<head, acked, draining, late>>

(* The sink raises, or has no capacity.                                    *)
WriteRaises(w) ==
    /\ worker[w].step = "writing"
    /\ RecordFailure(w)
    /\ UNCHANGED <<head, acked, log, draining, late>>

(* Mutant: a delivery that is still under way is acknowledged.             *)
WriteTimesOutAcked(w) ==
    /\ worker[w].step = "writing"
    /\ late' = [late EXCEPT ![Home[w]] = @ \cup {worker[w].current}]
    /\ Acknowledge(w)
    /\ UNCHANGED <<head, acked, log, draining>>

(* The delivery exceeds its budget; the thread goes on.                    *)
WriteTimesOut(w) ==
    /\ worker[w].step = "writing"
    /\ late' = [late EXCEPT ![Home[w]] = @ \cup {worker[w].current}]
    /\ RecordFailure(w)
    /\ UNCHANGED <<head, acked, log, draining>>

(* A write that nobody waits for reaches the sink, or fails.               *)
LateWrite(p) ==
    \E n \in late[p] :
        /\ late' = [late EXCEPT ![p] = @ \ {n}]
        /\ log' \in {log, Written(n)}
        /\ UNCHANGED <<head, acked, poison, draining, worker>>

(* mark_audit_event_delivered commits.                                     *)
Mark(n) == acked' = [acked EXCEPT ![n.execution] = @ \cup {n.revision}]

MarkReturns(w) ==
    LET me == worker[w]
        after == [me EXCEPT !.left = @ - 1]
    IN  /\ me.step = "marking"
        /\ me.waiter = "caller"
        /\ Mark(me.current)
        /\ IF after.left = 0
           THEN Become(w, Idle) /\ UNCHANGED poison
           ELSE IF me.batch = {} THEN ReadMore(w, after) ELSE DeliverOne(w, after)
        /\ UNCHANGED <<head, log, draining, late>>

(* record_audit_delivery_failure returns, and the workflow with it.        *)
RecordReturns(w) ==
    /\ worker[w].step = "recording"
    /\ worker[w].waiter = "caller"
    /\ Become(w, Idle)
    /\ UNCHANGED <<head, acked, log, poison, draining, late>>

(* A ledger operation raises: the database is busy or failed, or the       *)
(* bulkhead of the channel has no permit in time.                          *)
OperationRaises(w) ==
    LET me == worker[w]
    IN  /\ me.waiter = "caller"
        /\ \/ me.step = "reading" /\ Become(w, Idle) /\ UNCHANGED poison
           \/ me.step = "marking" /\ RecordFailure(w)
           \/ /\ me.step = "recording"
              /\ Become(w, Idle)
              /\ poison' = Poisoned(Home[w], "error")
        /\ UNCHANGED <<head, acked, log, draining, late>>

(* A ledger operation is not done within its timeout, which is shorter if  *)
(* the caller has a deadline.  The channel is poisoned, so the failure     *)
(* cannot be recorded and the workflow ends; the thread goes on.           *)
OperationTimesOut(w) ==
    LET me == worker[w]
    IN  /\ me.step \in {"reading", "marking", "recording"}
        /\ me.waiter = "caller"
        /\ poison' = Poisoned(Home[w], IF me.expired THEN "deadline" ELSE "timeout")
        /\ Become(w, [me EXCEPT !.waiter = "nobody", !.batch = {}, !.expired = FALSE])
        /\ UNCHANGED <<head, acked, log, draining, late>>

(* The task of the workflow is cancelled.  A ledger operation that already *)
(* runs suspends the channel; a write to the sink just goes on.            *)
Cancel(w) ==
    LET me == worker[w]
        p == Home[w]
    IN  /\ me.step # "idle"
        /\ me.waiter = "caller"
        /\ \/ Become(w, Idle) /\ UNCHANGED <<draining, late>>
           \/ /\ me.step = "writing"
              /\ late' = [late EXCEPT ![p] = @ \cup {me.current}]
              /\ Become(w, Idle)
              /\ UNCHANGED draining
           \/ /\ me.step # "writing"
              /\ draining' = [draining EXCEPT ![p] = IF poison[p] = "none" THEN @ + 1 ELSE @]
              /\ Become(w, [me EXCEPT !.waiter = "resume", !.batch = {}, !.expired = FALSE])
              /\ UNCHANGED late
        /\ UNCHANGED <<head, acked, log, poison>>

(* A detached ledger operation is done, with its effect or without, and    *)
(* the channel is resumed if it was suspended.                             *)
FinishDetached(w) ==
    LET me == worker[w]
        p == Home[w]
    IN  /\ me.waiter # "caller"
        /\ \/ UNCHANGED acked
           \/ me.step = "marking" /\ Mark(me.current)
        /\ draining' = IF me.waiter = "resume" /\ draining[p] > 0
                       THEN [draining EXCEPT ![p] = @ - 1]
                       ELSE draining
        /\ Become(w, Idle)
        /\ UNCHANGED <<head, log, poison, late>>

(* A process dies, and another one takes its place.                        *)
Restart(p) ==
    /\ worker' = [w \in Workers |-> IF Home[w] = p THEN Idle ELSE worker[w]]
    /\ late' = [late EXCEPT ![p] = {}]
    /\ poison' = [poison EXCEPT ![p] = "none"]
    /\ draining' = [draining EXCEPT ![p] = 0]
    /\ UNCHANGED <<head, acked, log>>

Next ==
    \/ \E e \in Executions : Enqueue(e)
    \/ \E p \in Processes : LateWrite(p) \/ Restart(p)
    \/ \E w \in Workers :
          \/ StartOne(w) \/ StartAll(w) \/ Expire(w)
          \/ ReadReturns(w)
          \/ WriteReturns(w) \/ WriteRaises(w) \/ WriteTimesOut(w)
          \/ MarkReturns(w) \/ RecordReturns(w)
          \/ OperationRaises(w) \/ OperationTimesOut(w)
          \/ Cancel(w) \/ FinishDetached(w)

Spec == Init /\ [][Next]_vars

(* Loops and threads run, the application starts the recovery worker again *)
(* whenever it has ended, and a process with a poisoned ledger is          *)
(* restarted.                                                              *)
Fairness ==
    /\ \A w \in Workers :
          /\ WF_vars(StartAll(w))
          /\ WF_vars(ReadReturns(w))
          /\ WF_vars(WriteReturns(w))
          /\ WF_vars(MarkReturns(w))
          /\ WF_vars(RecordReturns(w))
          /\ WF_vars(FinishDetached(w))
    /\ \A p \in Processes : WF_vars(poison[p] # "none" /\ Restart(p))

FairSpec == Spec /\ Fairness

-----------------------------------------------------------------------------

(* Per execution, the sink holds the revisions in order, each once, though *)
(* deliveries are repeated, late and made by several processes             *)
(* (pending_audit_events, write_idempotent).                               *)
SinkInOrder ==
    \A e \in Executions : \A i \in DOMAIN log[e] : log[e][i] = i

(* An envelope is acknowledged only when it is in the sink: no timeout,    *)
(* cancellation or crash of _drain_reconciliation_audit_outbox between the *)
(* write and the acknowledgement loses one.                                *)
AckedIsWritten ==
    \A e \in Executions : \A r \in acked[e] : \E i \in DOMAIN log[e] : log[e][i] = r

(* A channel that is not poisoned is suspended exactly while operations of *)
(* cancelled callers still run: _suspend_reconciliation and                *)
(* _resume_reconciliation are paired in every order of completion.         *)
SuspensionIsExact ==
    \A p \in Processes :
        poison[p] = "none" =>
            draining[p] = Cardinality({w \in Workers : Home[w] = p /\ worker[w].waiter = "resume"})

(* What a sink, a caller, the database or the machine do to a delivery. A  *)
(* step that is also the regular return of a call disturbs nothing.        *)
Disturbance ==
    /\ \A w \in Workers :
          ~ (ReadReturns(w) \/ WriteReturns(w) \/ MarkReturns(w) \/ RecordReturns(w))
    /\ \/ \E p \in Processes : poison[p] = "none" /\ Restart(p)
       \/ \E w \in Workers :
             \/ Expire(w) \/ Cancel(w) \/ WriteRaises(w) \/ WriteTimesOut(w)
             \/ OperationRaises(w) \/ OperationTimesOut(w)

(* No sequence of timeouts, cancellations and crashes leaves an envelope   *)
(* behind: once they stop, everything committed is acknowledged            *)
(* (_resume_reconciliation, the loop of _drain_reconciliation_audit_outbox *)
(* and its next call).                                                     *)
EventuallyDelivered ==
    <>[][~ Disturbance]_vars =>
        \A e \in Executions : \A r \in 1..MaxRevision : (head[e] >= r) ~> (r \in acked[e])

Feed == INSTANCE AuditFeed WITH
    committed <- head,
    reported <- [e \in Executions |-> Len(log[e])]

(* Delivery implements the feed: whatever the workflows do, the sink gets  *)
(* the next revision of an execution or nothing.                           *)
RefinesFeed == Feed!FeedSpec
=============================================================================
