------------------------ MODULE AuditDeliveryProofs -------------------------
(***************************************************************************)
(* Proofs about the delivery of the audit outbox, for any sets of          *)
(* executions, processes and workflows.  The argument: an envelope is read *)
(* only when all earlier revisions are acknowledged, acknowledgements are  *)
(* never taken back, and a revision is acknowledged only after its write,  *)
(* so however late a write arrives, it is for a revision the sink has or   *)
(* for the next one.                                                       *)
(***************************************************************************)
EXTENDS AuditDelivery, TLAPS

USE ZenonT(40)

(* The tables and the sink: h is head, k acked, l log.                     *)
DataOK(h, k, l) ==
    /\ h \in [Executions -> 0..MaxRevision]
    /\ k \in [Executions -> SUBSET (1..MaxRevision)]
    /\ l \in [Executions -> Seq(1..MaxRevision)]
    /\ \A e \in Executions :
          /\ \A i \in 1..Len(l[e]) : l[e][i] = i
          /\ Len(l[e]) <= h[e]
          /\ \A r \in k[e] : r <= Len(l[e])

(* An envelope that somebody has read: committed, and next in order.       *)
Sound(n, h, k) ==
    /\ n \in Envelopes
    /\ n.revision <= h[n.execution]
    /\ \A r \in 1..(n.revision - 1) : r \in k[n.execution]

(* A workflow: what it read is sound, and what it acknowledges is written. *)
WorkflowOK(v, h, k, l) ==
    /\ v \in Workflows
    /\ v.step # "idle" => v.left > 0
    /\ \A n \in v.batch : Sound(n, h, k)
    /\ v.step \in {"writing", "marking"} => Sound(v.current, h, k)
    /\ v.step = "marking" => v.current.revision <= Len(l[v.current.execution])

(* The inductive invariant.                                                *)
DeliveryInv ==
    /\ DataOK(head, acked, log)
    /\ poison \in [Processes -> Causes]
    /\ draining \in [Processes -> Nat]
    /\ late \in [Processes -> SUBSET Envelopes]
    /\ \A p \in Processes : \A n \in late[p] : Sound(n, head, acked)
    /\ worker \in [Workers -> Workflows]
    /\ \A w \in Workers : WorkflowOK(worker[w], head, acked, log)

(* What every step does to the tables and the sink.                        *)
Grows(h, k, l, h2, k2, l2) ==
    /\ DataOK(h2, k2, l2)
    /\ \A e \in Executions : h[e] <= h2[e] /\ k[e] \subseteq k2[e] /\ Len(l[e]) <= Len(l2[e])

-----------------------------------------------------------------------------
\* A workflow that returned is in order.
LEMMA IdleIsOK ==
  ASSUME NEW h, NEW k, NEW l
  PROVE  WorkflowOK(Idle, h, k, l) /\ Idle \in Workflows
BY DEF WorkflowOK, Idle, Workflows

\* Tables and sinks that only grow keep what was read sound.
LEMMA GrowthKeepsSound ==
  ASSUME NEW h, NEW k, NEW l, NEW h2, NEW k2, NEW l2, DataOK(h, k, l),
         Grows(h, k, l, h2, k2, l2), NEW n, Sound(n, h, k)
  PROVE  Sound(n, h2, k2)
<1>1. n.execution \in Executions /\ n.revision \in 1..MaxRevision
  BY DEF Sound, Envelopes
<1>2. h[n.execution] \in Nat /\ h2[n.execution] \in Nat /\ h[n.execution] <= h2[n.execution]
  BY <1>1, BoundsAssumption, SMTT(30) DEF Grows, DataOK
<1>3. n.revision <= h2[n.execution]
  BY <1>1, <1>2, BoundsAssumption, SMTT(30) DEF Sound
<1>4. QED
  BY <1>1, <1>3 DEF Sound, Grows

\* Tables and sinks that only grow keep a workflow in order.
LEMMA GrowthKeepsWorkflow ==
  ASSUME NEW h, NEW k, NEW l, NEW h2, NEW k2, NEW l2, DataOK(h, k, l),
         Grows(h, k, l, h2, k2, l2), NEW v, WorkflowOK(v, h, k, l)
  PROVE  WorkflowOK(v, h2, k2, l2)
<1>1. /\ v \in Workflows /\ v.step # "idle" => v.left > 0
      /\ \A n \in v.batch : Sound(n, h2, k2)
      /\ v.step \in {"writing", "marking"} => Sound(v.current, h2, k2)
  BY GrowthKeepsSound DEF WorkflowOK
<1>2. ASSUME v.step = "marking"
      PROVE  v.current.revision <= Len(l2[v.current.execution])
  <2>1. /\ v.current.execution \in Executions /\ v.current.revision \in Nat
        /\ v.current.revision <= Len(l[v.current.execution])
    BY <1>2, BoundsAssumption, SMTT(30) DEF WorkflowOK, Sound, Envelopes
  <2>2. /\ Len(l[v.current.execution]) \in Nat /\ Len(l2[v.current.execution]) \in Nat
        /\ Len(l[v.current.execution]) <= Len(l2[v.current.execution])
    BY <2>1, SMTT(30) DEF DataOK, Grows
  <2>3. QED
    BY <2>1, <2>2, SMTT(30)
<1>3. QED
  BY <1>1, <1>2 DEF WorkflowOK

\* Nothing grows by nothing.
LEMMA NoGrowth ==
  ASSUME NEW h, NEW k, NEW l, DataOK(h, k, l)
  PROVE  Grows(h, k, l, h, k, l)
<1>1. \A e \in Executions : h[e] \in Nat /\ Len(l[e]) \in Nat
  BY BoundsAssumption, SMTT(30) DEF DataOK
<1>2. QED
  BY <1>1, SMTT(30) DEF Grows

\* write_idempotent of a sound envelope adds the next revision, or nothing.
LEMMA WrittenProperties ==
  ASSUME DataOK(head, acked, log), NEW n, Sound(n, head, acked)
  PROVE  /\ Grows(head, acked, log, head, acked, Written(n))
         /\ n.revision <= Len(Written(n)[n.execution])
         /\ \/ Written(n) = log
            \/ /\ Len(log[n.execution]) < head[n.execution]
               /\ \A e \in Executions :
                    Len(Written(n)[e]) = IF e = n.execution THEN Len(log[e]) + 1 ELSE Len(log[e])
<1> DEFINE x == n.execution
           r == n.revision
           s == log[x]
<1>1. /\ x \in Executions /\ r \in 1..MaxRevision /\ r \in Nat /\ r >= 1 /\ r <= head[x]
      /\ \A q \in 1..(r - 1) : q \in acked[x]
  BY BoundsAssumption, SMTT(30) DEF Sound, Envelopes
<1>2. /\ s \in Seq(1..MaxRevision) /\ Len(s) \in Nat /\ DOMAIN s = 1..Len(s)
      /\ \A i \in 1..Len(s) : s[i] = i
      /\ Len(s) <= head[x] /\ head[x] \in Nat
      /\ \A q \in acked[x] : q <= Len(s)
  BY <1>1, BoundsAssumption, SMTT(30) DEF DataOK
<1> HIDE DEF x, r, s
<1>3. CASE r <= Len(s)
  <2>1. r \in 1..Len(s) /\ s[r] = r
    BY <1>1, <1>2, <1>3, SMTT(30)
  <2>2. Written(n) = log
    BY <1>2, <2>1 DEF Written, x, r, s
  <2>3. QED
    BY <1>3, <2>2, NoGrowth DEF x, r, s
<1>4. CASE r > Len(s)
  <2>1. r = Len(s) + 1
    <3>1. CASE r = 1
      BY <1>2, <1>4, <3>1, SMTT(30)
    <3>2. CASE r > 1
      <4>1. r - 1 \in acked[x]
        BY <1>1, <3>2, SMTT(30)
      <4>2. r - 1 <= Len(s)
        BY <1>2, <4>1
      <4>3. QED
        BY <1>1, <1>2, <1>4, <4>2, SMTT(30)
    <3>3. QED
      BY <1>1, <3>1, <3>2, SMTT(30)
  <2> DEFINE t == Append(s, r)
  <2>2. /\ t \in Seq(1..MaxRevision) /\ Len(t) = Len(s) + 1
        /\ \A i \in 1..Len(t) : t[i] = i
    BY <1>1, <1>2, <2>1, SMTT(30)
  <2>3. ~ \E i \in DOMAIN s : s[i] = r
    BY <1>2, <1>4, SMTT(30)
  <2>4. Written(n) = [log EXCEPT ![x] = t]
    BY <2>3 DEF Written, x, r, s
  <2> HIDE DEF t
  <2>5. /\ Written(n) \in [Executions -> Seq(1..MaxRevision)]
        /\ Written(n)[x] = t
        /\ \A e \in Executions : e # x => Written(n)[e] = log[e]
    BY <1>1, <2>2, <2>4 DEF DataOK
  <2>6. ASSUME NEW e \in Executions
        PROVE  /\ \A i \in 1..Len(Written(n)[e]) : Written(n)[e][i] = i
               /\ Len(Written(n)[e]) <= head[e]
               /\ \A q \in acked[e] : q <= Len(Written(n)[e])
               /\ Len(log[e]) <= Len(Written(n)[e])
               /\ Len(Written(n)[e]) = IF e = x THEN Len(log[e]) + 1 ELSE Len(log[e])
    <3>1. CASE e = x
      <4>1. \A q \in acked[x] : q \in Nat
        BY <1>1, BoundsAssumption, SMTT(30) DEF DataOK
      <4>2. QED
        BY <1>1, <1>2, <2>1, <2>2, <2>5, <3>1, <4>1, SMTT(30) DEF s
    <3>2. CASE e # x
      BY <2>5, <3>2, SMTT(30) DEF DataOK
    <3>3. QED
      BY <3>1, <3>2
  <2>7. DataOK(head, acked, Written(n))
    BY <2>5, <2>6 DEF DataOK
  <2>8. \A e \in Executions : head[e] <= head[e]
    BY BoundsAssumption, SMTT(30) DEF DataOK
  <2>9. Grows(head, acked, log, head, acked, Written(n))
    BY <2>6, <2>7, <2>8 DEF Grows
  <2>10. r <= Len(Written(n)[x]) /\ Len(log[x]) < head[x]
    BY <1>1, <1>2, <2>1, <2>2, <2>5, SMTT(30) DEF s
  <2>11. QED
    BY <2>6, <2>9, <2>10 DEF x, r
<1>5. QED
  BY <1>1, <1>2, <1>3, <1>4, SMTT(30)

\* mark_audit_event_delivered of a written envelope.
LEMMA MarkProperties ==
  ASSUME DataOK(head, acked, log), NEW n \in Envelopes,
         n.revision <= Len(log[n.execution]), Mark(n)
  PROVE  Grows(head, acked, log, head, acked', log)
<1>1. n.execution \in Executions /\ n.revision \in 1..MaxRevision
  BY DEF Envelopes
<1>2. /\ acked' \in [Executions -> SUBSET (1..MaxRevision)]
      /\ \A e \in Executions :
           acked'[e] = IF e = n.execution THEN acked[e] \cup {n.revision} ELSE acked[e]
  BY <1>1 DEF Mark, DataOK
<1>3. \A e \in Executions : head[e] \in Nat /\ Len(log[e]) \in Nat
  BY BoundsAssumption, SMTT(30) DEF DataOK
<1>4. \A e \in Executions : \A r \in acked'[e] : r <= Len(log[e])
  BY <1>2 DEF DataOK
<1>5. DataOK(head, acked', log)
  BY <1>2, <1>4 DEF DataOK
<1>6. QED
  BY <1>2, <1>3, <1>5, SMTT(30) DEF Grows

-----------------------------------------------------------------------------
(* What a step of one workflow establishes.                                *)
GoodStep(w, v) ==
    /\ w \in Workers
    /\ Grows(head, acked, log, head', acked', log')
    /\ worker' = [worker EXCEPT ![w] = v]
    /\ WorkflowOK(v, head', acked', log')

(* What it leaves of the channels and the late writes.                     *)
GoodChannels ==
    /\ poison' \in [Processes -> Causes]
    /\ draining' \in [Processes -> Nat]
    /\ late' \in [Processes -> SUBSET Envelopes]
    /\ \A p \in Processes : \A n \in late'[p] : Sound(n, head', acked')

\* Such a step keeps the invariant, whatever the other workflows are at.
LEMMA GoodStepKeepsInv ==
  ASSUME DeliveryInv, NEW w, NEW v, GoodStep(w, v), GoodChannels
  PROVE  DeliveryInv'
<1>1. DataOK(head', acked', log')
  BY DEF GoodStep, Grows
<1>2. v \in Workflows
  BY DEF GoodStep, WorkflowOK
<1>3. /\ worker' \in [Workers -> Workflows]
      /\ worker'[w] = v /\ \A x \in Workers : x # w => worker'[x] = worker[x]
  BY <1>2 DEF GoodStep, DeliveryInv
<1>4. ASSUME NEW x \in Workers
      PROVE  WorkflowOK(worker'[x], head', acked', log')
  <2>1. CASE x = w
    BY <1>3, <2>1 DEF GoodStep
  <2>2. CASE x # w
    BY <1>3, <2>2, GrowthKeepsWorkflow DEF GoodStep, DeliveryInv
  <2>3. QED
    BY <2>1, <2>2
<1>5. QED
  BY <1>1, <1>3, <1>4 DEF DeliveryInv, GoodChannels

\* Late writes stay sound while tables and sink grow.
LEMMA LateStaysSound ==
  ASSUME DeliveryInv, Grows(head, acked, log, head', acked', log'), late' = late
  PROVE  /\ late' \in [Processes -> SUBSET Envelopes]
         /\ \A p \in Processes : \A n \in late'[p] : Sound(n, head', acked')
BY GrowthKeepsSound DEF DeliveryInv

\* _poison_reconciliation stores a cause.
LEMMA PoisonedType ==
  ASSUME DeliveryInv, NEW p, NEW cause \in Causes
  PROVE  Poisoned(p, cause) \in [Processes -> Causes]
BY DEF DeliveryInv, Poisoned

\* The failure path leaves a workflow in order, and stores a cause at most.
LEMMA RecordFailureProperties ==
  ASSUME DeliveryInv, NEW w \in Workers, RecordFailure(w),
         worker[w].step \in {"reading", "writing", "marking"},
         Grows(head, acked, log, head', acked', log')
  PROVE  poison' \in [Processes -> Causes] /\ \E v : GoodStep(w, v)
<1> DEFINE me == worker[w]
           rec == [me EXCEPT !.step = "recording"]
<1>1. me \in Workflows /\ WorkflowOK(me, head', acked', log')
  BY GrowthKeepsWorkflow DEF DeliveryInv
<1>2. WorkflowOK(rec, head', acked', log')
  BY <1>1 DEF WorkflowOK, Workflows
<1>3. WorkflowOK(Idle, head', acked', log')
  BY IdleIsOK
<1>4. "refused" \in Causes /\ poison \in [Processes -> Causes]
  BY DEF Causes, DeliveryInv
<1>5. CASE ~ Open(Home[w])
  <2>1. poison' = Poisoned(Home[w], "refused") /\ worker' = [worker EXCEPT ![w] = Idle]
    BY <1>5 DEF RecordFailure, Become
  <2>2. QED
    BY <1>3, <1>4, <2>1, PoisonedType DEF GoodStep
<1>6. CASE Open(Home[w])
  <2>1. /\ poison' = poison
        /\ worker' = [worker EXCEPT ![w] = IF me.expired THEN Idle ELSE rec]
    BY <1>6 DEF RecordFailure, Become
  <2>2. QED
    BY <1>2, <1>3, <1>4, <2>1 DEF GoodStep
<1>7. QED
  BY <1>5, <1>6

\* Coming to an envelope of a sound batch leaves a workflow in order.
LEMMA DeliverOneProperties ==
  ASSUME DeliveryInv, NEW w \in Workers, NEW me, DeliverOne(w, me),
         worker[w].step \in {"reading", "marking"},
         Grows(head, acked, log, head', acked', log'),
         me \in Workflows, me.left > 0, \A n \in me.batch : Sound(n, head', acked')
  PROVE  poison' \in [Processes -> Causes] /\ \E v : GoodStep(w, v)
<1>1. CASE me.expired
  BY <1>1, RecordFailureProperties DEF DeliverOne
<1>2. CASE ~ me.expired
  <2>1. PICK n \in me.batch :
          worker' = [worker EXCEPT ![w] =
              [me EXCEPT !.step = "writing", !.current = n, !.batch = me.batch \ {n}]]
    BY <1>2 DEF DeliverOne, Become
  <2> DEFINE v == [me EXCEPT !.step = "writing", !.current = n, !.batch = me.batch \ {n}]
  <2>2. n \in Envelopes
    BY DEF Sound
  <2>3. /\ v \in Workflows /\ v.step = "writing" /\ v.left = me.left
        /\ v.current = n /\ v.batch = me.batch \ {n}
    BY <2>2 DEF Workflows
  <2> HIDE DEF v
  <2>4. WorkflowOK(v, head', acked', log')
    BY <2>3 DEF WorkflowOK
  <2>5. poison' = poison
    BY <1>2 DEF DeliverOne
  <2>6. QED
    BY <2>1, <2>4, <2>5 DEF GoodStep, DeliveryInv, v
<1>3. QED
  BY <1>1, <1>2

-----------------------------------------------------------------------------
\* A fresh ledger and a fresh sink.
LEMMA InitEstablishesDeliveryInv == Init => DeliveryInv
<1> SUFFICES ASSUME Init PROVE DeliveryInv
  OBVIOUS
<1>1. \A w \in Workers : worker[w] = Idle
  BY DEF Init
<1>2. worker \in [Workers -> Workflows]
  BY IdleIsOK DEF Init
<1>3. DataOK(head, acked, log)
  BY BoundsAssumption, SMTT(30) DEF Init, DataOK
<1>4. QED
  BY <1>1, <1>2, <1>3, IdleIsOK DEF Init, DeliveryInv, Causes

\* A new revision and its envelope.
LEMMA EnqueueKeepsInv ==
  ASSUME DeliveryInv, NEW e \in Executions, Enqueue(e)
  PROVE  DeliveryInv'
<1>1. UNCHANGED <<acked, log, poison, draining, late, worker>>
  BY DEF Enqueue
<1>2. /\ head' \in [Executions -> 0..MaxRevision]
      /\ \A x \in Executions : head[x] \in Nat /\ head'[x] \in Nat /\ head[x] <= head'[x]
  BY BoundsAssumption, SMTT(30) DEF Enqueue, DeliveryInv, DataOK
<1>3. \A x \in Executions : Len(log[x]) \in Nat /\ Len(log[x]) <= head[x]
  BY SMTT(30) DEF DeliveryInv, DataOK
<1>4. \A x \in Executions : Len(log[x]) <= head'[x]
  BY <1>2, <1>3, SMTT(30)
<1>5. DataOK(head', acked', log')
  BY <1>1, <1>2, <1>4 DEF DeliveryInv, DataOK
<1>6. Grows(head, acked, log, head', acked', log')
  BY <1>1, <1>2, <1>3, <1>5, SMTT(30) DEF Grows
<1>7. \A w \in Workers : WorkflowOK(worker'[w], head', acked', log')
  BY <1>1, <1>6, GrowthKeepsWorkflow DEF DeliveryInv
<1>8. QED
  BY <1>1, <1>5, <1>6, <1>7, LateStaysSound DEF DeliveryInv

\* A late write reaches the sink or fails.
LEMMA LateWriteKeepsInv ==
  ASSUME DeliveryInv, NEW p \in Processes, LateWrite(p)
  PROVE  DeliveryInv'
<1>1. PICK n \in late[p] :
        /\ late' = [late EXCEPT ![p] = late[p] \ {n}]
        /\ log' \in {log, Written(n)}
        /\ UNCHANGED <<head, acked, poison, draining, worker>>
  BY DEF LateWrite
<1>2. DataOK(head, acked, log) /\ Sound(n, head, acked)
  BY DEF DeliveryInv
<1>3. Grows(head, acked, log, head', acked', log')
  BY <1>1, <1>2, NoGrowth, WrittenProperties
<1>4. \A w \in Workers : WorkflowOK(worker'[w], head', acked', log')
  BY <1>1, <1>3, GrowthKeepsWorkflow DEF DeliveryInv
<1>5. /\ late' \in [Processes -> SUBSET Envelopes]
      /\ \A q \in Processes : late'[q] \subseteq late[q]
  BY <1>1 DEF DeliveryInv
<1>6. \A q \in Processes : \A m \in late'[q] : Sound(m, head', acked')
  BY <1>1, <1>5 DEF DeliveryInv
<1>7. QED
  BY <1>1, <1>3, <1>4, <1>5, <1>6 DEF DeliveryInv, Grows

\* A process is replaced.
LEMMA RestartKeepsInv ==
  ASSUME DeliveryInv, NEW p \in Processes, Restart(p)
  PROVE  DeliveryInv'
<1>1. UNCHANGED <<head, acked, log>>
  BY DEF Restart
<1>2. /\ worker' \in [Workers -> Workflows]
      /\ \A w \in Workers : worker'[w] = Idle \/ worker'[w] = worker[w]
  BY IdleIsOK DEF Restart, DeliveryInv
<1>3. \A w \in Workers : WorkflowOK(worker'[w], head', acked', log')
  BY <1>1, <1>2, IdleIsOK DEF DeliveryInv
<1>4. /\ late' \in [Processes -> SUBSET Envelopes]
      /\ \A q \in Processes : late'[q] \subseteq late[q]
  BY DEF Restart, DeliveryInv
<1>5. poison' \in [Processes -> Causes] /\ draining' \in [Processes -> Nat]
  BY DEF Restart, DeliveryInv, Causes
<1>6. QED
  BY <1>1, <1>2, <1>3, <1>4, <1>5 DEF DeliveryInv

\* Steps of a workflow that leave tables, sink and channels alone.
LEMMA LocalStepsKeepInv ==
  ASSUME DeliveryInv, NEW w \in Workers,
         StartOne(w) \/ StartAll(w) \/ Expire(w) \/ RecordReturns(w)
  PROVE  DeliveryInv'
<1> DEFINE me == worker[w]
<1>1. UNCHANGED <<head, acked, log, poison, draining, late>>
  BY DEF StartOne, StartAll, Start, Expire, RecordReturns
<1>2. Grows(head, acked, log, head', acked', log')
  BY <1>1, NoGrowth DEF DeliveryInv
<1>3. GoodChannels
  BY <1>1, <1>2, LateStaysSound DEF GoodChannels, DeliveryInv
<1>4. ASSUME NEW S \in SUBSET Executions, NEW limit \in Nat \ {0}, Start(w, S, limit)
      PROVE  \E v : GoodStep(w, v)
  <2> DEFINE v == [Idle EXCEPT !.step = "reading", !.scope = S, !.left = limit]
  <2>0. Idle \in Workflows /\ Idle.batch = {}
    BY IdleIsOK DEF Idle
  <2>1. WorkflowOK(v, head', acked', log')
    <3>1. v \in Workflows /\ v.step = "reading" /\ v.left > 0 /\ v.batch = {}
      <4>1. \A u \in Workflows :
              /\ [u EXCEPT !.step = "reading", !.scope = S, !.left = limit] \in Workflows
              /\ [u EXCEPT !.step = "reading", !.scope = S, !.left = limit].step = "reading"
              /\ [u EXCEPT !.step = "reading", !.scope = S, !.left = limit].left = limit
              /\ [u EXCEPT !.step = "reading", !.scope = S, !.left = limit].batch = u.batch
        BY DEF Workflows
      <4>2. v \in Workflows /\ v.step = "reading" /\ v.left = limit /\ v.batch = Idle.batch
        BY <2>0, <4>1
      <4> HIDE DEF v
      <4>3. QED
        BY <2>0, <4>2, SMTT(30)
    <3> HIDE DEF v
    <3>2. QED
      BY <3>1 DEF WorkflowOK
  <2>2. worker' = [worker EXCEPT ![w] = v]
    BY <1>4 DEF Start, Become
  <2>3. QED
    BY <1>2, <2>1, <2>2 DEF GoodStep
<1>5. CASE StartOne(w)
  <2>1. MaxRevision + 1 \in Nat \ {0}
    BY BoundsAssumption, SMTT(30)
  <2>2. PICK e \in Executions : Start(w, {e}, MaxRevision + 1)
    BY <1>5 DEF StartOne
  <2>3. \E v : GoodStep(w, v)
    BY <1>4, <2>1, <2>2
  <2>4. QED
    BY <1>3, <2>3, GoodStepKeepsInv
<1>6. CASE StartAll(w)
  <2>1. 1..MaxLimit \subseteq Nat \ {0}
    BY BoundsAssumption, SMTT(30)
  <2>2. PICK limit \in 1..MaxLimit : Start(w, Executions, limit)
    BY <1>6 DEF StartAll
  <2>3. \E v : GoodStep(w, v)
    BY <1>4, <2>1, <2>2
  <2>4. QED
    BY <1>3, <2>3, GoodStepKeepsInv
<1>7. CASE Expire(w)
  <2> DEFINE v == [me EXCEPT !.expired = TRUE]
  <2>1. me \in Workflows /\ WorkflowOK(me, head', acked', log')
    BY <1>1 DEF DeliveryInv
  <2>2. WorkflowOK(v, head', acked', log')
    BY <2>1 DEF WorkflowOK, Workflows
  <2>3. GoodStep(w, v)
    BY <1>2, <1>7, <2>2 DEF GoodStep, Expire, Become
  <2>4. QED
    BY <1>3, <2>3, GoodStepKeepsInv
<1>8. CASE RecordReturns(w)
  <2>1. GoodStep(w, Idle)
    BY <1>2, <1>8, IdleIsOK DEF GoodStep, RecordReturns, Become
  <2>2. QED
    BY <1>3, <2>1, GoodStepKeepsInv
<1>9. QED
  BY <1>5, <1>6, <1>7, <1>8

\* The read: every envelope it returns is the next one of its execution.
LEMMA ReadKeepsInv ==
  ASSUME DeliveryInv, NEW w \in Workers, ReadReturns(w)
  PROVE  DeliveryInv'
<1> DEFINE me == worker[w]
<1>1. /\ UNCHANGED <<head, acked, log, draining, late>>
      /\ me.step = "reading" /\ me \in Workflows /\ WorkflowOK(me, head, acked, log)
  BY DEF ReadReturns, DeliveryInv
<1>2. Grows(head, acked, log, head', acked', log')
  BY <1>1, NoGrowth DEF DeliveryInv
<1>3. poison' \in [Processes -> Causes] /\ \E v : GoodStep(w, v)
  <2>1. CASE Pending(me.scope) = {}
    <3>1. GoodStep(w, Idle) /\ poison' = poison
      BY <1>2, <2>1, IdleIsOK DEF ReadReturns, GoodStep, Become
    <3>2. QED
      BY <3>1 DEF DeliveryInv
  <2>2. CASE Pending(me.scope) # {}
    <3>1. PICK envelopes \in SUBSET Pending(me.scope) :
            DeliverOne(w, [me EXCEPT !.batch = envelopes])
      BY <2>2 DEF ReadReturns
    <3>2. \A n \in envelopes : n \in Envelopes /\ Sound(n, head', acked')
      BY <1>1 DEF Pending, Sound
    <3> DEFINE v == [me EXCEPT !.batch = envelopes]
    <3>3. v \in Workflows /\ v.left > 0 /\ v.batch = envelopes
      BY <1>1, <3>2 DEF Workflows, WorkflowOK
    <3> HIDE DEF v
    <3>4. DeliverOne(w, v)
      BY <3>1 DEF v
    <3>5. QED
      BY <1>1, <1>2, <3>2, <3>3, <3>4, DeliverOneProperties
  <2>3. QED
    BY <2>1, <2>2
<1>4. GoodChannels
  BY <1>1, <1>2, <1>3, LateStaysSound DEF GoodChannels, DeliveryInv
<1>5. QED
  BY <1>3, <1>4, GoodStepKeepsInv

\* The sink answers in time, raises, or is late.
LEMMA WriteStepsKeepInv ==
  ASSUME DeliveryInv, NEW w \in Workers,
         WriteReturns(w) \/ WriteRaises(w) \/ WriteTimesOut(w)
  PROVE  DeliveryInv'
<1> DEFINE me == worker[w]
<1>1. /\ UNCHANGED <<head, acked, draining>> /\ me.step = "writing" /\ me \in Workflows
      /\ WorkflowOK(me, head, acked, log) /\ DataOK(head, acked, log)
  BY DEF WriteReturns, WriteRaises, WriteTimesOut, DeliveryInv
<1>2. Sound(me.current, head, acked)
  BY <1>1 DEF WorkflowOK
<1>3. CASE WriteReturns(w)
  <2>1. log' = Written(me.current) /\ Acknowledge(w) /\ late' = late
    BY <1>3 DEF WriteReturns
  <2>2. /\ Grows(head, acked, log, head', acked', log')
        /\ me.current.revision <= Len(log'[me.current.execution])
    BY <1>1, <1>2, <2>1, WrittenProperties
  <2>3. poison' \in [Processes -> Causes] /\ \E v : GoodStep(w, v)
    <3>1. CASE Open(Home[w]) /\ ~ me.expired
      <4> DEFINE v == [me EXCEPT !.step = "marking"]
      <4>1. worker' = [worker EXCEPT ![w] = v] /\ poison' = poison
        BY <2>1, <3>1 DEF Acknowledge, Become
      <4>2. WorkflowOK(me, head', acked', log')
        BY <1>1, <2>2, GrowthKeepsWorkflow
      <4>3. WorkflowOK(v, head', acked', log')
        BY <1>1, <2>2, <4>2 DEF WorkflowOK, Workflows
      <4>4. QED
        BY <2>2, <4>1, <4>3 DEF GoodStep, DeliveryInv
    <3>2. CASE ~ (Open(Home[w]) /\ ~ me.expired)
      <4>1. RecordFailure(w)
        BY <2>1, <3>2 DEF Acknowledge
      <4>2. QED
        BY <1>1, <2>2, <4>1, RecordFailureProperties
    <3>3. QED
      BY <3>1, <3>2
  <2>4. GoodChannels
    BY <1>1, <2>1, <2>2, <2>3, LateStaysSound DEF GoodChannels, DeliveryInv
  <2>5. QED
    BY <2>3, <2>4, GoodStepKeepsInv
<1>4. CASE WriteRaises(w) \/ WriteTimesOut(w)
  <2>1. /\ log' = log /\ RecordFailure(w)
        /\ \/ late' = late
           \/ late' = [late EXCEPT ![Home[w]] = late[Home[w]] \cup {me.current}]
    BY <1>4 DEF WriteRaises, WriteTimesOut
  <2>2. Grows(head, acked, log, head', acked', log')
    BY <1>1, <2>1, NoGrowth
  <2>3. poison' \in [Processes -> Causes] /\ \E v : GoodStep(w, v)
    BY <1>1, <2>1, <2>2, RecordFailureProperties
  <2>4. /\ late' \in [Processes -> SUBSET Envelopes]
        /\ \A p \in Processes : \A n \in late'[p] : n \in late[p] \/ n = me.current
    BY <1>2, <2>1, SMTT(30) DEF DeliveryInv, Sound
  <2>5. GoodChannels
    BY <1>1, <1>2, <2>3, <2>4 DEF GoodChannels, DeliveryInv
  <2>6. QED
    BY <2>3, <2>5, GoodStepKeepsInv
<1>5. QED
  BY <1>3, <1>4

\* The acknowledgement, after which the drain goes on.
LEMMA MarkKeepsInv ==
  ASSUME DeliveryInv, NEW w \in Workers, MarkReturns(w)
  PROVE  DeliveryInv'
<1> DEFINE me == worker[w]
           after == [me EXCEPT !.left = me.left - 1]
<1>1. /\ UNCHANGED <<head, log, draining, late>> /\ me.step = "marking" /\ me \in Workflows
      /\ WorkflowOK(me, head, acked, log) /\ DataOK(head, acked, log) /\ Mark(me.current)
  BY DEF MarkReturns, DeliveryInv
<1>2. me.current \in Envelopes /\ me.current.revision <= Len(log[me.current.execution])
  BY <1>1 DEF WorkflowOK, Sound
<1>3. Grows(head, acked, log, head', acked', log')
  BY <1>1, <1>2, MarkProperties
<1>4. WorkflowOK(me, head', acked', log')
  BY <1>1, <1>3, GrowthKeepsWorkflow
<1>5. /\ after \in Workflows /\ after.left = me.left - 1 /\ after.batch = me.batch
      /\ after.expired = me.expired
  BY <1>1, SMTT(30) DEF Workflows, WorkflowOK
<1>6. poison' \in [Processes -> Causes] /\ \E v : GoodStep(w, v)
  <2>0. poison \in [Processes -> Causes]
    BY DEF DeliveryInv
  <2>1. CASE after.left = 0
    <3>1. GoodStep(w, Idle) /\ poison' = poison
      BY <1>3, <2>1, IdleIsOK DEF MarkReturns, GoodStep, Become
    <3>2. QED
      BY <2>0, <3>1
  <2>2. CASE after.left # 0 /\ me.batch = {}
    <3> DEFINE v == IF Open(Home[w]) /\ ~ after.expired
                    THEN [after EXCEPT !.step = "reading", !.current = NoEnvelope]
                    ELSE Idle
    <3>1. ReadMore(w, after)
      BY <2>2 DEF MarkReturns
    <3>2. worker' = [worker EXCEPT ![w] = v] /\ poison' = poison
      BY <3>1 DEF ReadMore, Become
    <3>3. after.left > 0
      BY <1>1, <1>5, <2>2, SMTT(30) DEF Workflows
    <3>4. WorkflowOK([after EXCEPT !.step = "reading", !.current = NoEnvelope], head', acked', log')
      BY <1>4, <1>5, <3>3 DEF WorkflowOK, Workflows
    <3>5. WorkflowOK(v, head', acked', log')
      BY <3>4, IdleIsOK
    <3>6. GoodStep(w, v)
      BY <1>3, <3>2, <3>5 DEF GoodStep
    <3>7. QED
      BY <2>0, <3>2, <3>6
  <2>3. CASE after.left # 0 /\ me.batch # {}
    <3>1. DeliverOne(w, after)
      BY <2>3 DEF MarkReturns
    <3>2. after.left > 0 /\ \A n \in after.batch : Sound(n, head', acked')
      BY <1>1, <1>4, <1>5, <2>3, SMTT(30) DEF Workflows, WorkflowOK
    <3> HIDE DEF after
    <3>3. QED
      BY <1>1, <1>3, <1>5, <3>1, <3>2, DeliverOneProperties
  <2>4. QED
    BY <2>1, <2>2, <2>3
<1>7. GoodChannels
  BY <1>1, <1>3, <1>6, LateStaysSound DEF GoodChannels, DeliveryInv
<1>8. QED
  BY <1>6, <1>7, GoodStepKeepsInv

\* Ledger operations that raise, time out or are cancelled, and those that
\* finish when nobody waits for them.
LEMMA OperationStepsKeepInv ==
  ASSUME DeliveryInv, NEW w \in Workers,
         OperationRaises(w) \/ OperationTimesOut(w) \/ Cancel(w)
  PROVE  DeliveryInv'
<1> DEFINE me == worker[w]
           detached(waiter) == [me EXCEPT !.waiter = waiter, !.batch = {}, !.expired = FALSE]
<1>1. /\ UNCHANGED <<head, acked, log>> /\ me \in Workflows
      /\ WorkflowOK(me, head, acked, log) /\ DataOK(head, acked, log)
      /\ poison \in [Processes -> Causes] /\ draining \in [Processes -> Nat]
  BY DEF OperationRaises, OperationTimesOut, Cancel, DeliveryInv
<1>2. Grows(head, acked, log, head', acked', log')
  BY <1>1, NoGrowth
<1>3. worker' = [worker EXCEPT ![w] = Idle] => GoodStep(w, Idle)
  BY <1>2, IdleIsOK DEF GoodStep
<1>4. ASSUME NEW waiter \in {"resume", "nobody"}, worker' = [worker EXCEPT ![w] = detached(waiter)]
      PROVE  GoodStep(w, detached(waiter))
  <2>1. WorkflowOK(detached(waiter), head', acked', log')
    BY <1>1 DEF WorkflowOK, Workflows
  <2>2. QED
    BY <1>2, <1>4, <2>1 DEF GoodStep
<1>5. CASE OperationRaises(w)
  <2>1. draining' = draining /\ late' = late
    BY <1>5 DEF OperationRaises
  <2>2. poison' \in [Processes -> Causes] /\ \E v : GoodStep(w, v)
    <3>1. CASE me.step = "reading"
      BY <1>1, <1>3, <1>5, <3>1 DEF OperationRaises, Become
    <3>2. CASE me.step = "marking"
      <4>1. RecordFailure(w)
        BY <1>5, <3>2 DEF OperationRaises
      <4>2. QED
        BY <1>2, <3>2, <4>1, RecordFailureProperties
    <3>3. CASE me.step = "recording"
      <4>1. poison' = Poisoned(Home[w], "error") /\ worker' = [worker EXCEPT ![w] = Idle]
        BY <1>5, <3>3 DEF OperationRaises, Become
      <4>2. "error" \in Causes
        BY DEF Causes
      <4>3. QED
        BY <1>3, <4>1, <4>2, PoisonedType
    <3>4. QED
      BY <1>5, <3>1, <3>2, <3>3 DEF OperationRaises
  <2>3. GoodChannels
    BY <1>1, <1>2, <2>1, <2>2, LateStaysSound DEF GoodChannels
  <2>4. QED
    BY <2>2, <2>3, GoodStepKeepsInv
<1>6. CASE OperationTimesOut(w)
  <2>1. /\ draining' = draining /\ late' = late
        /\ worker' = [worker EXCEPT ![w] = detached("nobody")]
        /\ \E cause \in Causes : poison' = Poisoned(Home[w], cause)
    BY <1>6 DEF OperationTimesOut, Become, Causes
  <2>2. GoodStep(w, detached("nobody"))
    BY <1>4, <2>1
  <2>3. poison' \in [Processes -> Causes]
    BY <2>1, PoisonedType
  <2>4. GoodChannels
    BY <1>1, <1>2, <2>1, <2>3, LateStaysSound DEF GoodChannels
  <2>5. QED
    BY <2>2, <2>4, GoodStepKeepsInv
<1>7. CASE Cancel(w)
  <2>1. poison' = poison /\ \E v : GoodStep(w, v)
    BY <1>3, <1>4, <1>7 DEF Cancel, Become
  <2>2. draining' \in [Processes -> Nat]
    BY <1>1, <1>7, SMTT(30) DEF Cancel
  <2>3. /\ \/ late' = late
           \/ /\ me.step = "writing"
              /\ late' = [late EXCEPT ![Home[w]] = late[Home[w]] \cup {me.current}]
    BY <1>7 DEF Cancel
  <2>4. me.step = "writing" => Sound(me.current, head, acked)
    BY <1>1 DEF WorkflowOK
  <2>5. /\ late' \in [Processes -> SUBSET Envelopes]
        /\ \A p \in Processes : \A n \in late'[p] : n \in late[p] \/ Sound(n, head, acked)
    BY <2>3, <2>4, SMTT(30) DEF DeliveryInv, Sound
  <2>6. GoodChannels
    BY <1>1, <2>1, <2>2, <2>5 DEF GoodChannels, DeliveryInv
  <2>7. QED
    BY <2>1, <2>6, GoodStepKeepsInv
<1>8. QED
  BY <1>5, <1>6, <1>7

\* A detached ledger operation that ends keeps the invariant (_finish_detached_reconciliation).
LEMMA DetachedStepKeepsInv ==
  ASSUME DeliveryInv, NEW w \in Workers, FinishDetached(w)
  PROVE  DeliveryInv'
<1> DEFINE me == worker[w]
<1>1. /\ UNCHANGED <<head, log, poison, late>> /\ worker' = [worker EXCEPT ![w] = Idle]
      /\ WorkflowOK(me, head, acked, log) /\ DataOK(head, acked, log)
  BY DEF FinishDetached, Become, DeliveryInv
<1>2. Grows(head, acked, log, head', acked', log')
  <2>1. CASE UNCHANGED acked
    BY <1>1, <2>1, NoGrowth
  <2>2. CASE me.step = "marking" /\ Mark(me.current)
    <3>1. me.current \in Envelopes /\ me.current.revision <= Len(log[me.current.execution])
      BY <1>1, <2>2 DEF WorkflowOK, Sound
    <3>2. QED
      BY <1>1, <2>2, <3>1, MarkProperties
  <2>3. QED
    BY <2>1, <2>2 DEF FinishDetached
<1>3. GoodStep(w, Idle)
  BY <1>1, <1>2, IdleIsOK DEF GoodStep
<1>4. draining' \in [Processes -> Nat]
  <2>1. draining \in [Processes -> Nat] /\ Home[w] \in Processes
    BY HomeAssumption DEF DeliveryInv
  <2>2. draining[Home[w]] > 0 => draining[Home[w]] - 1 \in Nat
    BY <2>1, SMTT(30)
  <2>3. QED
    BY <2>1, <2>2 DEF FinishDetached
<1>5. GoodChannels
  BY <1>1, <1>2, <1>4, LateStaysSound DEF GoodChannels, DeliveryInv
<1>6. QED
  BY <1>3, <1>5, GoodStepKeepsInv

\* Every step keeps the invariant.
LEMMA StepKeepsDeliveryInv ==
  ASSUME DeliveryInv, [Next]_vars
  PROVE  DeliveryInv'
<1>1. CASE UNCHANGED vars
  BY <1>1 DEF vars, DeliveryInv
<1>2. ASSUME NEW e \in Executions, Enqueue(e) PROVE DeliveryInv'
  BY <1>2, EnqueueKeepsInv
<1>3. ASSUME NEW p \in Processes, LateWrite(p) \/ Restart(p) PROVE DeliveryInv'
  BY <1>3, LateWriteKeepsInv, RestartKeepsInv
<1>4. ASSUME NEW w \in Workers, StartOne(w) \/ StartAll(w) \/ Expire(w) \/ RecordReturns(w)
      PROVE  DeliveryInv'
  BY <1>4, LocalStepsKeepInv
<1>5. ASSUME NEW w \in Workers, WriteReturns(w) \/ WriteRaises(w) \/ WriteTimesOut(w)
      PROVE  DeliveryInv'
  BY <1>5, WriteStepsKeepInv
<1>6. ASSUME NEW w \in Workers, OperationRaises(w) \/ OperationTimesOut(w) \/ Cancel(w)
      PROVE  DeliveryInv'
  BY <1>6, OperationStepsKeepInv
<1>7. ASSUME NEW w \in Workers, ReadReturns(w) \/ MarkReturns(w) \/ FinishDetached(w)
      PROVE  DeliveryInv'
  BY <1>7, ReadKeepsInv, MarkKeepsInv, DetachedStepKeepsInv
<1>8. QED
  BY <1>1, <1>2, <1>3, <1>4, <1>5, <1>6, <1>7 DEF Next

-----------------------------------------------------------------------------
\* A write of a sound envelope is a step of the feed.
LEMMA WrittenIsFeedStep ==
  ASSUME DataOK(head, acked, log), NEW n, Sound(n, head, acked),
         head' = head, log' = Written(n)
  PROVE  [Feed!FeedNext]_(Feed!feedVars)
<1> DEFINE old == [e \in Executions |-> Len(log[e])]
           new == [e \in Executions |-> Len(log'[e])]
<1>1. CASE Written(n) = log
  BY <1>1 DEF Feed!feedVars
<1>2. CASE /\ Len(log[n.execution]) < head[n.execution]
           /\ \A e \in Executions :
                Len(Written(n)[e]) = IF e = n.execution THEN Len(log[e]) + 1 ELSE Len(log[e])
  <2>1. n.execution \in Executions
    BY DEF Sound, Envelopes
  <2>2. new = [old EXCEPT ![n.execution] = old[n.execution] + 1] /\ old[n.execution] < head[n.execution]
    BY <1>2, <2>1
  <2>3. Feed!ReportNext(n.execution)
    BY <2>2 DEF Feed!ReportNext
  <2>4. QED
    BY <2>1, <2>3 DEF Feed!FeedNext
<1>3. QED
  BY <1>1, <1>2, WrittenProperties

\* Every step is a step of the feed, or none.
LEMMA StepIsFeedStep ==
  ASSUME DeliveryInv, [Next]_vars
  PROVE  [Feed!FeedNext]_(Feed!feedVars)
<1>0. DataOK(head, acked, log)
  BY DEF DeliveryInv
<1>1. ASSUME UNCHANGED <<head, log>> PROVE [Feed!FeedNext]_(Feed!feedVars)
  BY <1>1 DEF Feed!feedVars
<1>2. CASE UNCHANGED vars
  BY <1>1, <1>2 DEF vars
<1>3. ASSUME NEW e \in Executions, Enqueue(e) PROVE [Feed!FeedNext]_(Feed!feedVars)
  <2>1. Feed!CommitRevision(e)
    BY <1>3 DEF Enqueue, Feed!CommitRevision
  <2>2. QED
    BY <2>1 DEF Feed!FeedNext
<1>4. ASSUME NEW p \in Processes, LateWrite(p) PROVE [Feed!FeedNext]_(Feed!feedVars)
  <2>1. PICK n \in late[p] : log' \in {log, Written(n)} /\ head' = head
    BY <1>4 DEF LateWrite
  <2>2. Sound(n, head, acked)
    BY DEF DeliveryInv
  <2>3. QED
    BY <1>0, <1>1, <2>1, <2>2, WrittenIsFeedStep
<1>5. ASSUME NEW w \in Workers, WriteReturns(w) PROVE [Feed!FeedNext]_(Feed!feedVars)
  <2>1. log' = Written(worker[w].current) /\ head' = head /\ worker[w].step = "writing"
    BY <1>5 DEF WriteReturns
  <2>2. Sound(worker[w].current, head, acked)
    BY <2>1 DEF DeliveryInv, WorkflowOK
  <2>3. QED
    BY <1>0, <2>1, <2>2, WrittenIsFeedStep
<1>6. ASSUME NEW p \in Processes, Restart(p) PROVE UNCHANGED <<head, log>>
  BY <1>6 DEF Restart
<1>7. ASSUME NEW w \in Workers,
             \/ StartOne(w) \/ StartAll(w) \/ Expire(w) \/ ReadReturns(w) \/ WriteRaises(w)
             \/ WriteTimesOut(w) \/ MarkReturns(w) \/ RecordReturns(w)
             \/ OperationRaises(w) \/ OperationTimesOut(w) \/ Cancel(w) \/ FinishDetached(w)
      PROVE  UNCHANGED <<head, log>>
  BY <1>7 DEF StartOne, StartAll, Start, Expire, ReadReturns, WriteRaises, WriteTimesOut,
              MarkReturns, RecordReturns, OperationRaises, OperationTimesOut, Cancel, FinishDetached
<1>8. QED
  BY <1>1, <1>2, <1>3, <1>4, <1>5, <1>6, <1>7 DEF Next

-----------------------------------------------------------------------------
\* The invariant of outbox delivery holds for any sets of executions,
\* processes and workflows.
THEOREM DeliveryInvHolds == Spec => []DeliveryInv
<1>1. DeliveryInv /\ [Next]_vars => DeliveryInv'
  BY StepKeepsDeliveryInv
<1>2. QED
  BY <1>1, InitEstablishesDeliveryInv, PTL DEF Spec

\* Per execution the sink holds the revisions in order, each once
\* (pending_audit_events, write_idempotent).
THEOREM SinkIsInOrder == Spec => []SinkInOrder
<1>1. ASSUME DeliveryInv PROVE SinkInOrder
  <2>1. \A e \in Executions : DOMAIN log[e] = 1..Len(log[e]) /\ \A i \in 1..Len(log[e]) : log[e][i] = i
    BY <1>1, SMTT(30) DEF DeliveryInv, DataOK
  <2>2. QED
    BY <2>1 DEF SinkInOrder
<1>2. QED
  BY <1>1, DeliveryInvHolds, PTL

\* What _drain_reconciliation_audit_outbox acknowledged is in the sink.
THEOREM AcknowledgedIsWritten == Spec => []AckedIsWritten
<1>1. ASSUME DeliveryInv PROVE AckedIsWritten
  <2> SUFFICES ASSUME NEW e \in Executions, NEW r \in acked[e]
               PROVE  \E i \in DOMAIN log[e] : log[e][i] = r
    BY DEF AckedIsWritten
  <2>1. r \in Nat /\ r >= 1 /\ r <= Len(log[e]) /\ Len(log[e]) \in Nat
    BY <1>1, BoundsAssumption, SMTT(30) DEF DeliveryInv, DataOK
  <2>2. DOMAIN log[e] = 1..Len(log[e]) /\ \A i \in 1..Len(log[e]) : log[e][i] = i
    BY <1>1, SMTT(30) DEF DeliveryInv, DataOK
  <2>3. QED
    BY <2>1, <2>2, SMTT(30)
<1>2. QED
  BY <1>1, DeliveryInvHolds, PTL

\* Outbox delivery implements the feed that AuditFeed promises to a reader
\* of the sink.
THEOREM DeliveryRefinesFeed == Spec => RefinesFeed
<1>1. Init => Feed!FeedInit
  BY SMTT(30) DEF Init, Feed!FeedInit
<1>2. DeliveryInv /\ [Next]_vars => [Feed!FeedNext]_(Feed!feedVars)
  BY StepIsFeedStep
<1>3. QED
  BY <1>1, <1>2, DeliveryInvHolds, PTL DEF Spec, RefinesFeed, Feed!FeedSpec

\* The tables, the channel and the workflows keep their types; the count of
\* detached operations never goes below zero (_resume_reconciliation).
THEOREM DeliveryTypeCorrect == Spec => []TypeOK
<1>1. DeliveryInv => TypeOK
  BY DEF DeliveryInv, DataOK, TypeOK
<1>2. QED
  BY <1>1, DeliveryInvHolds, PTL

-----------------------------------------------------------------------------
INSTANCE FiniteSetTheorems

-----------------------------------------------------------------------------
(* Suspension of the channel.                                              *)

(* The operations of cancelled callers that still run in a process.        *)
Detached(p) == {w \in Workers : Home[w] = p /\ worker[w].waiter = "resume"}

(* Each of them is counted once, and none is a write to the sink.          *)
SuspensionInv ==
    /\ \A w \in Workers : worker[w].step = "writing" => worker[w].waiter = "caller"
    /\ \A p \in Processes :
          /\ IsFiniteSet(Detached(p))
          /\ poison[p] = "none" => draining[p] = Cardinality(Detached(p))

(* A workflow w becomes v, nothing is poisoned that was not, and neither   *)
(* the old nor the new operation is detached.                              *)
Attended(w, v) ==
    /\ worker' = [worker EXCEPT ![w] = v]
    /\ worker[w].waiter # "resume" /\ v.waiter # "resume"
    /\ v.step = "writing" => v.waiter = "caller"
    /\ draining' = draining
    /\ \A p \in Processes : poison'[p] = "none" => poison[p] = "none"

\* An attended step leaves the count exact.
LEMMA AttendedKeepsSuspension ==
  ASSUME DeliveryInv, SuspensionInv, NEW w \in Workers, NEW v, Attended(w, v)
  PROVE  SuspensionInv'
<1>1. worker \in [Workers -> Workflows]
  BY DEF DeliveryInv
<1>2. \A p \in Processes : Detached(p)' = Detached(p)
  BY <1>1 DEF Detached, Attended
<1>3. \A u \in Workers : worker'[u].step = "writing" => worker'[u].waiter = "caller"
  BY <1>1 DEF SuspensionInv, Attended
<1> QED
  BY <1>2, <1>3 DEF SuspensionInv, Attended

\* Poisoning never opens a channel.
LEMMA PoisonStays ==
  ASSUME DeliveryInv, NEW p \in Processes, NEW c \in Causes, c # "none", NEW q \in Processes
  PROVE  Poisoned(p, c)[q] = "none" => poison[q] = "none"
BY DEF DeliveryInv, Poisoned

\* What a workflow does up to its next await is attended.
LEMMA NextAwaitIsAttended ==
  ASSUME DeliveryInv, NEW w \in Workers, worker[w].waiter = "caller",
         draining' = draining,
         NEW me \in Workflows, me.waiter = "caller",
         RecordFailure(w) \/ Acknowledge(w) \/ ReadMore(w, me) \/ DeliverOne(w, me)
  PROVE  \E v : Attended(w, v)
<1>0. Idle.waiter = "caller" /\ worker[w] \in Workflows /\ Home[w] \in Processes
  BY HomeAssumption DEF Idle, DeliveryInv
<1>1. ASSUME NEW v, Become(w, v), v.waiter = "caller", UNCHANGED poison
      PROVE  \E u : Attended(w, u)
  BY <1>1 DEF Attended, Become
<1>2. CASE RecordFailure(w)
  <2>1. CASE ~Open(Home[w])
    <3>1. poison' = Poisoned(Home[w], "refused") /\ Become(w, Idle)
      BY <1>2, <2>1 DEF RecordFailure
    <3>2. \A p \in Processes : poison'[p] = "none" => poison[p] = "none"
      BY <1>0, <3>1, PoisonStays DEF Causes
    <3> QED
      BY <1>0, <3>1, <3>2 DEF Attended, Become
  <2>2. CASE Open(Home[w])
    <3>1. PICK v \in {Idle, [worker[w] EXCEPT !.step = "recording"]} : Become(w, v) /\ UNCHANGED poison
      BY <1>2, <2>2 DEF RecordFailure
    <3>2. v.waiter = "caller"
      BY <1>0, <3>1 DEF Workflows
    <3> QED
      BY <1>1, <3>1, <3>2
  <2> QED
    BY <2>1, <2>2
<1>3. CASE Acknowledge(w) /\ ~RecordFailure(w)
  <2>1. Become(w, [worker[w] EXCEPT !.step = "marking"]) /\ UNCHANGED poison
    BY <1>3 DEF Acknowledge
  <2>2. [worker[w] EXCEPT !.step = "marking"].waiter = "caller"
    BY <1>0 DEF Workflows
  <2> QED
    BY <1>1, <2>1, <2>2
<1>4. CASE ReadMore(w, me)
  <2>1. PICK v \in {Idle, [me EXCEPT !.step = "reading", !.current = NoEnvelope]} :
          Become(w, v) /\ UNCHANGED poison
    BY <1>4 DEF ReadMore
  <2>2. v.waiter = "caller"
    BY <1>0, <2>1 DEF Workflows
  <2> QED
    BY <1>1, <2>1, <2>2
<1>5. CASE DeliverOne(w, me) /\ ~RecordFailure(w)
  <2>1. PICK n \in me.batch :
          /\ Become(w, [me EXCEPT !.step = "writing", !.current = n, !.batch = @ \ {n}])
          /\ UNCHANGED poison
    BY <1>5 DEF DeliverOne
  <2>2. [me EXCEPT !.step = "writing", !.current = n, !.batch = @ \ {n}].waiter = "caller"
    BY DEF Workflows
  <2> QED
    BY <1>1, <2>1, <2>2
<1> QED
  BY <1>2, <1>3, <1>4, <1>5

\* A caller that is cancelled inside an operation adds it to the count.
LEMMA CancelKeepsSuspension ==
  ASSUME DeliveryInv, SuspensionInv, NEW w \in Workers, Cancel(w)
  PROVE  SuspensionInv'
<1> DEFINE p == Home[w]
<1>0. /\ worker \in [Workers -> Workflows] /\ draining \in [Processes -> Nat]
      /\ p \in Processes /\ worker[w].waiter = "caller" /\ poison' = poison
  BY HomeAssumption DEF DeliveryInv, Cancel
<1>1. CASE Become(w, Idle) /\ UNCHANGED draining
  <2>1. Attended(w, Idle)
    BY <1>0, <1>1 DEF Attended, Become, Idle
  <2> QED
    BY <2>1, AttendedKeepsSuspension
<1>2. CASE /\ worker[w].step # "writing"
           /\ draining' = [draining EXCEPT ![p] = IF poison[p] = "none" THEN @ + 1 ELSE @]
           /\ Become(w, [worker[w] EXCEPT !.waiter = "resume", !.batch = {}, !.expired = FALSE])
  <2> DEFINE v == [worker[w] EXCEPT !.waiter = "resume", !.batch = {}, !.expired = FALSE]
  <2>1. v.waiter = "resume" /\ v.step # "writing" /\ worker' = [worker EXCEPT ![w] = v]
    BY <1>0, <1>2 DEF Workflows, Become
  <2> HIDE DEF v
  <2>2. \A u \in Workers : worker'[u].step = "writing" => worker'[u].waiter = "caller"
    BY <1>0, <2>1 DEF SuspensionInv
  <2>3. Detached(p)' = Detached(p) \cup {w} /\ w \notin Detached(p)
    BY <1>0, <2>1 DEF Detached
  <2>4. \A q \in Processes : q # p => Detached(q)' = Detached(q) /\ draining'[q] = draining[q]
    BY <1>0, <1>2, <2>1 DEF Detached
  <2>5. IsFiniteSet(Detached(p)')
        /\ (poison[p] = "none" => draining'[p] = Cardinality(Detached(p)'))
    <3>1. IsFiniteSet(Detached(p)) /\ (poison[p] = "none" => draining[p] = Cardinality(Detached(p)))
      BY <1>0 DEF SuspensionInv
    <3>2. /\ IsFiniteSet(Detached(p) \cup {w})
          /\ Cardinality(Detached(p) \cup {w}) = Cardinality(Detached(p)) + 1
      BY <2>3, <3>1, FS_AddElement
    <3>3. poison[p] = "none" => draining'[p] = draining[p] + 1
      BY <1>0, <1>2
    <3> QED
      BY <2>3, <3>1, <3>2, <3>3
  <2>6. ASSUME NEW q \in Processes
        PROVE  IsFiniteSet(Detached(q)')
               /\ (poison'[q] = "none" => draining'[q] = Cardinality(Detached(q)'))
    <3>1. CASE q = p
      BY <1>0, <2>5, <3>1
    <3>2. CASE q # p
      BY <1>0, <2>4, <3>2 DEF SuspensionInv
    <3> QED
      BY <3>1, <3>2
  <2> QED
    BY <2>2, <2>6 DEF SuspensionInv
<1> QED
  BY <1>1, <1>2 DEF Cancel

\* A detached operation that is done is taken off the count again.
LEMMA FinishKeepsSuspension ==
  ASSUME DeliveryInv, SuspensionInv, NEW w \in Workers, FinishDetached(w)
  PROVE  SuspensionInv'
<1> DEFINE p == Home[w]
<1>0. /\ worker \in [Workers -> Workflows] /\ draining \in [Processes -> Nat]
      /\ p \in Processes /\ poison' = poison /\ worker' = [worker EXCEPT ![w] = Idle]
      /\ Idle.waiter = "caller"
  BY HomeAssumption DEF DeliveryInv, FinishDetached, Become, Idle
<1>1. CASE worker[w].waiter # "resume"
  <2>1. Attended(w, Idle)
    BY <1>0, <1>1 DEF Attended, FinishDetached
  <2> QED
    BY <2>1, AttendedKeepsSuspension
<1>2. CASE worker[w].waiter = "resume"
  <2>1. \A u \in Workers : worker'[u].step = "writing" => worker'[u].waiter = "caller"
    BY <1>0 DEF SuspensionInv
  <2>2. w \in Detached(p) /\ Detached(p)' = Detached(p) \ {w}
    BY <1>0, <1>2 DEF Detached
  <2>3. \A q \in Processes : q # p => Detached(q)' = Detached(q) /\ draining'[q] = draining[q]
    BY <1>0 DEF Detached, FinishDetached
  <2>4. IsFiniteSet(Detached(p)')
        /\ (poison[p] = "none" => draining'[p] = Cardinality(Detached(p)'))
    <3>1. IsFiniteSet(Detached(p)) /\ (poison[p] = "none" => draining[p] = Cardinality(Detached(p)))
      BY <1>0 DEF SuspensionInv
    <3>2. /\ IsFiniteSet(Detached(p) \ {w})
          /\ Cardinality(Detached(p) \ {w}) = Cardinality(Detached(p)) - 1
      BY <2>2, <3>1, FS_RemoveElement
    <3>3. Cardinality(Detached(p)) \in Nat /\ Cardinality(Detached(p) \ {w}) \in Nat
      BY <3>1, <3>2, FS_CardinalityType
    <3>4. draining[p] > 0 => draining'[p] = draining[p] - 1
      BY <1>0, <1>2 DEF FinishDetached
    <3> QED
      BY <2>2, <3>1, <3>2, <3>3, <3>4, SMTT(30)
  <2>5. ASSUME NEW q \in Processes
        PROVE  IsFiniteSet(Detached(q)')
               /\ (poison'[q] = "none" => draining'[q] = Cardinality(Detached(q)'))
    <3>1. CASE q = p
      BY <1>0, <2>4, <3>1
    <3>2. CASE q # p
      BY <1>0, <2>3, <3>2 DEF SuspensionInv
    <3> QED
      BY <3>1, <3>2
  <2> QED
    BY <2>1, <2>5 DEF SuspensionInv
<1> QED
  BY <1>1, <1>2

\* The other steps of a workflow are attended.
LEMMA WorkflowKeepsSuspension ==
  ASSUME DeliveryInv, SuspensionInv, NEW w \in Workers,
         \/ StartOne(w) \/ StartAll(w) \/ Expire(w) \/ ReadReturns(w)
         \/ WriteReturns(w) \/ WriteRaises(w) \/ WriteTimesOut(w)
         \/ MarkReturns(w) \/ RecordReturns(w) \/ OperationRaises(w) \/ OperationTimesOut(w)
  PROVE  SuspensionInv'
<1>0. /\ worker[w] \in Workflows /\ Idle \in Workflows /\ Idle.waiter = "caller"
      /\ Home[w] \in Processes
  BY HomeAssumption DEF DeliveryInv, Idle, Workflows
<1>1. ASSUME NEW v, Become(w, v), v.waiter # "resume", v.step = "writing" => v.waiter = "caller",
             worker[w].waiter = "caller", draining' = draining, UNCHANGED poison
      PROVE  SuspensionInv'
  <2>1. Attended(w, v)
    BY <1>1 DEF Attended, Become
  <2> QED
    BY <2>1, AttendedKeepsSuspension
<1>2. ASSUME worker[w].waiter = "caller", draining' = draining,
             NEW me \in Workflows, me.waiter = "caller",
             RecordFailure(w) \/ Acknowledge(w) \/ ReadMore(w, me) \/ DeliverOne(w, me)
      PROVE  SuspensionInv'
  BY <1>2, NextAwaitIsAttended, AttendedKeepsSuspension
<1>3. ASSUME NEW S, NEW n, Start(w, S, n) PROVE SuspensionInv'
  <2> DEFINE v == [Idle EXCEPT !.step = "reading", !.scope = S, !.left = n]
  <2>1. v.waiter = "caller" /\ Become(w, v) /\ worker[w] = Idle /\ UNCHANGED <<draining, poison>>
    BY <1>3 DEF Start, Idle
  <2> HIDE DEF v
  <2> QED
    BY <1>0, <1>1, <2>1
<1>4. CASE Expire(w)
  <2> DEFINE v == [worker[w] EXCEPT !.expired = TRUE]
  <2>1. v.waiter = "caller" /\ Become(w, v) /\ worker[w].waiter = "caller"
        /\ UNCHANGED <<draining, poison>>
    BY <1>0, <1>4 DEF Expire, Workflows
  <2> HIDE DEF v
  <2> QED
    BY <1>1, <2>1
<1>5. CASE ReadReturns(w)
  <2>1. worker[w].waiter = "caller" /\ draining' = draining
    BY <1>5 DEF ReadReturns
  <2>2. CASE Pending(worker[w].scope) = {}
    BY <1>0, <1>1, <1>5, <2>1, <2>2 DEF ReadReturns
  <2>3. CASE Pending(worker[w].scope) # {}
    <3>1. PICK ns \in SUBSET Pending(worker[w].scope) : DeliverOne(w, [worker[w] EXCEPT !.batch = ns])
      BY <1>5, <2>3 DEF ReadReturns
    <3> DEFINE me == [worker[w] EXCEPT !.batch = ns]
    <3>2. me \in Workflows /\ me.waiter = "caller" /\ DeliverOne(w, me)
      BY <1>0, <2>1, <3>1 DEF Workflows, Pending
    <3> HIDE DEF me
    <3> QED
      BY <1>2, <2>1, <3>2
  <2> QED
    BY <2>2, <2>3
<1>6. CASE WriteReturns(w) \/ WriteRaises(w) \/ WriteTimesOut(w)
  <2>1. worker[w].waiter = "caller" /\ draining' = draining /\ (RecordFailure(w) \/ Acknowledge(w))
    BY <1>6 DEF SuspensionInv, WriteReturns, WriteRaises, WriteTimesOut
  <2> QED
    BY <1>0, <1>2, <2>1
<1>7. CASE MarkReturns(w)
  <2> DEFINE me == [worker[w] EXCEPT !.left = @ - 1]
  <2>1. /\ worker[w].waiter = "caller" /\ worker[w].step = "marking" /\ draining' = draining
        /\ \/ Become(w, Idle) /\ UNCHANGED poison
           \/ ReadMore(w, me) \/ DeliverOne(w, me)
    BY <1>7 DEF MarkReturns
  <2>2. worker[w].left > 0 /\ worker[w].left \in Nat
    BY <1>0, <2>1 DEF DeliveryInv, WorkflowOK, Workflows
  <2>3. me \in Workflows /\ me.waiter = "caller"
    BY <1>0, <2>1, <2>2, SMTT(30) DEF Workflows
  <2> HIDE DEF me
  <2> QED
    BY <1>0, <1>1, <1>2, <2>1, <2>3
<1>8. CASE RecordReturns(w)
  BY <1>0, <1>1, <1>8 DEF RecordReturns
<1>9. ASSUME NEW v, Become(w, v), v.waiter # "resume", v.step # "writing" \/ v.waiter = "caller",
             worker[w].waiter = "caller", draining' = draining,
             NEW c \in Causes, c # "none", poison' = Poisoned(Home[w], c)
      PROVE  SuspensionInv'
  <2>1. \A p \in Processes : poison'[p] = "none" => poison[p] = "none"
    BY <1>0, <1>9, PoisonStays
  <2>2. Attended(w, v)
    BY <1>9, <2>1 DEF Attended, Become
  <2> QED
    BY <2>2, AttendedKeepsSuspension
<1>10. CASE OperationRaises(w)
  <2>1. worker[w].waiter = "caller" /\ draining' = draining
    BY <1>10 DEF OperationRaises
  <2>2. CASE RecordFailure(w)
    BY <1>0, <1>2, <2>1, <2>2
  <2>3. CASE Become(w, Idle) /\ UNCHANGED poison
    BY <1>0, <1>1, <2>1, <2>3
  <2>4. CASE Become(w, Idle) /\ poison' = Poisoned(Home[w], "error")
    <3>1. "error" \in Causes
      BY DEF Causes
    <3> QED
      BY <1>0, <1>9, <2>1, <2>4, <3>1
  <2> QED
    BY <1>10, <2>2, <2>3, <2>4 DEF OperationRaises
<1>11. CASE OperationTimesOut(w)
  <2> DEFINE v == [worker[w] EXCEPT !.waiter = "nobody", !.batch = {}, !.expired = FALSE]
  <2>1. /\ Become(w, v) /\ worker[w].waiter = "caller" /\ draining' = draining
        /\ worker[w].step # "writing"
    BY <1>11 DEF OperationTimesOut
  <2>2. PICK c \in {"deadline", "timeout"} : poison' = Poisoned(Home[w], c)
    BY <1>11 DEF OperationTimesOut
  <2>3. v.waiter # "resume" /\ v.step # "writing" /\ c \in Causes /\ c # "none"
    BY <1>0, <2>1 DEF Workflows, Causes
  <2> HIDE DEF v
  <2> QED
    BY <1>9, <2>1, <2>2, <2>3
<1> QED
  BY <1>3, <1>4, <1>5, <1>6, <1>7, <1>8, <1>10, <1>11 DEF StartOne, StartAll

\* A new process starts with nothing detached and a count of zero.
LEMMA RestartKeepsSuspension ==
  ASSUME DeliveryInv, SuspensionInv, NEW p \in Processes, Restart(p)
  PROVE  SuspensionInv'
<1>0. /\ draining \in [Processes -> Nat] /\ poison \in [Processes -> Causes]
      /\ worker' = [w \in Workers |-> IF Home[w] = p THEN Idle ELSE worker[w]]
      /\ poison' = [poison EXCEPT ![p] = "none"] /\ draining' = [draining EXCEPT ![p] = 0]
      /\ Idle.waiter = "caller" /\ Idle.step = "idle"
  BY DEF DeliveryInv, Restart, Idle
<1>1. \A w \in Workers : worker'[w].step = "writing" => worker'[w].waiter = "caller"
  BY <1>0 DEF SuspensionInv
<1>2. Detached(p)' = {}
  BY <1>0 DEF Detached
<1>3. \A q \in Processes : q # p => Detached(q)' = Detached(q)
  BY <1>0 DEF Detached
<1>4. IsFiniteSet({}) /\ Cardinality({}) = 0
  BY FS_EmptySet
<1>5. ASSUME NEW q \in Processes
      PROVE  IsFiniteSet(Detached(q)')
             /\ (poison'[q] = "none" => draining'[q] = Cardinality(Detached(q)'))
  <2>1. CASE q = p
    BY <1>0, <1>2, <1>4, <2>1
  <2>2. CASE q # p
    BY <1>0, <1>3, <2>2 DEF SuspensionInv
  <2> QED
    BY <2>1, <2>2
<1> QED
  BY <1>1, <1>5 DEF SuspensionInv

\* In every process that is not poisoned the channel is suspended exactly
\* while operations of cancelled callers still run, however many workflows it
\* has (_suspend_reconciliation, _resume_reconciliation).
THEOREM SuspensionStaysExact == Spec => []SuspensionIsExact
<1>1. Init => SuspensionInv
  <2> SUFFICES ASSUME Init PROVE SuspensionInv
    OBVIOUS
  <2>1. \A p \in Processes : Detached(p) = {}
    BY DEF Detached, Init, Idle
  <2>2. \A w \in Workers : worker[w].step # "writing"
    BY DEF Init, Idle
  <2>3. IsFiniteSet({}) /\ Cardinality({}) = 0
    BY FS_EmptySet
  <2> QED
    BY <2>1, <2>2, <2>3 DEF SuspensionInv, Init
<1>2. DeliveryInv /\ SuspensionInv /\ [Next]_vars => SuspensionInv'
  <2> SUFFICES ASSUME DeliveryInv, SuspensionInv, [Next]_vars PROVE SuspensionInv'
    OBVIOUS
  <2>1. ASSUME UNCHANGED <<poison, draining, worker>> PROVE SuspensionInv'
    BY <2>1 DEF SuspensionInv, Detached
  <2>2. CASE UNCHANGED vars
    BY <2>1, <2>2 DEF vars
  <2>3. ASSUME NEW e \in Executions, Enqueue(e) PROVE SuspensionInv'
    BY <2>1, <2>3 DEF Enqueue
  <2>4. ASSUME NEW p \in Processes, LateWrite(p) PROVE SuspensionInv'
    BY <2>1, <2>4 DEF LateWrite
  <2>5. CASE Next
    BY <2>3, <2>4, <2>5, CancelKeepsSuspension, FinishKeepsSuspension, WorkflowKeepsSuspension,
       RestartKeepsSuspension DEF Next
  <2> QED
    BY <2>2, <2>5
<1>3. SuspensionInv => SuspensionIsExact
  BY DEF SuspensionInv, SuspensionIsExact, Detached
<1> QED
  BY <1>1, <1>2, <1>3, DeliveryInvHolds, PTL DEF Spec
=============================================================================
