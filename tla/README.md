# Verification of agent-runtime-governance

TLA+ specifications of the runtime that governs the tool calls of an agent, the
TLC configurations that check them on small instances, and TLAPS proofs of the
properties that matter most for every value of the constants. `PROJECT.json`
maps every definition to the lines it models.

## The system and its parts

A `Runtime` takes a tool call through a pipeline of middleware, binds it to one
canonical action, obtains the approvals the policy asks for, and dispatches the
tool body. For a tool of mode `IDEMPOTENT` with a key it claims the key in a
durable *idempotency store* first. An outcome that cannot be known (a timeout, a
cancellation, a crash, a lost lease) is recorded as `UNKNOWN` in the store and in
a durable *reconciliation ledger*. Providers and operators later resolve it:
confirmed as succeeded, confirmed as not applied, or manual review. Every change
of the ledger is reported through an audit *outbox*.

| Part | State | Operations | Interacts with |
| --- | --- | --- | --- |
| Idempotency store (`registry.py`) | rows: state, owner, lease, generation | acquire, complete, fail, mark unknown, renew, prune | ledger (same database), runtime |
| Reconciliation ledger (`reconciliation.py`) | prepared actions, heads, events, outbox | record unknown, start and finish attempt, transition, recover | store, workers, outbox delivery |
| Governed execution (`runtime.py`) | one invocation's stage, verdict, heartbeat | acquire, commit approvals, dispatch, retry, time out, cancel, settle, answer | store, ledger, tool, middleware |
| Reconciliation workers (`runtime.py`) | the attempt they are in | reconcile, resolve, recover | ledger, providers |
| Outbox delivery (`runtime.py`, `audit.py`) | pending envelopes, sink content | drain, deliver, mark, record failure | ledger, audit sink |
| Audit sinks (`audit.py`) | hash chain, state file, rotated files | write, read, rotate, prune | outbox, observers |
| Approvals (`approval_store.py`, `middleware/decision.py`) | requests, decisions, reservations | pending, decide, reserve, commit, release | governed execution |
| Bulkhead, circuit breaker (`resilience.py`) | permits, waiters; failures, probe | acquire, withdraw, release; call, record | every channel of the runtime; plugins |
| Store and ledger channels (`runtime.py`) | poison, draining count | run, poison, suspend, resume | bulkhead, worker threads |
| Lifecycle (`runtime.py`, `daemon_executor.py`) | accepting, closing, closed | admit, close, aclose | everything in flight |
| Extension dispatch (`_internal/runtime/`) | workers, abandoned callbacks | invoke, abandon, shut down | hooks, middleware, providers |
| Pipeline, contexts (`pipeline.py`, `_internal/runtime/`) | ordered middleware, frozen contexts | process, validate a transition | governed execution |
| Action binding (`action_contracts.py`) | bound action and digest | bind, revalidate | approvals, store |
| Identity, policy, evidence, telemetry, plugins | mostly pure functions and I/O | | |

What makes it hard: a store operation runs on a worker thread and may commit
after its caller gave up; a tool body cannot be stopped; nothing fences the
dispatch of a body by the row it is claimed under; leases lapse, processes die
between any two transactions, other processes expire, resolve and prune rows
concurrently; findings and envelopes arrive late or twice. `PROJECT.json` lists
each of these hazards at its line.

## Modules

Durable outcomes and their reconciliation:

| Module | What it models |
| --- | --- |
| `Authority` | The SQLite database that store and ledger share. One action per transaction: `Claim`, `ExpireLease`, `Complete`, `Fail`, `Renew`, `PruneCompleted`, `RecordUnknown`, `StartAttempt`, `FinishAttempt`, `ProviderTransition`, `ManualTransition`, `RecoverUnfinished`, and the lapse of leases and deadlines. |
| `GovernedExecution` | `_arun_admitted` from the acquisition of a key to the caller's answer, on top of `Authority`: claim, approval commit, dispatch, retry, timeout, cancellation, settling through worker threads, crash; reconciliation and pruning by others. |
| `ReconciliationWorkers` | `areconcile` and `aresolve_reconciliation` in several processes, on top of `Authority`: each ledger operation with its timeout, error, cancellation and crash, and the provider's probe between them. |
| `AuditDelivery` | The drain of the audit outbox: workflows of several processes that read, write to the sink, acknowledge and record failures, through the channel of the ledger with its poisoning and suspension; late threads, cancellation, deadlines, restarts. |
| `AuditFeed` | What delivery promises to a reader of the sink: per execution, the committed revisions in order, each once, up to some point. |

Between a request and its tool:

| Module | What it models |
| --- | --- |
| `Pipeline` | One call (`arun`, `apreview` or `areplay`) from its context to its answer: hooks, gating, observing and execution middleware as arbitrary extensions, the checks on the contexts they return, binding and revalidation of the action, handlers and observers. |
| `Approvals` | The SQLite approval store, `DecisionMiddleware` around it and what the runtime commits or releases; store calls that happen after their caller left. |
| `SingleGrant` | What the approval subsystem promises: one verdict per request, and at most one execution that runs on an allow. |
| `IdentityReplay` | `HMACClaimsIdentityProvider.verify` and its replay stores, around the life of an envelope. |
| `Sealing` | The evaluation of a production profile, the setters that sealing guards, registration, and `seal_production` from several threads. |

State that outlives a call:

| Module | What it models |
| --- | --- |
| `AuditJournal` | `JSONLAuditSink`: chain, state file, rotation, pruning, with a crash between any two file operations. |
| `SnapshotLog` | `JSONLSnapshotStore`: log and sequence index, with the same crashes. |
| `LocalStore` | The in-memory store and ledger behind the store's channel, with eviction, poison, suspension and late operations. |
| `SchemaLifecycle` | Construction, integrity checks and migration of the two SQLite schemas by racing processes, and restores of old or incomplete databases. |

Guards, threads and shutdown:

| Module | What it models |
| --- | --- |
| `Bulkhead` | `RuntimeBulkhead`: every method is one step under its lock; between them run the event loops that deliver grants, wake, time out and cancel tasks, or are closed. |
| `CircuitBreaker` | Admission and the three reports of overlapping calls. |
| `DaemonExecutor` | `DaemonThreadPoolExecutor`: `submit`, `shutdown`, the workers' loop, failing queue reads. |
| `RuntimeLifecycle` | `invoke`, `close` and `aclose` against operations, callbacks, tools, detached coroutines and terminal cleanup. |
| `SpanLifecycle` | The spans of one trace over three kinds of tracer, with cancelled observers, other threads and a loop that closes. |
| `RuntimeEvents` | Delivery of terminal events to subscribers that may hang, come or go. |

`AuthorityProofs`, `GovernedExecutionProofs`, `ReconciliationProofs`,
`AuditDeliveryProofs`, `GovernanceProofs` (pipeline, approvals, replay store,
sealing), `ResilienceProofs` (bulkhead, spans, circuit breaker, runtime events),
`RuntimeProofs` (in-memory store, shutdown, schemas, snapshot log) and
`AuditJournalProofs` hold the theorems. The `MC` modules give the constants their values; `MCGovernance`,
`MCPersistence`, `MCLifecycle` and `MCResilience` put several components that share
no state side by side, a behaviour being one of one of them.

Refinements: `GovernedExecution` implements `Authority`, which is the abstract
specification of what the runtime may do to the database (`RefinesAuthority`), and so does `ReconciliationWorkers`
(`WorkersImplementAuthority`, proved only); `AuditDelivery` implements `AuditFeed` (`RefinesFeed`); `Approvals` implements
`SingleGrant` (`RefinesSingleGrant`). `OutboxComplete` of `Authority` (every
revision has its envelope) is what lets `AuditDelivery` identify the outbox with
the revisions of a head.

### How the state corresponds to the code

`rows`, `prepared`, `heads`, `attempts` and `outbox` are the tables
`idempotency_records`, `reconciliation_prepared_actions`,
`reconciliation_heads`, the attempt events of `reconciliation_events`, and
`reconciliation_audit_outbox`. A row or a head is indexed by its execution record
identifier, which is a fresh uuid; `issued` is the set of those generated so
far. Every method opens `BEGIN IMMEDIATE`, so it is one action. Clocks are
abstracted: a lapse action may make a live lease or deadline lapsed at any time.
The owner token needs no state of its own: it is generated with the record and
cleared whenever the row leaves `pending`, so the `WHERE` clause of an owner's
update is "still pending".

In `GovernedExecution`, `stage` is the place in `_arun_admitted`; `started` and
`verdict` are its locals; `ops` are the operations a worker thread still has,
whoever waits for them; `answer` is what the caller was told. `running` and
`applied` belong to the tool, which is external: a body that returns has taken
effect, a body that raises has not, and of a body that nobody waits for nothing
is known. An operation that is refused because a channel is poisoned or
suspended, or because the row is no longer pending, or because the database is
busy, is `OperationRaises`. Providers and operators are external and truthful:
they confirm only what is the case, and "retry safe" includes that the
invocation itself cannot dispatch any more.

In `Bulkhead`, `available`, `waiters`, `state` and `future` are the fields of the
bulkhead and of its waiters; `scheduled` holds the `_deliver` callbacks that a
loop has yet to run, and `pc` is where the caller of `acquire` is. A task on a
closed loop is `abandoned`: it never resumes. (If the interpreter collects its
coroutine, `acquire` still withdraws; that is not modelled.) Two branches of the
code are kept although the invariant shows them to be unreachable: `_deliver`
with a settled future, and `_release` above the capacity.

In `AuditDelivery`, `head` counts the envelopes of an execution and `acked` is
the set of those with `delivered_at`; `log` is the sink, kept per execution, with
revisions numbered from one. `poison` and `draining` are the fields of a runtime;
`worker` holds the locals of each drain: the operation it awaits (`step`), and
whether anybody still waits for that operation (`waiter`). A workflow whose
caller gave up keeps its place until the thread is done, as the lease of the
ledger's bulkhead does. The number of a drain's envelopes is bounded by `left`; a
drain of one execution has no limit, which `MaxRevision + 1` stands for. A batch
may be delivered in any order, which includes the one of the query; the cap of
128 envelopes per read is not reached. A full bulkhead is an operation that
raises. The sink recognises a source it has stored (`write_idempotent`), as the
sinks of the package do and strict production requires; stall alerts are logging
and left out.

`ReconciliationWorkers` adds to the database, per caller, the operation it awaits
and the revision it last saw (`call`), the operation it no longer waits for
(`orphan`) and the poison of each process. A worker changes the database only by
an action of `Authority` at the revision it knows.

`Approvals` keeps the table (`row`), the place of each execution (`stage`), the
middleware's `_reservations` (`kept`) and store calls without a waiter (`orphan`).
What a request binds is one value (`ContentOf`), since the code compares it as a
whole. Lapse of a lease, age of a request and age of an approval are flags that
time may raise at any step.

`Pipeline` reduces a context to what the checks on it tell apart: status, decision,
risk tier, need for approval, the tier that was approved, and whether the request's
own fields are unchanged. Every middleware may return any of them. An execution
middleware may also catch a denial or an error and call the tool again, or raise an
`ExecutionControlError` or `GovernanceDenied` with any context, which the handlers
report without comparing it with the call's. Store and
approvals appear only as the outcome of their call. What an action's digest covers
is a version that may change until the executor looks at it again. `observed` holds
what each observer was shown in the current run of the observers, of which a denial
after the claim has two.

`Sealing` knows an adapter by the capabilities it declares, a contract by how it
fits its tool. `IdentityReplay` knows an envelope by its times: signature, issuer
and field checks only decide whether it reaches the replay store.

`AuditJournal` and `SnapshotLog` have one writer, since a file lock serialises the
callers; its place in the code (`writer`, `snapshot`) is lost in a crash, the files
are not. A line may be left without its newline. An event's hash is its identity,
and every event names the one before it. An exception leaves the files as a crash
at the same point does.

`LocalStore` keeps `_entries` as the owner of each key, `_completed` in the order of
its last use, and the futures of the claims. `SchemaLifecycle` reduces the database
to what the integrity checks look at (tables, triggers, indexes, version, foreign
objects), the rows a migration rewrites, and heads and outbox rows. A ledger reads
the database twice without a lock before its transaction, which are steps of their
own.

`RuntimeLifecycle` keeps for every operation what it may leave behind: a callback, a
tool thread, a detached coroutine, a cleanup task; `_lifecycle_lock` makes admission
and the first step of a close atomic. `SpanLifecycle` keeps the `_SpanEntry` fields
and what the tracer sees of a span. `CircuitBreaker` and `DaemonExecutor` keep the
fields of their classes; a step is what runs under the lock. In `RuntimeEvents` the
semaphore (`slot`) and the callbacks that the executor has (`working`) are separate:
only the done callback of the future connects them.

## Runs

| Run | Instance | Shows |
| --- | --- | --- |
| `authority` | 2 records, 1 key, 2 fingerprints, 2 attempts | Store and ledger agree on every execution, every revision has its envelope, a key is reused only after a confirmation. |
| `governed_execution` | 2 executions of 1 key, no retries | Uncertain effects keep the key blocked, one effect per key, definite failures, and refinement of `Authority`. |
| `governed_retry` | 1 execution, 2 attempts, a middleware that may raise | A stored success is real; the invocation ends. |
| `reconciliation` | 2 callers in 1 or 2 processes, 1 execution, 2 attempts, 1 fault | Two providers never probe under valid attempts (`ProbesAreExclusive`), an open attempt means an undecided head (`OpenMeansUnknown`, which recovery asserts), every attempt is closed in the end. |
| `audit_delivery` | 1 execution, 2 revisions, 2 workflows of 1 process | What is acknowledged is in the sink; refinement of `AuditFeed`, so the sink stays in order; every envelope is acknowledged once disturbances stop. |
| `governance` | 3 executions with 1 approval request, one of them for other content; 5 middleware; 2 sealers, 2 registries, 3 tools, 2 pipelines, 2 edits; 2 envelopes, 3 verifiers in 2 processes | Refinement of `SingleGrant`; the tool runs only behind every gate and with the approval its risk needs, a denial is final, every end is observed, extensions only tighten; a sealed runtime gives every tool what its kind needs; an envelope passes once. |
| `persistence` | 7 events with 2 crashes and segments of 2 lines; 4 snapshots of 2 traces with 2 crashes; 3 executions of 2 keys, 1 cached outcome; 2 processes, 1 restore, every released shape of the databases | As long as a crash leaves every line whole, what was acknowledged is readable and the next writer accepts what it finds; a line left open may cost the one write that is joined to it, and nothing acknowledged before; snapshots keep their order; claims in flight are not evicted; no constructor rewrites an authority that needs a migration, and no migration frees a key or hides an obligation. |
| `lifecycle` | 1 `arun`, 1 `invoke`, 1 `aclose`, 1 `close`, 3 leftovers; 2 threads on one span; 2 events, 3 subscribers | A closed runtime left nothing behind and carried out its cleanup, a close ends; every span ends, once and as it was asked to; events are offered to all they were scheduled for, and dropped only while another callback is at work. |
| `resilience` | 5 acquisitions of 2 permits, one on a loop that may close; 5 calls, threshold 2; 3 items, 2 workers | Permits are conserved and first come is first served; stale reports neither wedge nor wrongly open the circuit; an accepted item waits for good only behind functions that hang. |
| `retry_uncertain`, `middleware_uncertain`, `invoke_race` | 1 execution; 1 execution; 2 `invoke` and 1 `aclose` | Violations: see below. |

Bounds. Two executions are enough to violate any property that relates two
executions of one key, and two attempts for one to be open while another is
finished; the proofs remove both bounds. Five acquisitions of two permits leave a
waiter behind one that withdraws with a grant in hand; with four no lost wakeup can
strand anybody. For the outbox, two workflows are enough for one to write late what
the other has acknowledged, or to find the channel suspended by the other; two
revisions are enough to be out of order. Three executions on one approval let a
third reserve after the lease of a first lapsed and while the late call of a second
is on its way, and the third has other content. The five middleware are a
critical observer before and a plain one after the gates, and an execution
middleware between two gates of which one is not replayable. Seven events in
segments of two lines fill a segment, rotate it, retire the oldest and crash in the
middle of the next rotation; the second crash hits the recovery from the first.
Three executions with room for one outcome make eviction happen while a claim of
the evicted key is in flight. Five calls are enough for a report of a call admitted
before the circuit opened to arrive during a probe. One restore lets an operator
replace the database between the two looks of a constructor. The bounds
`MaxFaults`, `MaxCrashes`, `MaxFailures`, `MaxEdits`, `MaxChanges`, `MaxRestores`,
`MaxTasks`, `MaxClock` cut off only further repetitions. `MaxAttempts` is
`RetryMiddleware`'s `max_attempts`. Symmetry is used only in the runs without
liveness, `authority` and `governed_execution`. Deadlock is not checked: a system
without further requests stops.

Fairness. `EventuallyAnswered` assumes that the event loop runs: an invocation
takes its next step, the execution deadline fires (`_with_deadline`), and so does
the timeout of a store operation (`_run_critical_store_operation`,
`_run_reconciliation_operation`). Nothing is assumed of tool bodies, worker
threads or the database. `EveryWaiterServed` assumes that loops which are not
closed run their callbacks and tasks, and that a holder releases: each use of a
permit is in a `finally` clause or a done callback. It needs fewer closed loops
than permits, since a permit granted to a loop that closes before it runs
`_deliver` is not given back. `EventuallyDelivered` assumes that loops and
threads run, that the application calls the recovery worker
(`adrain_reconciliation_audit_outbox`) again whenever it has ended, and that a
process whose ledger is poisoned is restarted, which is the only way the code
leaves to reopen it. It speaks of behaviours in which sink errors, timeouts,
deadlines, cancellations and other crashes stop at some point, in whatever state
they left the channel. Loops are assumed to stay open: the callback that resumes
a suspended channel needs the loop of the cancelled caller. `AttemptsAreClosed`
assumes that calls go on within their stage timeouts, threads finish, clocks
advance, and somebody keeps calling `areconcile` (strong fairness: the channel may
be closed again and again). `CloseEnds` assumes that operations, callbacks, tools
and detached coroutines end, which is what a close waits for; `EverySpanEnds` that
the owner loop runs and the tracer's calls return; `NothingIsStranded` that worker
threads that started run: a function need not return, and the property says that
nothing else strands an item.

### Where the code and its documentation disagree

The README says that "a side effect with an uncertain outcome is recorded as
`UNKNOWN`, and automatic reuse stays blocked while that idempotency record is
retained". Two runs show an idempotent tool for which it is not:

- `retry_uncertain`: `RetryMiddleware` retries an attempt that
  `TimeoutMiddleware` stopped waiting for. Its body still runs. The next attempt
  raises, the execution is settled as `FAILED`, and `fail` deletes the row.
- `middleware_uncertain`: an execution middleware raises, or returns a context it
  may not, after the tool returned. `tool_returned` is not set yet, and
  `execution_started` counts only for `MUTATING` tools, so the execution is
  settled as `FAILED`.

`docs/production.md` says that `aclose()` "waits for already-admitted `arun`,
`apreview`, and `areplay` work to complete naturally":

- `invoke_race`: an `invoke()` that finds a close under way at its second look
  stops the loop of the runtime, which cancels the admitted operations on it.

`docs/adr/0001-production-reliability-boundaries.md` says that "pre-execution denial
releases the lease". `Approvals` contains two ways in which it does not: the release
itself fails, or the stage times out while `reserve` runs on its worker, which makes
the reservation when nobody knows of it. The lease then keeps others out until it
lapses; `LeftoverIsUnspent` says that this is all it does.

The JSONL sink has a case that its tests leave out and `AuditJournal` contains. A
crash that leaves a whole line without its newline is accepted by the next writer,
whose line is joined to it: that write returns, its event cannot be read, and every
later write and read is refused (`audit.py:183-192`).

Two more concern the channel of the ledger, which stays disabled until the process
is restarted once it is poisoned. `AuditDelivery` contains both behaviours, and the
hazards at `runtime.py:2733` and `runtime.py:3816` describe them:

- the changelog says that "a sink delivery timeout leaves the envelope pending
  rather than poisoning the reconciliation ledger". If another workflow was
  cancelled and its operation still runs, the channel is suspended, so the failure
  record of the delivery is refused; the handler of that error poisons the ledger.
- a comment in the drain says that "caller deadlines are not a storage corruption
  signal". A ledger operation waits for at most the time its caller has left, and
  poisons the ledger when that has passed.

## Proofs

The proofs use Zenon unless a leaf says otherwise; leaves about numbers and sequences
name the SMT solver. Facts of the library about finite sets and about the least element
of a set of naturals are, in most modules, hypotheses of the lemmas that need them (`FiniteSetLaws`,
`NatWellOrdered`) and are proved from the library's theorems at the end of the module,
before the theorems (`FiniteSetsObeyLaws`, `NaturalsAreWellOrdered`); no theorem has
such a hypothesis.

`AuthorityProofs` proves `AuthorityInv` inductive for any sets of records, keys,
fingerprints and attempts (the only assumption: `None` is no key or
fingerprint). The properties of the runs are not inductive alone:
`GenerationChain` needs that a new generation is above all others
(`OpenGenerationIsNewest`); `DispositionAgrees` needs `PreparedCoversRows`, so
that expiring a lease always finds the descriptor to make a head from;
`OneOpenAttempt` and recovery need that attempts exist only under a head; and a
fresh record must not appear in any table (`IssuedCoversTables`). The action
properties `ResolutionIsFinal` and `ReuseNeedsConfirmation` follow from the same
invariant, step by step.

`GovernedExecutionProofs` proves that every step of the runtime is a transaction or
leaves the database alone (`ExecutionRefinesAuthority`), so the invariants of the
authority hold under it. `SuccessIsRecorded` and the types hold whatever the
middleware does and however often the body is dispatched: `SuccessInv` says that
`complete` is submitted, and a success found, only for what was applied, and that a
pruned record was issued, so a fresh claim never inherits an answer. Then, assuming
`MaxAttempts = 1` and `~ MiddlewareMayRaise` (the two cases the violations are
about), it proves `ExecutionInv`: as long as an invocation can dispatch, its row
blocks the key and no operation is outstanding; `fail` is submitted, and "not
applied" found, only when nothing was applied and nothing can be; `complete` is
submitted only for what was applied. `UncertainStaysBlocked` and `FailureIsDefinite`
are consequences; `OneEffectPerKey` follows together with `GenerationChain`: of two
executions of a key the older was confirmed as not applied, which it would not be
had it acted.

`ReconciliationProofs` does the same for any number of reconciliation calls,
processes, attempts and faults: `WorkersImplementAuthority` says that every step,
of a call or of a thread it left behind, is a transaction of `Authority` or leaves
the database alone. `ProbesAreExclusive` and `OpenMeansUnknown` need what a call or
a thread knows (`SoundOp`: it has an attempt of its own, and a transition that
would still apply does so to a head without an open attempt), that an attempt is in
the hands of one call (`HeldOnce`), and that a probing call's attempt is open or was
closed after its deadline (`ProbesHold`). What one transaction does to the attempts
and heads is said once (`LedgerKeeps`), what a step does to one call once
(`Moves`). Whether an operation applies is written with `ENABLED` in the model; the
proofs never look inside: an operation that does not apply changes nothing.

`AuditDeliveryProofs` proves `DeliveryInv` for any sets of executions, processes
and workflows and any number of revisions. `SinkInOrder` is not inductive: a late
write must find that the sink holds its revision or all earlier ones. So every
envelope that anybody has read (in a batch, being written, or late) is committed
and has all earlier revisions acknowledged (`Sound`), which stays true because
acknowledgements are never taken back (`Grows`); what is acknowledged, or about
to be, is in the sink. Steps differ only in what they do to the tables and to one
workflow, so one lemma (`GoodStepKeepsInv`) serves most of them.
`DeliveryRefinesFeed` follows from the same invariant: a write of a sound
envelope appends the next revision or nothing. `SuspensionStaysExact` is about
cardinalities: a step attends to, detaches or ends at most one operation, and the
counter moves with it (`SuspensionInv`).

`GovernanceProofs` proves `PipelineInv` for any sequence of middleware, any tiers
and any number of changes to what its action binds: the contexts a call may go on
with are of its own request (`RequestIsOwn`); until a cancellation the context
itself tells whether the call was denied (`DenialIsRemembered`); a call past the
gates has passed them all (`GatesArePassed`); before the tool approval, binding and
mode are right (`ToolIsReady`); what observers are shown is an outcome that only a
hook's denial changes (`ObserversHold`), and each observer behind has been shown it or
found the deadline passed (`OutcomeIsShown`). `ToolIsGoverned` and
`EveryEndIsObserved` follow, and the action properties `OnlyTightens` and
`DenialIsFinal` action by action.

For approvals it assumes only that every execution has a request and a content and
that `None` is distinct from both (`ApprovalConstants`). `SingleUse` is not
inductive: the invariant relates a row to each execution that names its request
(`ExecutionOK`). A started execution is the consumer of its row; a committed or
running one too; a live token belongs to an execution that still has it in hand or
has stopped for good; an allow that was reserved was made for the execution's
content. It is kept because content, decision and consumption of a row are final
(`Evolves`) and because a step of one execution gives the reservation to nobody else
(`TokenFor`), so one lemma treats all other executions at once. `RefinesSingleGrant`
maps the verdict to the recorded decision and the runs to `started`.

For identity, `OncePerEnvelope` needs that an acceptance leaves its record in the
store until the envelope and its skew are over (`SpentIsRecorded`), and that a
verifier purges with a time that is not in the future (`ClaimTimeIsPast`). What is
recorded after the envelope and its skew are over is not counted: a verification that
read the clock before that may still pass then, even a second time
(`identity.py:235`). For sealing, `SealedIsProduction` needs that the report of a sealed runtime is the
evaluation of its present composition with no reason left, and that its registry is
sealed with it; the theorem then follows from what each reason of `Evaluate`
excludes, for any tools, pipelines and profiles.

`ResilienceProofs` proves `BulkheadInv` for any capacity of at least one and any set
of acquisitions. `PermitsConserved` alone is not inductive: a grant must go to a
waiter that owns nothing yet, so the queue may hold only waiting acquisitions, each
once (`QueueIsSound`); a caller may go ahead only with a granted waiter
(`HoldersAreGranted`); and a future that is done must belong to a granted waiter
(`FuturesFollowGrants`). Every method that frees a permit ends in
`_grant_next_locked`, so one lemma (`GrantKeepsInv`) serves them all.
`FirstComeFirstServed` needs besides that whoever is granted leaves nobody of the
queue before it behind (`GrantsInOrder`).

For the two entries a trace may have, `SpanEndsOnceAsAsked` holds for any tracer and
any number of threads. It needs that what was asked first decides and that whoever
is to end a span has not done so yet (`SoundEntry`), that a thread ends one itself
only after it reserved the entry and when the owner loop is closed
(`DirectIsReserved`), and that each observation admits at most one entry
(`RunIsOrderly`).

The circuit breaker's `ProbeOverlapBounded` is not inductive: a probe whose flag is
still set is not yet paid for by a late report (`ProbesAreAccounted`). For runtime
events `EventInv` says that the subscribers an event was scheduled for are those it
was offered to and those to come, and that only the one being awaited is both
(`DeliveryIsSound`); that the slot is taken exactly while its callback is at work is
inductive by itself (`SlotIsSound`).

`RuntimeProofs` proves for the in-memory store that the owner of an unsettled claim
keeps its key (`InFlightIsKept`) together with where each execution may be for each
state of its future (`CourseOK`), and counts abandoned operations exactly.

For shutdown it proves `CleanShutdown` in two forms. With several `invoke` calls it
does not hold: one that withdraws while another's work is on the loop it stops
strands that work, which is the race of `invoke_race`. `ShutdownIsCleanWithoutRace`
therefore speaks of the behaviours in which no step is such a withdrawal
(`WithdrawalRaces`), for any operations and closers, and so does
`OperationsEndNaturallyWithoutRace` for `AdmittedEndsNaturally`: the race is the
only thing that breaks either. `ShutdownIsClean` assumes at most one `invoke`
instead, as the run `lifecycle` does, and shows that it never races.

For the schemas the proofs go through what one transaction does to a database of any
shape (`Database`, whose members `SchemaConstants` assumes of `Backups`): a
construction that is not a migration leaves an unversioned store and a ledger of
versions 1 to 3 as they are or refuses (a version 4 ledger it upgrades), and a
migration translates rows one by one. `OpenMeansIntact` and
`ObligationsAreVisible` need more of what an operator restores: that a release has
written it (`BackupsOfReleases`), so that rows of the present table are readable
and, from version 4 on, a head has an outbox row. The `CHECK` constraints of the
table and the transactions that write both justify it; the constructors do not look
at row contents, so with a database edited by hand neither would hold. Rows of the
oldest release are not assumed to be readable: `NormalizedRowIsReadable` shows that
migration makes them so.

For the snapshot log `SnapshotsSurvive` needs, besides what it says of the log
(`LogIsSound`), that the index never claims more of the file than there is, and that
one that covers all of it holds the last number of every trace (`IndexIsSound`): sizes
tell a stale index from a current one only because the file never shrinks. A write in
progress still carries a number above the last of its trace (`WriteIsSound`). The only
assumptions are that the bounds and the numbers a caller may bring are naturals
(`SnapshotConstants`).

`AuditJournalProofs` proves `CrashRecoverable` and `AckedReadable` for any bounds on
writes and crashes, any segment size and any number of backups of at least one
(`JournalConstants`, which also says that `Missing` is not the contents of a file).
Neither is inductive. With a state file and whole lines, `JournalInv` says that the
lines rise in reading order and form a chain from the anchor on that holds both ends
the state file names (`SoundAt`); that no segment which is to stay lies before the
anchor (`Anchored`); and that an acknowledged event is in the chain or older than all of
it (`AckedKept`). A crash may leave the log longer than the recorded end, never shorter.
Until its append a writer's state is the saved one, so that pruning meets only what is
before the saved anchor, and the state it is to record has the new event as its end
(`WriterIsSound`). Half of a rotation leaves a gap between the segments that were
renamed and those that were not (`RotationIsSound`), so no rename overwrites one. A
damaged line is the last one and nobody writes behind it (`DamageIsLast`), and before
the first state file nothing was acknowledged (`FirstWrite`). For the log with a damaged
line, a line that awaits its newline was never acknowledged, so that the write which
joins it takes nobody else's event along (`LossIsLast`). What `_load_state_for_write`
and `_load_or_rebuild_state` make of such a log is said once (`SoundLogLoads`): both
accept it and find the same end.

Proved and not among the properties of the runs: type correctness of the authority,
the execution, the bulkhead, delivery, approvals and schemas; `GenerationChain`,
`PreparedCoversRows`, `OneOpenAttempt` and `ResolutionIsFinal` of the authority;
`WaitersMeanFull` and `LimitHolds` of the bulkhead; `SinkInOrder` and
`SuspensionIsExact` of delivery; `SingleUse`, `RunsWhatWasApproved`,
`LeftoverIsUnspent` and `LeaseIsExclusive` of approvals; `ReportIsCurrent` of sealing;
`HeadIsFinal` and `DrainingIsExact` of the in-memory store; `OpenMeansIntact`
and `MigratesTogether` of the schemas; `WorkersImplementAuthority`.

Only model-checked. Liveness (`EventuallyAnswered`, `EveryWaiterServed`,
`EventuallyDelivered`, `AttemptsAreClosed`, `CloseEnds`, `EverySpanEnds`,
`NothingIsStranded`) is out of the prover's reach, and with it `DaemonExecutor`.
Every safety property of the passing runs is proved. With retries, or with a middleware that
raises after the tool, only `TypeOK`, `RefinesAuthority` and `SuccessIsRecorded` of
`GovernedExecution` are proved; the two violation runs show that
`UncertainStaysBlocked`, and so `ExecutionInv`, on which the other theorems rest, do
not extend to them.

## Not modelled

- Evidence, signing and verification, canonical encoding and value freezing: pure
  functions from bytes or values to a verdict. Where a component depends on one, its
  result is an input (a signature is right or not, a digest is equal or not).
- Policy evaluation and YAML policies: a gate of `Pipeline` may return any context,
  which includes every policy's.
- Plugins, exporters, metrics: adapters that perform I/O around the circuit breaker.
- Inspection, replay views, debugger and visualisation: read-only.
- The attempts and transitions of the in-memory ledger, which follow those of the
  SQLite ledger in `Authority` under one lock; the in-memory and SQLite snapshot
  stores, which number inside one lock or transaction; the in-memory approval store.
- The store used without a ledger in the same database (`mark_unknown` alone), and
  the direct audit write of a ledger without an outbox.
- An execution middleware that swallows the cancellation of its own stage and goes on
  calling after the answer was given; each of its calls would be checked anew.
- A close that has reached the shutdown of the executors on the runtime's own loop when
  an `invoke()` stops that loop: the model lets it end, the code cancels its task, takes
  back `_closing` and leaves the worker thread to finish.
- Calls that race with sealing (`runtime.py:1269`), and a loop that closes while a
  channel is suspended (`runtime.py:3829`): both would compose two modules that are
  too large together.
