------------------------------ MODULE LocalStore ------------------------------
(* The process-local idempotency store and ledger behind the runtime's store    *)
(* channel.  Store operations run on worker threads, one lock each; the         *)
(* execution that awaits one may time out or be cancelled, and the operation    *)
(* still happens.  The store keeps a bounded number of outcomes and forgets the *)
(* oldest, and an UNKNOWN outcome is recorded in two steps: mark_unknown in the *)
(* store, create_unknown in the ledger.                                         *)
EXTENDS Integers, FiniteSets, Sequences, Functions

CONSTANTS
    Keys,
    Executions,
    KeyOf,          \* the idempotency key of each execution
    Parameters,     \* the fingerprints the executions may have, as functions
    MaxCompleted,   \* max_completed_entries
    Nobody

ASSUME LocalStoreConstants ==
    /\ KeyOf \in [Executions -> Keys]
    /\ \A f \in Parameters : DOMAIN f = Executions
    /\ MaxCompleted \in Nat \ {0}
    /\ Nobody \notin Executions

VARIABLES
    fingerprint,    \* of each execution's parameters, fixed
    owner,          \* _entries: the execution whose future a key holds
    future,         \* the future of each execution's claim
    completed,      \* _completed: keys, the one touched longest ago first
    at,             \* where each execution stands
    again,          \* how a handler settles the claim if the store refuses, or "none"
    detached,       \* an operation nobody waits for, and whether it resumes the channel
    disabled,       \* _idempotency_poison
    draining,       \* _idempotency_draining
    head            \* executions with a head in the in-memory ledger

localVars == <<fingerprint, owner, future, completed, at, again, detached, disabled,
               draining, head>>

StoreOperations == {"acquire", "complete", "fail", "mark"}

\* An execution that queues has passed the channel's check and waits for the
\* bulkhead; one that awaits waits for the operation itself.
Places == {<<"queue", op>> : op \in StoreOperations} \cup {<<"await", op>> : op \in StoreOperations}
            \cup {<<p>> : p \in {"new", "body", "join", "create", "over"}}

NoCall == [op |-> "none", resume |-> FALSE]

LocalInit ==
    /\ fingerprint \in Parameters
    /\ owner = [k \in Keys |-> Nobody]
    /\ future = [x \in Executions |-> "none"]
    /\ completed = <<>>
    /\ at = [x \in Executions |-> <<"new">>]
    /\ again = [x \in Executions |-> "none"]
    /\ detached = [x \in Executions |-> NoCall]
    /\ disabled = FALSE
    /\ draining = 0
    /\ head = {}

-----------------------------------------------------------------------------
(* InMemoryIdempotencyStore, each operation under its lock.                     *)

Done(x) == future[x] \in {"result", "error", "unknown"}

\* _remember_completed
Touch(keys, k) == Append(SelectSeq(keys, LAMBDA j : j # k), k)

\* _evict_completed: the entries idle for too long, at least down to the bound.
Evictions(keys) == {n \in 0..Len(keys) : Len(keys) - n <= MaxCompleted}

\* Mutant: an evicted key takes its entry along.
KeptUnconditionally(own, fut, evicted) ==
    [k \in Keys |-> IF k \in evicted THEN Nobody ELSE own[k]]

\* The entry of an evicted key goes if its future is done.
KeptEntries(own, fut, evicted) ==
    [k \in Keys |-> IF k \in evicted /\ own[k] # Nobody
                       /\ fut[own[k]] \in {"result", "error", "unknown"}
                    THEN Nobody ELSE own[k]]

\* Remember a key if there is one to remember, then evict.
RememberAndEvict(fut, k) ==
    LET keys == Touch(completed, k)
    IN  \E n \in Evictions(keys) :
            /\ completed' = SubSeq(keys, n + 1, Len(keys))
            /\ owner' = KeptEntries(owner, fut, Range(SubSeq(keys, 1, n)))

AcquireStore(x) ==
    \E n \in Evictions(completed) :
        LET k == KeyOf[x]
            keys == SubSeq(completed, n + 1, Len(completed))
            own == KeptEntries(owner, future, Range(SubSeq(completed, 1, n)))
        IN  IF own[k] = Nobody
            THEN /\ owner' = [own EXCEPT ![k] = x]
                 /\ future' = [future EXCEPT ![x] = "pending"]
                 /\ completed' = keys
            ELSE /\ owner' = own
                 /\ completed' = IF fingerprint[own[k]] = fingerprint[x] /\ Done(own[k])
                                 THEN Touch(keys, k) ELSE keys
                 /\ UNCHANGED future

Settle(x, outcome) ==
    LET fut == IF Done(x) THEN future ELSE [future EXCEPT ![x] = outcome]
    IN  /\ future' = fut
        /\ RememberAndEvict(fut, KeyOf[x])

FailStore(x) ==
    /\ IF owner[KeyOf[x]] = x
       THEN /\ owner' = [owner EXCEPT ![KeyOf[x]] = Nobody]
            /\ completed' = SelectSeq(completed, LAMBDA k : k # KeyOf[x])
       ELSE UNCHANGED <<owner, completed>>
    /\ future' = IF Done(x) THEN future ELSE [future EXCEPT ![x] = "error"]

Store(x, op) ==
    \/ op = "acquire" /\ AcquireStore(x)
    \/ op = "complete" /\ Settle(x, "result")
    \/ op = "mark" /\ Settle(x, "unknown")
    \/ op = "fail" /\ FailStore(x)

-----------------------------------------------------------------------------
(* The channel of the store.                                                    *)

Open == ~disabled /\ draining = 0

Place(x, p) == at' = [at EXCEPT ![x] = p]

\* The bulkhead lets the operation through; the check is not repeated.
Submit(x) ==
    /\ at[x][1] = "queue"
    /\ Place(x, <<"await", at[x][2]>>)
    /\ UNCHANGED <<fingerprint, owner, future, completed, again, detached, disabled,
                   draining, head>>

\* _poison_idempotency_store if the operation had its full time, and
\* _suspend_idempotency_store if a deadline or a cancellation cut it short.
Detach(x, op, poisons) ==
    /\ detached' = [detached EXCEPT ![x] = [op |-> op, resume |-> ~poisons]]
    /\ disabled' = (disabled \/ poisons)
    /\ draining' = IF ~poisons /\ ~disabled THEN draining + 1 ELSE draining

\* _resume_idempotency_store
Resume(x) ==
    draining' = IF detached[x].resume /\ draining > 0 THEN draining - 1 ELSE draining

-----------------------------------------------------------------------------
(* The executions.                                                              *)

Begin(x) ==
    /\ at[x] = <<"new">>
    /\ Place(x, IF Open THEN <<"queue", "acquire">> ELSE <<"over">>)
    /\ UNCHANGED <<fingerprint, owner, future, completed, again, detached, disabled,
                   draining, head>>

\* The claim is there: the execution owns it, joins another one's or conflicts.
\* A caller cancelled in this very moment drops its claim.
Acquired(x) ==
    /\ at[x] = <<"await", "acquire">>
    /\ AcquireStore(x)
    /\ \/ Place(x, CASE owner'[KeyOf[x]] = x -> <<"body">>
                     [] owner'[KeyOf[x]] # x /\ fingerprint[owner'[KeyOf[x]]] = fingerprint[x] -> <<"join">>
                     [] OTHER -> <<"over">>)
       \/ Place(x, <<"over">>)
    /\ UNCHANGED <<fingerprint, again, detached, disabled, draining, head>>

\* A joiner is answered with the owner's outcome, or stops waiting for it.
Join(x) ==
    /\ at[x] = <<"join">>
    /\ Place(x, <<"over">>)
    /\ UNCHANGED <<fingerprint, owner, future, completed, again, detached, disabled,
                   draining, head>>

\* The first settlement of a claim and the second one, of the handler its refusal
\* leads to: a result that cannot be stored is uncertain, or failed when the tool
\* only reads; a denial after the claim is settled twice alike; any other failure
\* and any uncertain outcome come from a handler that does not try again.
Settlements ==
    {<<"complete", "mark">>, <<"complete", "fail">>, <<"fail", "fail">>, <<"fail", "none">>,
     <<"mark", "none">>}

\* The execution ends, and its outcome is to be stored.
ToolSettles(x) ==
    /\ at[x] = <<"body">>
    /\ \E s \in Settlements :
          /\ again[x] # "none" => s = <<again[x], "none">>
          /\ Place(x, IF Open THEN <<"queue", s[1]>>
                      ELSE IF s[2] = "none" THEN <<"over">> ELSE <<"body">>)
          /\ again' = [again EXCEPT ![x] = s[2]]
    /\ UNCHANGED <<fingerprint, owner, future, completed, detached, disabled, draining, head>>

\* The bulkhead of the store has no place in time.
BulkheadRefuses(x) ==
    /\ at[x][1] = "queue"
    /\ Place(x, IF again[x] = "none" THEN <<"over">> ELSE <<"body">>)
    /\ UNCHANGED <<fingerprint, owner, future, completed, again, detached, disabled,
                   draining, head>>

\* complete, or fail: the execution is settled.
Settled(x) ==
    /\ at[x] \in {<<"await", "complete">>, <<"await", "fail">>}
    /\ Store(x, at[x][2])
    /\ Place(x, <<"over">>)
    /\ UNCHANGED <<fingerprint, again, detached, disabled, draining, head>>

\* complete was carried out while its caller was cancelled: the handler of the
\* cancellation settles the claim a second time, as UNKNOWN.
SettledCancelled(x) ==
    /\ at[x] = <<"await", "complete">>
    /\ Store(x, "complete")
    /\ Place(x, IF Open THEN <<"queue", "mark">> ELSE <<"over">>)
    /\ again' = [again EXCEPT ![x] = "none"]
    /\ UNCHANGED <<fingerprint, detached, disabled, draining, head>>

MarkedUnknown(x) ==
    /\ at[x] = <<"await", "mark">>
    /\ Store(x, "mark")
    /\ Place(x, <<"create">>)
    /\ UNCHANGED <<fingerprint, again, detached, disabled, draining, head>>

\* create_unknown through the ledger's own channel, which may refuse it.
CreateUnknown(x) ==
    /\ at[x] = <<"create">>
    /\ head' \in {head, head \cup {x}}
    /\ Place(x, <<"over">>)
    /\ UNCHANGED <<fingerprint, owner, future, completed, again, detached, disabled, draining>>

\* Nobody waits for the operation any longer.  A deadline that has passed and a
\* closed channel both refuse whatever the execution would try next.
StopWaiting(x) ==
    /\ at[x][1] = "await"
    /\ \E poisons \in BOOLEAN : Detach(x, at[x][2], poisons)
    /\ Place(x, <<"over">>)
    /\ UNCHANGED <<fingerprint, owner, future, completed, again, head>>

\* The worker thread is done with it.  An orphaned claim becomes UNKNOWN at once.
LateOperation(x) ==
    /\ detached[x].op \in StoreOperations
    /\ Store(x, detached[x].op)
    /\ IF detached[x].op = "acquire" /\ owner'[KeyOf[x]] = x
       THEN detached' = [detached EXCEPT ![x].op = "mark"] /\ UNCHANGED draining
       ELSE detached' = [detached EXCEPT ![x] = NoCall] /\ Resume(x)
    /\ UNCHANGED <<fingerprint, at, again, disabled, head>>

LocalNext ==
    \E x \in Executions :
        \/ Begin(x) \/ Submit(x) \/ Acquired(x) \/ Join(x) \/ ToolSettles(x)
        \/ BulkheadRefuses(x) \/ Settled(x) \/ SettledCancelled(x) \/ MarkedUnknown(x) \/ CreateUnknown(x)
        \/ StopWaiting(x) \/ LateOperation(x)

LocalSpec == LocalInit /\ [][LocalNext]_localVars

-----------------------------------------------------------------------------

\* "In-flight claims are never evicted": whatever late operations of earlier
\* owners touch the key, the future of an unsettled claim stays the key's own,
\* so two executions of one key never both believe to own it.
InFlightIsKept == \A x \in Executions : future[x] = "pending" => owner[KeyOf[x]] = x

\* The ledger never knows of an execution whose key is still free to be settled
\* otherwise: a head stands for an outcome that is final in the store.
HeadIsFinal == \A x \in head : future[x] \in {"result", "unknown"}

\* The channel is closed exactly as long as operations that will reopen it run.
DrainingIsExact ==
    ~disabled => draining = Cardinality({x \in Executions : detached[x].resume})
=============================================================================
