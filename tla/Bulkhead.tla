----------------------------- MODULE Bulkhead -----------------------------
(***************************************************************************)
(* RuntimeBulkhead (resilience.py): a limit on concurrent work that is     *)
(* shared by the event loops of a process.  A lock makes every method one  *)
(* step.  What runs between them is the event loop of each acquisition: it *)
(* runs the _deliver callbacks scheduled on it, wakes the task that awaits *)
(* the waiter's future, times it out or cancels it, and may be closed while *)
(* the task still waits.                                                   *)
(***************************************************************************)
EXTENDS Integers, Sequences, FiniteSets

CONSTANTS
    Acquisitions,   \* calls of acquire(), each with a waiter of its own
    Capacity,       \* the capacity of the bulkhead
    Closable        \* the acquisitions whose event loop may be closed early

ASSUME CapacityAssumption == Capacity \in Nat \ {0}

VARIABLES
    available,      \* _available
    waiters,        \* _waiters, the deque
    state,          \* _BulkheadWaiter.state
    future,         \* _BulkheadWaiter.future
    scheduled,      \* the _deliver callbacks that a loop has yet to run
    pc              \* where the caller of acquire() is

vars == <<available, waiters, state, future, scheduled, pc>>

States == {"waiting", "granted", "timed_out", "cancelled"}

Futures == {"pending", "done", "cancelled"}

Places == {"idle", "awaiting", "abandoned", "holding", "released", "refused"}

TypeOK ==
    /\ available \in 0..Capacity
    /\ waiters \in Seq(Acquisitions)
    /\ state \in [Acquisitions -> States]
    /\ future \in [Acquisitions -> Futures]
    /\ scheduled \subseteq Acquisitions
    /\ pc \in [Acquisitions -> Places]

Init ==
    /\ available = Capacity
    /\ waiters = <<>>
    /\ state = [a \in Acquisitions |-> "waiting"]
    /\ future = [a \in Acquisitions |-> "pending"]
    /\ scheduled = {}
    /\ pc = [a \in Acquisitions |-> "idle"]

(* The waiters among the first n of a queue that get a permit: those that  *)
(* still wait and whose loop takes the callback.                           *)
Served(queue, st, n) ==
    {queue[i] : i \in {j \in 1..n : st[queue[j]] = "waiting" /\ pc[queue[j]] # "abandoned"}}

(* Mutant: pop() instead of popleft().                                     *)
GrantNextLast(permits, queue, st, callbacks) ==
    LET last == queue[Len(queue)]
        grants == permits > 0 /\ queue # <<>>
    IN  /\ available' = IF grants THEN permits - 1 ELSE permits
        /\ waiters' = IF grants THEN SubSeq(queue, 1, Len(queue) - 1) ELSE queue
        /\ state' = IF grants THEN [st EXCEPT ![last] = "granted"] ELSE st
        /\ scheduled' = IF grants THEN callbacks \cup {last} ELSE callbacks

(* _grant_next_locked, called with the permits, queue and waiter states    *)
(* that the method has reached.  It pops waiters while a permit is left.   *)
(* A waiter whose loop is closed is popped and cancelled.                  *)
GrantNext(permits, queue, st, callbacks) ==
    \E n \in 0..Len(queue) :
        LET served == Served(queue, st, n)
            popped == {queue[i] : i \in 1..n}
        IN  /\ \A m \in 0..(n - 1) : Cardinality(Served(queue, st, m)) < permits
            /\ Cardinality(served) = permits \/ n = Len(queue)
            /\ available' = permits - Cardinality(served)
            /\ waiters' = SubSeq(queue, n + 1, Len(queue))
            /\ state' = [a \in Acquisitions |->
                            IF a \in served THEN "granted"
                            ELSE IF a \in popped /\ st[a] = "waiting" THEN "cancelled"
                            ELSE st[a]]
            /\ scheduled' = callbacks \cup served

(* acquire with no time left to wait.                                      *)
Refuse(a) ==
    /\ pc[a] = "idle"
    /\ pc' = [pc EXCEPT ![a] = "refused"]
    /\ UNCHANGED <<available, waiters, state, future, scheduled>>

(* _acquire_or_enqueue takes a permit at once, or acquire starts to wait.  *)
Acquire(a) ==
    /\ pc[a] = "idle"
    /\ IF available <= 0 \/ waiters # <<>>
       THEN /\ waiters' = Append(waiters, a)
            /\ pc' = [pc EXCEPT ![a] = "awaiting"]
            /\ UNCHANGED <<available, state>>
       ELSE /\ available' = available - 1
            /\ state' = [state EXCEPT ![a] = "granted"]
            /\ pc' = [pc EXCEPT ![a] = "holding"]
            /\ UNCHANGED waiters
    /\ UNCHANGED <<future, scheduled>>

(* _deliver, run by the loop of the waiter.                                *)
Deliver(a) ==
    /\ a \in scheduled
    /\ pc[a] # "abandoned"
    /\ IF state[a] # "granted"
       THEN /\ scheduled' = scheduled \ {a}
            /\ UNCHANGED <<available, waiters, state, future>>
       ELSE IF future[a] # "pending"
       THEN /\ GrantNext(available + 1, waiters, [state EXCEPT ![a] = "cancelled"], scheduled \ {a})
            /\ UNCHANGED future
       ELSE /\ future' = [future EXCEPT ![a] = "done"]
            /\ scheduled' = scheduled \ {a}
            /\ UNCHANGED <<available, waiters, state>>
    /\ UNCHANGED pc

(* The await returns and acquire hands out the lease.                      *)
Wake(a) ==
    /\ pc[a] = "awaiting"
    /\ future[a] = "done"
    /\ pc' = [pc EXCEPT ![a] = "holding"]
    /\ UNCHANGED <<available, waiters, state, future, scheduled>>

(* A queue without its i-th element.                                       *)
Without(queue, i) ==
    [j \in 1..(Len(queue) - 1) |-> IF j < i THEN queue[j] ELSE queue[j + 1]]

(* What _withdraw makes of the queue: a waiting waiter leaves it.          *)
QueueWithout(a) ==
    IF \E i \in 1..Len(waiters) : waiters[i] = a
    THEN Without(waiters, CHOOSE i \in 1..Len(waiters) : waiters[i] = a)
    ELSE waiters

(* Mutant: a permit granted to a waiter that withdraws is not given back.  *)
WithdrawLeaks(a, why) ==
    /\ pc[a] = "awaiting"
    /\ GrantNext(available,
                 IF state[a] = "waiting" THEN QueueWithout(a) ELSE waiters,
                 [state EXCEPT ![a] = why],
                 scheduled)
    /\ future' = [future EXCEPT ![a] = IF @ = "pending" THEN "cancelled" ELSE @]
    /\ pc' = [pc EXCEPT ![a] = "refused"]

(* Mutant: a permit that is given back by a withdrawal wakes nobody.       *)
WithdrawSilent(a, why) ==
    /\ pc[a] = "awaiting"
    /\ available' = IF state[a] = "granted" THEN available + 1 ELSE available
    /\ waiters' = IF state[a] = "waiting" THEN QueueWithout(a) ELSE waiters
    /\ state' = [state EXCEPT ![a] = why]
    /\ future' = [future EXCEPT ![a] = IF @ = "pending" THEN "cancelled" ELSE @]
    /\ pc' = [pc EXCEPT ![a] = "refused"]
    /\ UNCHANGED scheduled

(* acquire stops waiting, because its timeout passed or because its task   *)
(* was cancelled, and calls _withdraw.  The timeout may win against a      *)
(* future that is already done.                                            *)
Withdraw(a, why) ==
    /\ pc[a] = "awaiting"
    /\ IF state[a] \in {"waiting", "granted"}
       THEN /\ GrantNext(IF state[a] = "granted" THEN available + 1 ELSE available,
                         IF state[a] = "waiting" THEN QueueWithout(a) ELSE waiters,
                         [state EXCEPT ![a] = why],
                         scheduled)
            /\ future' = [future EXCEPT ![a] = IF @ = "pending" THEN "cancelled" ELSE @]
       ELSE UNCHANGED <<available, waiters, state, future, scheduled>>
    /\ pc' = [pc EXCEPT ![a] = "refused"]

TimeOut(a) == Withdraw(a, "timed_out")

Cancel(a) == Withdraw(a, "cancelled")

(* BulkheadLease.release, which calls _release once.  _release refuses to  *)
(* go above the capacity.                                                  *)
Release(a) ==
    /\ pc[a] = "holding"
    /\ IF available >= Capacity
       THEN UNCHANGED <<available, waiters, state, scheduled>>
       ELSE GrantNext(available + 1, waiters, state, scheduled)
    /\ pc' = [pc EXCEPT ![a] = "released"]
    /\ UNCHANGED future

(* The loop of an acquisition is closed with the task still waiting: its   *)
(* callbacks never run, and new ones are refused with RuntimeError.        *)
CloseLoop(a) ==
    /\ a \in Closable
    /\ pc[a] = "awaiting"
    /\ pc' = [pc EXCEPT ![a] = "abandoned"]
    /\ UNCHANGED <<available, waiters, state, future, scheduled>>

Next ==
    \E a \in Acquisitions :
        \/ Refuse(a)
        \/ Acquire(a)
        \/ Deliver(a)
        \/ Wake(a)
        \/ TimeOut(a)
        \/ Cancel(a)
        \/ Release(a)
        \/ CloseLoop(a)

Spec == Init /\ [][Next]_vars

(* Loops run their callbacks and resume their tasks, and a holder releases *)
(* its permit: every use is in a finally clause or a done callback.        *)
(* Nothing is assumed of timeouts and cancellation.                        *)
Fairness ==
    \A a \in Acquisitions :
        /\ WF_vars(Deliver(a))
        /\ WF_vars(Wake(a))
        /\ WF_vars(Release(a))

FairSpec == Spec /\ Fairness

-----------------------------------------------------------------------------

(* The acquisitions that own a permit: granted and not released.           *)
Owners == {a \in Acquisitions : state[a] = "granted" /\ pc[a] # "released"}

(* Permits are neither lost nor made: what is not available belongs to     *)
(* exactly one granted acquisition, through every race of a grant with a   *)
(* timeout, a cancellation or a closed loop (_withdraw, _deliver and       *)
(* _release each give back what _grant_next_locked took).                  *)
PermitsConserved == available + Cardinality(Owners) = Capacity

(* No wakeup is lost: whenever somebody is in the queue, no permit is      *)
(* free, so every path of resilience.py that frees one calls               *)
(* _grant_next_locked.                                                     *)
WaitersMeanFull == waiters # <<>> => available = 0

(* The promise of the bulkhead: no more callers than its capacity are past *)
(* acquire and before release at any time, whatever acquire, _withdraw and *)
(* _deliver did on the way there.                                          *)
LimitHolds == Cardinality({a \in Acquisitions : pc[a] = "holding"}) <= Capacity

(* a is in the queue, and before b if b is.                                *)
Arrived(a, b) ==
    \E i \in DOMAIN waiters :
        /\ waiters[i] = a
        /\ \A j \in DOMAIN waiters : waiters[j] = b => i < j

(* First come, first served: a waiter that is granted a permit leaves      *)
(* nobody behind in the queue that arrived before it (popleft in           *)
(* _grant_next_locked, and the test of _waiters in _acquire_or_enqueue).   *)
FirstComeFirstServed ==
    [][\A a, b \in Acquisitions :
          (state[b] # "granted" /\ state'[b] = "granted" /\ Arrived(a, b))
              => \A i \in DOMAIN waiters' : waiters'[i] # a]_vars

(* Whoever waits is served even if nobody times out or is cancelled, as    *)
(* long as fewer loops are closed than there are permits: a permit granted *)
(* to a closed loop is gone.                                               *)
EveryWaiterServed ==
    \A a \in Acquisitions : pc[a] = "awaiting" ~> pc[a] # "awaiting"

(* The facts that make the properties above inductive: a caller goes ahead *)
(* only with a granted waiter, the queue holds each waiting acquisition    *)
(* once, a future is settled only after its waiter was, and a callback     *)
(* still to run finds a future that is not done.                           *)
HoldersAreGranted ==
    \A a \in Acquisitions : pc[a] = "holding" => a \in Owners

QueueIsSound ==
    /\ \A i, j \in DOMAIN waiters : waiters[i] = waiters[j] => i = j
    /\ \A i \in DOMAIN waiters :
          state[waiters[i]] = "waiting" /\ pc[waiters[i]] \in {"awaiting", "abandoned"}

FuturesFollowGrants ==
    \A a \in Acquisitions :
        /\ state[a] = "waiting" => future[a] = "pending"
        /\ state[a] = "granted" => future[a] # "cancelled"
        /\ state[a] = "granted" /\ a \in scheduled => future[a] = "pending"
        /\ pc[a] = "awaiting" /\ future[a] = "done" => state[a] = "granted"
        /\ pc[a] = "idle" => state[a] = "waiting"

BulkheadInv ==
    /\ TypeOK
    /\ IsFiniteSet(Owners)
    /\ PermitsConserved
    /\ WaitersMeanFull
    /\ HoldersAreGranted
    /\ QueueIsSound
    /\ FuturesFollowGrants
=============================================================================
