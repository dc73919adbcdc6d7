--------------------------- MODULE DaemonExecutor ---------------------------
(***************************************************************************)
(* DaemonThreadPoolExecutor: work items in a queue, worker threads started  *)
(* on demand up to a maximum, a shutdown that puts one stop marker per      *)
(* worker into the queue, threads that may fail to start, and queue reads   *)
(* that may fail while the interpreter goes down.  Submission, shutdown and *)
(* the workers' bookkeeping hold one lock; reading the queue and running an *)
(* item do not.                                                             *)
(***************************************************************************)
EXTENDS Naturals, Sequences, FiniteSets

CONSTANTS
    Items,          \* work items, each with its future
    Workers,        \* worker threads the process can have: _max_workers of them
    Fragile,        \* the workers whose start and whose queue reads may fail
    Stop            \* the None that tells a worker to return

ASSUME ExecutorConstants == IsFiniteSet(Workers) /\ Fragile \subseteq Workers /\ Stop \notin Items

VARIABLES
    queue,          \* _work_queue
    worker,         \* where each thread is; "none" is not in _threads, "dead" is
                    \* in it and never started
    held,           \* the item a worker took from the queue
    result,         \* the item's future; "unheld" is a pending one that submit
                    \* did not return
    shut,           \* _shutdown
    broken,         \* _broken is set
    gaveUp          \* the drain of a broken queue has failed too

executorVars == <<queue, worker, held, result, shut, broken, gaveUp>>

Waiting(i) == result[i] \in {"pending", "unheld"}
Threads == {w \in Workers : worker[w] # "none"}

\* _idle_workers: raised before the queue read and lowered after it.
IdleWorkers == {w \in Workers : worker[w] \in {"reading", "took", "draining"}}

ExecutorInit ==
    /\ queue = <<>>
    /\ worker = [w \in Workers |-> "none"]
    /\ held = [w \in Workers |-> Stop]
    /\ result = [i \in Items |-> "new"]
    /\ shut = FALSE
    /\ broken = FALSE
    /\ gaveUp = FALSE

\* _start_worker_unlocked(), when no worker is idle and one more is allowed: the
\* thread is in _threads before start() may raise.
StartWorker(threads) ==
    IF IdleWorkers = {} /\ \E w \in Workers : threads[w] = "none"
    THEN \E w \in Workers :
            /\ threads[w] = "none"
            /\ \E place \in {"starting"} \union (IF w \in Fragile THEN {"dead"} ELSE {}) :
                    worker' = [threads EXCEPT ![w] = place]
    ELSE worker' = threads

\* submit(): when the thread does not start, its exception takes the place of the
\* future of an item that is in the queue by then.
Submit(i) ==
    /\ result[i] = "new"
    /\ IF shut \/ broken
       THEN result' = [result EXCEPT ![i] = "refused"] /\ UNCHANGED <<queue, worker>>
       ELSE /\ queue' = Append(queue, i)
            /\ StartWorker(worker)
            /\ result' = [result EXCEPT ![i] =
                            IF \E w \in Workers \ Threads : worker'[w] = "dead"
                            THEN "unheld" ELSE "pending"]
    /\ UNCHANGED <<held, shut, broken, gaveUp>>

\* The owner of the future cancels it before a worker has it.
CancelItem(i) ==
    /\ result[i] = "pending"
    /\ result' = [result EXCEPT ![i] = "cancelled"]
    /\ UNCHANGED <<queue, worker, held, shut, broken, gaveUp>>

\* shutdown() up to the joins, with and without cancel_futures.
Shutdown(cancelFutures) ==
    LET stops == [k \in 1 .. Cardinality(Threads) |-> Stop]
    IN  /\ ~shut
        /\ shut' = TRUE
        /\ IF cancelFutures
           THEN /\ queue' = stops
                /\ result' = [i \in Items |->
                                IF Waiting(i) /\ \E k \in DOMAIN queue : queue[k] = i
                                THEN "cancelled" ELSE result[i]]
           ELSE /\ queue' = queue \o stops
                /\ UNCHANGED result
        /\ UNCHANGED <<worker, held, broken, gaveUp>>

\* _worker(): announce itself idle, then read the queue.
Announce(w) ==
    /\ worker[w] = "starting"
    /\ worker' = [worker EXCEPT ![w] = "reading"]
    /\ UNCHANGED <<queue, held, result, shut, broken, gaveUp>>

Take(w) ==
    /\ worker[w] = "reading"
    /\ queue # <<>>
    /\ held' = [held EXCEPT ![w] = Head(queue)]
    /\ queue' = Tail(queue)
    /\ worker' = [worker EXCEPT ![w] = "took"]
    /\ UNCHANGED <<result, shut, broken, gaveUp>>

\* The read raises: the executor is marked unavailable, then its queue is drained.
ReadFails(w) ==
    /\ w \in Fragile
    /\ worker[w] = "reading"
    /\ broken' = TRUE
    /\ worker' = [worker EXCEPT ![w] = "draining"]
    /\ UNCHANGED <<queue, held, result, shut, gaveUp>>

\* _fail_queued_work(), one entry at a time; it also eats stop markers.  A queue
\* that fails here too is left as it is.
FailQueuedWork(w) ==
    /\ worker[w] = "draining"
    /\ \/ /\ queue # <<>>
          /\ queue' = Tail(queue)
          /\ result' = [i \in Items |-> IF i = Head(queue) /\ Waiting(i)
                                        THEN "failed" ELSE result[i]]
          /\ UNCHANGED <<worker, gaveUp>>
       \/ /\ worker' = [worker EXCEPT ![w] = "leaving"]
          /\ gaveUp' = (gaveUp \/ queue # <<>>)
          /\ UNCHANGED <<queue, result>>
    /\ UNCHANGED <<held, shut, broken>>

\* Mutant: an item met after the failure is put aside unsettled.
DispatchForgets(w) ==
    LET i == held[w]
    IN  /\ worker[w] = "took"
        /\ worker' = [worker EXCEPT ![w] = CASE i = Stop -> "leaving"
                                             [] i # Stop /\ (broken \/ ~Waiting(i))
                                                  -> "starting"
                                             [] OTHER -> "running"]
        /\ result' = [j \in Items |-> IF j = i /\ worker'[w] = "running"
                                      THEN "running" ELSE result[j]]
        /\ UNCHANGED <<queue, held, shut, broken, gaveUp>>

\* Back under the lock with an item: return, skip, fail it or run it.
Dispatch(w) ==
    LET i == held[w]
    IN  /\ worker[w] = "took"
        /\ \/ /\ i = Stop
              /\ worker' = [worker EXCEPT ![w] = "leaving"]
              /\ UNCHANGED result
           \/ /\ i # Stop /\ result[i] = "cancelled"
              /\ worker' = [worker EXCEPT ![w] = "starting"]
              /\ UNCHANGED result
           \/ /\ i # Stop /\ Waiting(i) /\ broken
              /\ worker' = [worker EXCEPT ![w] = "starting"]
              /\ result' = [result EXCEPT ![i] = "failed"]
           \/ /\ i # Stop /\ Waiting(i) /\ ~broken
              /\ worker' = [worker EXCEPT ![w] = "running"]
              /\ result' = [result EXCEPT ![i] = "running"]
        /\ UNCHANGED <<queue, held, shut, broken, gaveUp>>

\* The function returned or raised.
Complete(w) ==
    /\ worker[w] = "running"
    /\ result' = [result EXCEPT ![held[w]] = "done"]
    /\ worker' = [worker EXCEPT ![w] = "starting"]
    /\ UNCHANGED <<queue, held, shut, broken, gaveUp>>

\* The worker leaves _threads and replaces itself if work is left behind.
Depart(w) ==
    /\ worker[w] = "leaving"
    /\ LET others == [worker EXCEPT ![w] = "none"]
       IN  IF ~shut /\ ~broken /\ queue # <<>> THEN StartWorker(others)
           ELSE worker' = others
    /\ UNCHANGED <<queue, held, result, shut, broken, gaveUp>>

WorkerStep(w) ==
    Announce(w) \/ Take(w) \/ FailQueuedWork(w) \/ Dispatch(w) \/ Depart(w)

ExecutorNext ==
    \/ \E i \in Items : Submit(i) \/ CancelItem(i)
    \/ \E cancelFutures \in BOOLEAN : Shutdown(cancelFutures)
    \/ \E w \in Workers : WorkerStep(w) \/ Complete(w) \/ ReadFails(w)

ExecutorSpec == ExecutorInit /\ [][ExecutorNext]_executorVars

\* Threads that started run.  A function need not return: the pool exists for
\* work that is abandoned when it hangs.
ExecutorFairness == \A w \in Workers : WF_executorVars(WorkerStep(w))

-----------------------------------------------------------------------------

\* A future that submit returned stays pending for good only behind functions that
\* do not return and threads that did not start, or in a queue that failed twice:
\* no cancellation, shutdown or failing read of another worker strands it.  The
\* functions may be fewer than _max_workers, since submit counts as idle a worker
\* that has just taken an item (daemon_executor.py:70, 113-133, 163-177).
NothingIsStranded ==
    \A i \in Items :
        <>[](result[i] = "pending") =>
            <>[](\/ gaveUp
                 \/ Threads # {} /\ \A w \in Threads : worker[w] \in {"running", "dead"})
=============================================================================
