-------------------------- MODULE RuntimeLifecycle --------------------------
(***************************************************************************)
(* Shutdown of a Runtime: close(), aclose() and invoke() against admitted   *)
(* operations, the synchronous callbacks and tools they leave behind in     *)
(* worker threads, coroutines that ignore their cancellation, and terminal  *)
(* cleanup that must still use the extension dispatcher while it closes.    *)
(* Operations run on the caller's event loop or, when they come through     *)
(* invoke(), on a loop the Runtime owns.  _lifecycle_lock makes admission   *)
(* and the first step of a close atomic; everything after it interleaves.   *)
(***************************************************************************)
EXTENDS Naturals, FiniteSets

CONSTANTS
    AsyncOps,       \* operations started with arun() on the caller's loop
    SyncOps,        \* operations started with invoke(), on the Runtime's loop
    Closers,        \* calls of aclose(), from the caller's loop
    Threads,        \* calls of close()
    MaxTasks        \* bound on the callbacks, tools, stages and cleanups started

ASSUME LifecycleConstants == MaxTasks \in Nat

Ops == AsyncOps \cup SyncOps

VARIABLES
    op,             \* each public operation
    callback,       \* its synchronous extension callback in the dispatcher
    tool,           \* its synchronous tool in the tool executor
    stage,          \* a coroutine of it that outlived its timeout and grace period
    cleanup,        \* its terminal cleanup task
    closing, closed, \* _closing, _closed
    down,           \* the executors were shut down, the dispatcher last
    closer,         \* each call of close() or aclose()
    syncLoop        \* whether the Runtime's own loop runs

lifecycleVars == <<op, callback, tool, stage, cleanup, closing, closed, down, closer, syncLoop>>

work == <<op, callback, tool, stage, cleanup>>

Loop(o) == IF o \in SyncOps THEN "sync" ELSE "caller"

LifecycleInit ==
    /\ op = [o \in Ops |-> "new"]
    /\ callback = [o \in Ops |-> "none"]
    /\ tool = [o \in Ops |-> "none"]
    /\ stage = [o \in Ops |-> "none"]
    /\ cleanup = [o \in Ops |-> "none"]
    /\ closing = FALSE
    /\ closed = FALSE
    /\ down = FALSE
    /\ closer = [k \in Closers \cup Threads |-> "new"]
    /\ syncLoop = FALSE

\* Work that operations started besides themselves, up to the bound.
MayStart ==
    Cardinality({o \in Ops : callback[o] # "none"}) + Cardinality({o \in Ops : tool[o] # "none"})
      + Cardinality({o \in Ops : stage[o] # "none"}) + Cardinality({o \in Ops : cleanup[o] # "none"})
    < MaxTasks

\* What _finish_async_close() waits for: operations, sync invocations, detached
\* stages and submitted tools.
PendingWork ==
    \/ \E o \in Ops : op[o] \in {"posted", "active"} \/ stage[o] = "pending"
    \/ \E o \in Ops : tool[o] = "running"

PendingCleanup == \E o \in Ops : cleanup[o] \in {"pending", "calling"}

\* _pending_lifecycle_loops_unlocked()
PendingLoops ==
    {Loop(o) : o \in {p \in Ops : \/ op[p] \in {"posted", "active"}
                                  \/ stage[p] = "pending"
                                  \/ cleanup[p] \in {"pending", "calling"}}}

-----------------------------------------------------------------------------
(* Operations.                                                             *)

\* invoke(): the first look at the lifecycle.
CheckInvoke(o) ==
    /\ o \in SyncOps
    /\ op[o] = "new"
    /\ op' = [op EXCEPT ![o] = IF closed \/ closing THEN "refused" ELSE "checked"]
    /\ UNCHANGED <<callback, tool, stage, cleanup, closing, closed, down, closer, syncLoop>>

\* _ensure_sync_loop()
EnsureSyncLoop(o) ==
    /\ op[o] = "checked"
    /\ op' = [op EXCEPT ![o] = "ensured"]
    /\ syncLoop' = TRUE
    /\ UNCHANGED <<callback, tool, stage, cleanup, closing, closed, down, closer>>

\* invoke(): the second look; the operation is posted to the loop, unless another
\* invoke() stopped that loop meanwhile.
PostInvoke(o) ==
    /\ op[o] = "ensured"
    /\ ~closed /\ ~closing
    /\ op' = [op EXCEPT ![o] = IF syncLoop THEN "posted" ELSE "refused"]
    /\ UNCHANGED <<callback, tool, stage, cleanup, closing, closed, down, closer, syncLoop>>

\* _run_sync_loop() after loop.stop(): every task on the loop is cancelled, also
\* a close that was draining there.  A task cancelled before its first step runs
\* none of its handlers: _closing stays set when that is _aclose_on_current_loop(),
\* and may stay set when it has sealed but _finish_async_close() has not begun.
StopSyncLoop ==
    LET cut == {k \in Closers : closer[k] \in {"sync claimed", "sync draining", "sync cleaning"}}
    IN  /\ syncLoop' = FALSE
        /\ closer' = [k \in Closers \cup Threads |-> IF k \in cut THEN "raised" ELSE closer[k]]
        /\ \/ closing' = (closing /\ \A k \in cut : closer[k] = "sync claimed")
           \/ closing' = closing /\ \A k \in cut : closer[k] # "sync cleaning"
        /\ stage' = [o \in Ops |-> IF o \in SyncOps /\ stage[o] = "pending"
                                   THEN "over" ELSE stage[o]]
        /\ cleanup' = [o \in Ops |-> IF o \in SyncOps /\ cleanup[o] \in {"pending", "calling"}
                                     THEN "stranded" ELSE cleanup[o]]

\* invoke(): the second look finds a close under way and stops the loop.
WithdrawInvoke(o) ==
    /\ op[o] = "ensured"
    /\ closed \/ closing
    /\ op' = [p \in Ops |-> IF p = o THEN "refused"
                            ELSE IF p \in SyncOps /\ op[p] \in {"posted", "active"}
                            THEN "cut" ELSE op[p]]
    /\ StopSyncLoop
    /\ UNCHANGED <<callback, tool, closed, down>>

\* _begin_active_operation()
BeginOperation(o) ==
    /\ op[o] = IF o \in SyncOps THEN "posted" ELSE "new"
    /\ op' = [op EXCEPT ![o] = IF \/ closed \/ closing
                                  \/ PendingLoops \ {Loop(o)} # {}
                               THEN "refused" ELSE "active"]
    /\ UNCHANGED <<callback, tool, stage, cleanup, closing, closed, down, closer, syncLoop>>

\* _end_active_operation(): the scope cancels a callback the operation left behind.
EndOperation(o) ==
    /\ op[o] = "active"
    /\ op' = [op EXCEPT ![o] = "ended"]
    /\ callback' = [callback EXCEPT ![o] = IF @ = "queued" THEN "cancelled" ELSE @]
    /\ UNCHANGED <<tool, stage, cleanup, closing, closed, down, closer, syncLoop>>

\* _ExtensionDispatcher._invoke_sync(): admitted, or "runtime is closed".
InvokeSync(o) ==
    /\ op[o] = "active"
    /\ callback[o] = "none" /\ MayStart
    /\ callback' = [callback EXCEPT ![o] = IF closed \/ closing \/ down
                                           THEN "refused" ELSE "queued"]
    /\ UNCHANGED <<op, tool, stage, cleanup, closing, closed, down, closer, syncLoop>>

\* The worker thread.
RunCallback(o) ==
    /\ callback[o] \in {"queued", "running"}
    /\ callback' = [callback EXCEPT ![o] = IF @ = "queued" THEN "running" ELSE "done"]
    /\ UNCHANGED <<op, tool, stage, cleanup, closing, closed, down, closer, syncLoop>>

\* await_stage() timed out and the coroutine outlived the grace period.
DetachStage(o) ==
    /\ op[o] = "active"
    /\ stage[o] = "none" /\ MayStart
    /\ stage' = [stage EXCEPT ![o] = "pending"]
    /\ UNCHANGED <<op, callback, tool, cleanup, closing, closed, down, closer, syncLoop>>

StageEnds(o) ==
    /\ stage[o] = "pending"
    /\ stage' = [stage EXCEPT ![o] = "over"]
    /\ UNCHANGED <<op, callback, tool, cleanup, closing, closed, down, closer, syncLoop>>

\* _run_sync_tool(): tracked until the thread is done, whatever becomes of the caller.
RunSyncTool(o) ==
    /\ op[o] = "active"
    /\ tool[o] = "none" /\ MayStart
    /\ tool' = [tool EXCEPT ![o] = "running"]
    /\ UNCHANGED <<op, callback, stage, cleanup, closing, closed, down, closer, syncLoop>>

ToolEnds(o) ==
    /\ tool[o] = "running"
    /\ tool' = [tool EXCEPT ![o] = "done"]
    /\ UNCHANGED <<op, callback, stage, cleanup, closing, closed, down, closer, syncLoop>>

\* create_cleanup_task()
ScheduleCleanup(o) ==
    /\ op[o] = "active"
    /\ cleanup[o] = "none" /\ MayStart
    /\ cleanup' = [cleanup EXCEPT ![o] = IF down THEN "refused" ELSE "pending"]
    /\ UNCHANGED <<op, callback, tool, stage, closing, closed, down, closer, syncLoop>>

\* Mutant: cleanup waits for ordinary admission.
CleanupWaits(o) ==
    /\ cleanup[o] \in {"pending", "calling"}
    /\ ~closed
    /\ cleanup' = [cleanup EXCEPT ![o] = IF @ = "pending" THEN "calling" ELSE "over"]
    /\ UNCHANGED <<op, callback, tool, stage, closing, closed, down, closer, syncLoop>>

\* The cleanup task makes its last dispatcher call, which a close under way lets
\* through and a dispatcher that is shut down does not.
RunCleanup(o) ==
    /\ cleanup[o] \in {"pending", "calling"}
    /\ cleanup' = [cleanup EXCEPT ![o] = IF @ = "calling" THEN "over"
                                         ELSE IF down THEN "stranded" ELSE "calling"]
    /\ UNCHANGED <<op, callback, tool, stage, closing, closed, down, closer, syncLoop>>

-----------------------------------------------------------------------------
(* Closing.                                                                *)

\* close(): refused while anything is pending, with the Runtime left open.
Close(k) ==
    /\ closer[k] = "new"
    /\ LET busy == \/ PendingWork \/ PendingCleanup
                   \/ \E o \in Ops : callback[o] \in {"queued", "running"}
       IN  closer' = [closer EXCEPT ![k] = IF closing \/ (~closed /\ busy) THEN "raised"
                                           ELSE IF closed THEN "returned" ELSE "stopping"]
    /\ closed' = (closed \/ closer'[k] = "stopping")
    /\ closing' = (closing \/ closer'[k] = "stopping")
    /\ UNCHANGED <<work, down, syncLoop>>

\* aclose(): claims the close, on the caller's loop or on the Runtime's when all
\* pending work lives there.
Aclose(k) ==
    /\ closer[k] = "new"
    /\ closer' = [closer EXCEPT ![k] =
         IF closed THEN "returned"
         ELSE IF closing \/ {"caller", "sync"} \subseteq PendingLoops THEN "raised"
         ELSE IF "sync" \in PendingLoops THEN "sync claimed" ELSE "claimed"]
    /\ closing' = (closing \/ closer'[k] \in {"claimed", "sync claimed"})
    /\ UNCHANGED <<work, closed, down, syncLoop>>

\* _aclose_on_current_loop(): on its loop the close looks once more and seals.
SealClose(k) ==
    /\ closer[k] \in {"claimed", "sync claimed"}
    /\ LET mine == IF closer[k] = "claimed" THEN "caller" ELSE "sync"
           seals == PendingLoops \subseteq {mine}
       IN  /\ closer' = [closer EXCEPT ![k] =
                           IF ~seals THEN "raised"
                           ELSE IF mine = "caller" THEN "draining" ELSE "sync draining"]
           /\ closed' = seals
           /\ closing' = seals
    /\ UNCHANGED <<work, down, syncLoop>>

\* Mutant: a tool whose caller is gone is not waited for.
DrainIgnoresTools(k) ==
    /\ closer[k] \in {"draining", "sync draining"}
    /\ ~\E o \in Ops : op[o] \in {"posted", "active"} \/ stage[o] = "pending"
    /\ closer' = [closer EXCEPT ![k] = IF @ = "draining" THEN "cleaning" ELSE "sync cleaning"]
    /\ UNCHANGED <<work, closing, closed, down, syncLoop>>

\* _finish_async_close(): the loop ends when nothing is pending any more.
Drain(k) ==
    /\ closer[k] \in {"draining", "sync draining"}
    /\ ~PendingWork
    /\ closer' = [closer EXCEPT ![k] = IF @ = "draining" THEN "cleaning" ELSE "sync cleaning"]
    /\ UNCHANGED <<work, closing, closed, down, syncLoop>>

\* drain_cleanup_tasks()
DrainCleanupTasks(k) ==
    /\ closer[k] \in {"cleaning", "sync cleaning"}
    /\ ~PendingCleanup
    /\ closer' = [closer EXCEPT ![k] = "stopping"]
    /\ UNCHANGED <<work, closing, closed, down, syncLoop>>

\* _shutdown_executors(): the dispatcher refuses while cleanup is pending, which
\* leaves the Runtime closed with its workers alive; queued callbacks are cancelled.
ShutdownExecutors(k) ==
    /\ closer[k] = "stopping"
    /\ IF PendingCleanup
       THEN /\ closer' = [closer EXCEPT ![k] = "raised"]
            /\ closing' = FALSE
            /\ UNCHANGED <<callback, down>>
       ELSE /\ closer' = [closer EXCEPT ![k] = "joining"]
            /\ down' = TRUE
            /\ callback' = [o \in Ops |-> IF callback[o] = "queued"
                                          THEN "cancelled" ELSE callback[o]]
            /\ UNCHANGED closing
    /\ UNCHANGED <<op, tool, stage, cleanup, closed, syncLoop>>

\* The workers were joined; the close ends and stops the Runtime's loop.
FinishClose(k) ==
    /\ closer[k] = "joining"
    /\ \A o \in Ops : callback[o] # "running"
    /\ closer' = [closer EXCEPT ![k] = "returned"]
    /\ closing' = FALSE
    /\ syncLoop' = FALSE
    /\ UNCHANGED <<work, closed, down>>

OperationStep(o) ==
    \/ EnsureSyncLoop(o) \/ PostInvoke(o) \/ WithdrawInvoke(o) \/ EndOperation(o)
    \/ RunCallback(o) \/ StageEnds(o) \/ ToolEnds(o) \/ RunCleanup(o)

CloseStep(k) ==
    \/ SealClose(k) \/ Drain(k) \/ DrainCleanupTasks(k) \/ ShutdownExecutors(k)
    \/ FinishClose(k)

LifecycleNext ==
    \/ \E o \in Ops :
          \/ CheckInvoke(o) \/ BeginOperation(o) \/ InvokeSync(o) \/ DetachStage(o)
          \/ RunSyncTool(o) \/ ScheduleCleanup(o) \/ OperationStep(o)
    \/ \E k \in Closers : Aclose(k)
    \/ \E k \in Threads : Close(k)
    \/ \E k \in Closers \cup Threads : CloseStep(k)

LifecycleSpec == LifecycleInit /\ [][LifecycleNext]_lifecycleVars

\* Loops and threads run.  Operations, callbacks, tools and detached coroutines
\* come to an end: they carry the runtime's timeouts or their own.
LifecycleFairness ==
    /\ \A o \in Ops : /\ WF_lifecycleVars(EndOperation(o))
                      /\ WF_lifecycleVars(op[o] = "posted" /\ BeginOperation(o))
                      /\ WF_lifecycleVars(EnsureSyncLoop(o))
                      /\ WF_lifecycleVars(PostInvoke(o) \/ WithdrawInvoke(o))
                      /\ WF_lifecycleVars(RunCallback(o))
                      /\ WF_lifecycleVars(StageEnds(o))
                      /\ WF_lifecycleVars(ToolEnds(o))
                      /\ WF_lifecycleVars(RunCleanup(o))
    /\ \A k \in Closers \cup Threads : WF_lifecycleVars(CloseStep(k))

-----------------------------------------------------------------------------

\* A Runtime that says it is closed has shut its executors down and left nothing
\* behind: no operation, detached coroutine, tool, callback thread or cleanup task;
\* and the terminal cleanup that was admitted has been carried out, because it found
\* a dispatcher that still took it and a loop that still ran it.
CleanShutdown ==
    closed /\ ~closing =>
        /\ down
        /\ ~PendingWork /\ ~PendingCleanup
        /\ \A o \in Ops : callback[o] \notin {"queued", "running"} /\ cleanup[o] # "stranded"

\* Operations that were admitted end by themselves: shutdown never cancels one.
AdmittedEndsNaturally == \A o \in Ops : op[o] # "cut"

\* Whatever operations leave behind, a close that has begun ends: again and again no
\* close() or aclose() is under way.
CloseEnds == []<>~closing
=============================================================================
