---------------------------- MODULE SpanLifecycle ----------------------------
(* The OpenTelemetry middleware's spans for one trace: an observer admits a    *)
(* span before the tool and finishes it afterwards, the runtime may cancel     *)
(* either observer or abort the span, and other threads may finish or abort it *)
(* through the synchronous API, also after the event loop that owns the start  *)
(* task has been closed.                                                       *)
EXTENDS Naturals, FiniteSets

CONSTANT Callers    \* threads that call finish or abort, once each

\* What the tracer offers: start_span as a function or as a coroutine function,
\* or only start_as_current_span.
Tracers == {"sync", "native", "legacy"}

\* Each of the two observations admits at most one entry.
Entries == 1..2

VARIABLES
    tracer,     \* the kind of tracer, fixed
    current,    \* the entry of the trace in _spans, 0 for none
    entry,      \* the _SpanEntry objects
    run,        \* the execution that the observers belong to
    caller,     \* the threads of the synchronous API
    ownerLoop,  \* whether the event loop of the start task is open
    shut        \* the dispatcher's shutdown signal

spanVars == <<tracer, current, entry, run, caller, ownerLoop, shut>>

Ways == {"abort", "finish"}

\* A _SpanEntry.  start: the start task; known: entry.handle; abort, terminal:
\* what was asked for; first: what was asked for first; finalizer, direct: who
\* ends the span; how: what the finalizer read; signal: legacy_terminal_signal;
\* span, ends: what the tracer sees.
NoEntry == [start |-> "none", known |-> FALSE, abort |-> FALSE, terminal |-> FALSE,
            first |-> "none", finalizer |-> "none", direct |-> FALSE, how |-> "none",
            signal |-> FALSE, span |-> "none", ends |-> 0]

SpanInit ==
    /\ tracer \in Tracers
    /\ current = 0
    /\ entry = [i \in Entries |-> NoEntry]
    /\ run = [phase |-> "before", at |-> "idle", on |-> 0]
    /\ caller = [c \in Callers |-> [at |-> "idle", on |-> 0, way |-> "abort"]]
    /\ ownerLoop = TRUE
    /\ shut = FALSE

-----------------------------------------------------------------------------
(* Requests to end an entry.                                                   *)

\* An abort always counts, a terminal context only if nothing came before it.
Asked(i, way) ==
    [entry[i] EXCEPT !.abort = @ \/ way = "abort",
                     !.terminal = @ \/ (way = "finish" /\ ~entry[i].abort),
                     !.first = IF @ = "none" THEN way ELSE @]

\* _request_terminal, on the owner loop: one finalizer per entry, and nothing
\* for an entry that is no longer listed.  Before the dispatcher is shut down a
\* cleanup task is never refused, and afterwards only a span that its caller
\* left open could ask for one.
RequestTerminal(i, way) ==
    entry' = IF current # i THEN entry
             ELSE [entry EXCEPT ![i] =
                      [Asked(i, way) EXCEPT !.finalizer = IF @ = "none" THEN "waiting" ELSE @]]

Pop(i) == current' = IF current = i THEN 0 ELSE current

-----------------------------------------------------------------------------
(* The start task.                                                             *)

\* start_span returns.  An abort does not wait for it and does not lose it.
StartReturns(i) ==
    /\ entry[i].start = "running" /\ tracer # "legacy"
    /\ entry' = [entry EXCEPT ![i].start = "done", ![i].span = "open"]
    /\ UNCHANGED <<tracer, current, run, caller, ownerLoop, shut>>

\* start_span raises, or its coroutine is cancelled because of an abort.
StartFails(i) ==
    /\ entry[i].start = "running" /\ tracer # "legacy"
    /\ \E s \in {"failed"} \cup (IF tracer = "native" /\ entry[i].abort THEN {"cancelled"} ELSE {}) :
          entry' = [entry EXCEPT ![i].start = s]
    /\ UNCHANGED <<tracer, current, run, caller, ownerLoop, shut>>

\* The worker of a legacy manager enters it and publishes the handle.
LegacyEnters(i) ==
    /\ entry[i].start = "running" /\ tracer = "legacy" /\ entry[i].span = "none"
    /\ \/ entry' = [entry EXCEPT ![i].span = "open", ![i].known = ownerLoop]
       \/ entry' = [entry EXCEPT ![i].start = "failed"]
    /\ UNCHANGED <<tracer, current, run, caller, ownerLoop, shut>>

\* Told to, or woken by the shutdown, the worker leaves the manager, which ends
\* the span; after a shutdown it forgets an entry that nobody finalizes.
LegacyExits(i) ==
    /\ entry[i].start = "running" /\ entry[i].span = "open" /\ tracer = "legacy"
    /\ entry[i].signal \/ shut
    /\ LET way == IF entry[i].abort \/ ~entry[i].terminal THEN "abort" ELSE "finish"
       IN  entry' = [entry EXCEPT ![i].start = "done", ![i].span = way, ![i].ends = @ + 1,
                                  ![i].signal = TRUE]
    /\ IF ~entry[i].signal /\ entry[i].finalizer = "none" THEN Pop(i) ELSE UNCHANGED current
    /\ UNCHANGED <<tracer, run, caller, ownerLoop, shut>>

-----------------------------------------------------------------------------
(* The finalizer task.                                                         *)

\* The handle is there: what was asked for until now decides.
FinalizerReads(i) ==
    /\ ownerLoop
    /\ entry[i].finalizer = "waiting"
    /\ IF tracer = "legacy"
       THEN /\ entry[i].known
            /\ entry' = [entry EXCEPT ![i].signal = TRUE, ![i].finalizer = "ending"]
       ELSE /\ entry[i].start = "done"
            /\ entry' = [entry EXCEPT ![i].known = TRUE, ![i].finalizer = "ending",
                                      ![i].how = IF entry[i].abort THEN "abort" ELSE "finish"]
    /\ UNCHANGED <<tracer, current, run, caller, ownerLoop, shut>>

\* The span is ended (a legacy span by its own worker), and the entry dropped.
FinalizerEnds(i) ==
    /\ ownerLoop
    /\ entry[i].finalizer = "ending"
    /\ IF tracer = "legacy"
       THEN entry[i].start = "done" /\ entry' = [entry EXCEPT ![i].finalizer = "over"]
       ELSE entry' = [entry EXCEPT ![i].finalizer = "over", ![i].span = entry[i].how,
                                   ![i].ends = @ + 1]
    /\ Pop(i)
    /\ UNCHANGED <<tracer, run, caller, ownerLoop, shut>>

\* There is no span: the start failed or was cancelled.
FinalizerGivesUp(i) ==
    /\ ownerLoop
    /\ entry[i].finalizer = "waiting"
    /\ entry[i].start \in {"failed", "cancelled"}
    /\ entry' = [entry EXCEPT ![i].finalizer = "over"]
    /\ Pop(i)
    /\ UNCHANGED <<tracer, run, caller, ownerLoop, shut>>

-----------------------------------------------------------------------------
(* The observations of one execution.                                          *)

Free == CHOOSE i \in Entries : entry[i].start = "none"

\* process: the entry is listed before the start task can suspend.
AdmitSpan ==
    /\ run.phase \in {"before", "after"} /\ run.at = "idle"
    /\ IF current # 0
       THEN run' = [run EXCEPT !.at = "handle", !.on = current] /\ UNCHANGED <<current, entry>>
       ELSE /\ run' = [run EXCEPT !.at = "handle", !.on = Free]
            /\ current' = Free
            /\ entry' = [entry EXCEPT ![Free].start = "running"]
    /\ UNCHANGED <<tracer, caller, ownerLoop, shut>>

\* The observation is over, whatever became of it: the tool follows the first
\* one, unless the caller wanted no more than a preview.
Observed ==
    run' \in IF run.phase = "before"
             THEN {[phase |-> p, at |-> "idle", on |-> 0] : p \in {"tool", "left"}}
             ELSE {[phase |-> "over", at |-> "idle", on |-> 0]}

HandleKnown(i) == IF tracer = "legacy" THEN entry[i].known ELSE entry[i].start = "done"

\* The handle is there: the first observation goes on to set attributes.
HandleArrives ==
    /\ run.phase = "before" /\ run.at = "handle"
    /\ HandleKnown(run.on)
    /\ entry' = [entry EXCEPT ![run.on].known = TRUE]
    /\ run' = [run EXCEPT !.at = "attributes"]
    /\ UNCHANGED <<tracer, current, caller, ownerLoop, shut>>

AttributesSet ==
    /\ run.at = "attributes"
    /\ Observed
    /\ UNCHANGED <<tracer, current, entry, caller, ownerLoop, shut>>

\* The second one calls afinish, which looks up the entry again.
AFinish ==
    /\ run.phase = "after" /\ run.at = "handle"
    /\ HandleKnown(run.on)
    /\ IF current = 0
       THEN Observed /\ UNCHANGED entry
       ELSE /\ RequestTerminal(current, "finish")
            /\ run' = [run EXCEPT !.at = "finalizer", !.on = current]
    /\ UNCHANGED <<tracer, current, caller, ownerLoop, shut>>

FinalizerAwaited ==
    /\ run.at = "finalizer"
    /\ entry[run.on].finalizer = "over"
    /\ Observed
    /\ UNCHANGED <<tracer, current, entry, caller, ownerLoop, shut>>

\* The start task raised: the entry is dropped unless a finalizer will do it.
StartFailureSeen ==
    /\ run.at = "handle"
    /\ entry[run.on].start \in {"failed", "cancelled"}
    /\ IF tracer # "legacy" /\ entry[run.on].start = "failed" /\ entry[run.on].finalizer = "none"
       THEN Pop(run.on) /\ UNCHANGED entry
       ELSE RequestTerminal(run.on, "abort") /\ UNCHANGED current
    /\ Observed
    /\ UNCHANGED <<tracer, caller, ownerLoop, shut>>

\* The observation times out, is cancelled or fails.
ObservationStops ==
    /\ run.at \in {"handle", "attributes", "finalizer"}
    /\ RequestTerminal(run.on, "abort")
    /\ Observed
    /\ UNCHANGED <<tracer, current, caller, ownerLoop, shut>>

\* After the tool the terminal context is observed; a cancelled execution aborts
\* the span first.
ExecutionEnds ==
    /\ run.phase = "tool"
    /\ run' = [run EXCEPT !.phase = "after"]
    /\ IF current # 0
       THEN RequestTerminal(current, "abort") \/ UNCHANGED entry
       ELSE UNCHANGED entry
    /\ UNCHANGED <<tracer, current, caller, ownerLoop, shut>>

-----------------------------------------------------------------------------
(* finish and abort from other threads.                                        *)

Call(c) ==
    /\ caller[c].at = "idle"
    /\ current # 0
    /\ \E way \in Ways :
          caller' = [caller EXCEPT ![c] = [at |-> "called", on |-> current, way |-> way]]
    /\ UNCHANGED <<tracer, current, entry, run, ownerLoop, shut>>

CallEnds(c) == caller' = [caller EXCEPT ![c].at = "over"]

\* The request is posted to the owner loop; a legacy span of a stopped task is
\* dropped by the synchronous call and left alone otherwise.
SubmitToOwner(c) ==
    /\ caller[c].at = "called" /\ ownerLoop
    /\ \/ caller' = [caller EXCEPT ![c].at = "posted"] /\ UNCHANGED current
       \/ /\ tracer = "legacy"
          /\ CallEnds(c)
          /\ IF entry[caller[c].on].start \in {"done", "failed", "cancelled"}
             THEN Pop(caller[c].on) ELSE UNCHANGED current
    /\ UNCHANGED <<tracer, entry, run, ownerLoop, shut>>

CompleteOnOwner(c) ==
    /\ caller[c].at = "posted" /\ ownerLoop
    /\ RequestTerminal(caller[c].on, caller[c].way)
    /\ CallEnds(c)
    /\ UNCHANGED <<tracer, current, run, ownerLoop, shut>>

\* Mutant: the direct path does not reserve the entry.
FinalizeDirectUnreserved(c) ==
    /\ caller[c].at = "called" /\ ~ownerLoop /\ tracer # "legacy"
    /\ current = caller[c].on
    /\ entry' = [entry EXCEPT ![caller[c].on] = Asked(caller[c].on, caller[c].way)]
    /\ caller' = [caller EXCEPT ![c].at = "ending"]
    /\ UNCHANGED <<tracer, current, run, ownerLoop, shut>>

\* With the owner loop closed the caller reserves the entry and ends the span
\* itself; a legacy span is only forgotten, its worker has been told.
FinalizeDirect(c) ==
    /\ caller[c].at = "called" /\ ~ownerLoop
    /\ LET i == caller[c].on
           mine == current = i /\ entry[i].finalizer = "none" /\ ~entry[i].direct
       IN  IF tracer = "legacy"
           THEN /\ CallEnds(c)
                /\ IF entry[i].start # "running" THEN Pop(i) ELSE UNCHANGED current
                /\ UNCHANGED entry
           ELSE IF mine /\ entry[i].known
                THEN /\ entry' = [entry EXCEPT ![i] = [Asked(i, caller[c].way) EXCEPT !.direct = TRUE]]
                     /\ caller' = [caller EXCEPT ![c].at = "ending"]
                     /\ UNCHANGED current
                ELSE /\ CallEnds(c)
                     /\ IF mine THEN Pop(i) ELSE UNCHANGED current
                     /\ UNCHANGED entry
    /\ UNCHANGED <<tracer, run, ownerLoop, shut>>

DirectEnds(c) ==
    /\ caller[c].at = "ending"
    /\ LET i == caller[c].on
       IN  /\ entry' = [entry EXCEPT ![i].ends = @ + 1,
                                     ![i].span = IF entry[i].abort THEN "abort" ELSE "finish"]
           /\ Pop(i)
    /\ CallEnds(c)
    /\ UNCHANGED <<tracer, run, ownerLoop, shut>>

-----------------------------------------------------------------------------
(* The end of the owner loop and of the runtime.                               *)

\* Both come after the execution and its cleanup tasks, which aclose awaits.
Drained ==
    /\ run.phase \in {"over", "left"}
    /\ \A i \in Entries : entry[i].finalizer \in {"none", "over"}

\* Mutant: the cancelled start task of a legacy span does not wake its worker.
CloseOwnerLoopSilent ==
    /\ ownerLoop /\ Drained
    /\ ownerLoop' = FALSE
    /\ caller' = [c \in Callers |->
                     IF caller[c].at = "posted" THEN [caller[c] EXCEPT !.at = "over"] ELSE caller[c]]
    /\ UNCHANGED <<tracer, current, entry, run, shut>>

\* Posted requests are never run; the start task of a legacy span is cancelled,
\* which tells its worker.
CloseOwnerLoop ==
    /\ ownerLoop /\ Drained
    /\ ownerLoop' = FALSE
    /\ caller' = [c \in Callers |->
                     IF caller[c].at = "posted" THEN [caller[c] EXCEPT !.at = "over"] ELSE caller[c]]
    /\ entry' = [i \in Entries |->
                    IF tracer = "legacy" /\ entry[i].start = "running"
                    THEN [entry[i] EXCEPT !.signal = TRUE, !.abort = TRUE] ELSE entry[i]]
    /\ UNCHANGED <<tracer, current, run, shut>>

ShutDispatcher ==
    /\ ~shut /\ Drained
    /\ shut' = TRUE
    /\ UNCHANGED <<tracer, current, entry, run, caller, ownerLoop>>

-----------------------------------------------------------------------------

SpanTask(i) ==
    \/ StartReturns(i) \/ StartFails(i) \/ LegacyEnters(i) \/ LegacyExits(i)
    \/ FinalizerReads(i) \/ FinalizerEnds(i) \/ FinalizerGivesUp(i)

Observation ==
    \/ AdmitSpan \/ HandleArrives \/ AttributesSet \/ AFinish \/ FinalizerAwaited
    \/ StartFailureSeen \/ ObservationStops \/ ExecutionEnds

SpanCall(c) ==
    Call(c) \/ SubmitToOwner(c) \/ CompleteOnOwner(c) \/ FinalizeDirect(c) \/ DirectEnds(c)

SpanNext ==
    \/ \E i \in Entries : SpanTask(i)
    \/ Observation
    \/ \E c \in Callers : SpanCall(c)
    \/ CloseOwnerLoop \/ ShutDispatcher

SpanSpec == SpanInit /\ [][SpanNext]_spanVars

\* The owner loop keeps running its tasks, an execution that has begun goes on
\* and its observations end within their stage timeout, and a tracer's calls
\* return.
SpanFairness ==
    /\ \A i \in Entries : WF_spanVars(SpanTask(i))
    /\ WF_spanVars((run.phase # "before" \/ run.at # "idle") /\ Observation)
    /\ \A c \in Callers : WF_spanVars(DirectEnds(c))

-----------------------------------------------------------------------------

\* No span is ended twice, by whatever mixture of the observations' finalizer,
\* aborts, threads and the worker of a legacy manager; and cancellation is more
\* authoritative than success: a span that was first asked to abort is not
\* exported as finished.
SpanEndsOnceAsAsked ==
    \A i \in Entries :
        /\ entry[i].ends <= 1
        /\ entry[i].first = "abort" => entry[i].span # "finish"

\* Every span is ended, unless its execution was only a preview with observers
\* that nobody finishes; even then a legacy span ends with its loop or its
\* runtime.
EverySpanEnds ==
    []<>(\A i \in Entries :
            \/ entry[i].span # "open"
            \/ run.phase = "left" /\ ~(tracer = "legacy" /\ (shut \/ ~ownerLoop)))
=============================================================================
