----------------------------- MODULE MCLifecycle -----------------------------
(***************************************************************************)
(* What outlives an execution, each on its own: a behaviour is one of the  *)
(* shutdown of a runtime, one of the spans of a trace or one of the        *)
(* delivery of runtime events, which share no state.                       *)
(***************************************************************************)
EXTENDS RuntimeLifecycle, SpanLifecycle, RuntimeEvents

VARIABLE part

allVars == <<part, lifecycleVars, spanVars, eventVars>>

PartInit ==
    /\ part \in {"runtime", "spans", "events"}
    /\ LifecycleInit /\ SpanInit /\ EventInit
    /\ part # "spans" => tracer = "sync"

PartNext ==
    /\ UNCHANGED part
    /\ \/ part = "runtime" /\ LifecycleNext /\ UNCHANGED <<spanVars, eventVars>>
       \/ part = "spans" /\ SpanNext /\ UNCHANGED <<lifecycleVars, eventVars>>
       \/ part = "events" /\ EventNext /\ UNCHANGED <<lifecycleVars, spanVars>>

\* A part that does not run stays in its first state, where no fair action is
\* enabled.
PartSpec ==
    /\ PartInit /\ [][PartNext]_allVars
    /\ LifecycleFairness /\ SpanFairness
==============================================================================
