------------------------------- MODULE Pipeline -------------------------------
(***************************************************************************)
(* One governed call from its admission to its answer: the context that is *)
(* built, the hooks and middleware it passes, the tool and the observers   *)
(* that see the end of it.  Extensions are arbitrary: a middleware may      *)
(* return any context, raise, time out, and the caller may be cancelled at  *)
(* any await.  A call runs the tool, previews the decision (apreview) or    *)
(* replays a recorded one (areplay).                                        *)
(*                                                                          *)
(* The state of stores and approvals is the subject of other modules; here  *)
(* acquiring a claim, committing an approval and settling are steps with    *)
(* the outcomes that decide where the call goes.                            *)
(***************************************************************************)
EXTENDS Integers, Sequences, FiniteSets

CONSTANTS
    Middlewares,    \* the pipeline in order of registration
    MaxTier,        \* the highest risk tier
    MaxChanges      \* bound: changes of what the action's preconditions are about

ASSUME PipelineConstants ==
    /\ MaxTier \in Nat /\ MaxChanges \in Nat
    /\ Middlewares \in Seq([kind : {"gating", "observing", "execution"},
                            critical : BOOLEAN, replayable : BOOLEAN])

Tiers == 0..MaxTier
OfKind(kind) == {i \in DOMAIN Middlewares : Middlewares[i].kind = kind}

\* own: the fields of the request itself are the ones it was created with;
\* approval: the tier a human approved, -1 for none.
Context == [status : {"pending", "allowed", "denied", "executing", "succeeded", "failed",
                      "unknown"},
            decision : {"none", "allow", "deny", "escalate"},
            tier : Tiers, needs : BOOLEAN, approval : Tiers \union {-1},
            own : BOOLEAN]

Denied(c) == c.status = "denied" \/ c.decision = "deny"
Terminal(c) == Denied(c) \/ c.status \in {"succeeded", "failed", "unknown"}

\* Contexts __post_init__ accepts: an approval comes with an allow decision.
Candidates == {c \in Context : c.approval # -1 => c.decision = "allow"}

VARIABLES
    ctx,         \* the context the call works on
    base,        \* what the caller of the pipeline or of the observers holds meanwhile
    at,          \* where the call is
    idx,         \* the next middleware of the current loop
    then,        \* what follows the observers
    mode,        \* run, preview (of all middleware or the replayable), replay
    keyed,       \* the call has an idempotency key to claim
    world,       \* what the action's preconditions are about, as a version
    bound,       \* the version the action was bound to, -1 for none
    verified,    \* the version of the executor's revalidation
    body,        \* the tool: "no", "started" or "returned"
    alarm,       \* a critical observer failed in the current run of observers
    observed,    \* the status each observer was shown in that run; "late" when the
                 \* deadline had passed and it was not called
    passed,      \* gates that let the context pass
    broken,      \* a gate or a critical observer failed before execution
    everDenied   \* the call was denied before its observers ran

pipelineVars == <<ctx, base, at, idx, then, mode, keyed, world, bound, verified, body,
                  alarm, observed, passed, broken, everDenied>>

-----------------------------------------------------------------------------
(* Contexts.                                                               *)

WithDeny(c) == [c EXCEPT !.decision = "deny", !.status = "denied", !.approval = -1]

GovernanceState(c) == <<c.tier, c.needs, c.approval, c.status, c.decision>>

\* Mutant: the risk tier and the need for an approval are not compared.
TransitionUnchecked(p, c, kind) ==
    /\ c.own = p.own
    /\ Denied(p) => Denied(c)
    /\ IF kind \in {"observing", "execution"}
       THEN GovernanceState(c) = GovernanceState(p)
       ELSE /\ c.status \in {p.status, "denied"}
            /\ p.decision # "none" => c.decision # "none"

ValidateMiddlewareTransition(p, c, kind) ==
    /\ c.own = p.own
    /\ Denied(p) => Denied(c)
    /\ p.needs => c.needs
    /\ c.tier >= p.tier
    /\ IF kind \in {"observing", "execution"}
       THEN GovernanceState(c) = GovernanceState(p)
       ELSE /\ c.status \in {p.status, "denied"}
            /\ p.decision # "none" => c.decision # "none"

\* Mutant: any approval will do, whatever tier it was given for.
HasApproval(c) == c.approval # -1

\* _has_bound_approval: the approval is for the tier the context has now.
HasBoundApproval(c) == c.approval = c.tier

EnforceRequiredApproval(c) ==
    IF c.needs /\ ~Denied(c) /\ ~HasBoundApproval(c) THEN WithDeny(c) ELSE c

\* _emit_hook: a hook may not touch the state modelled here; where
\* allow_critical is set (before the pipeline, a middleware, an observer and the
\* execution), a critical one that fails, or one whose time is up, denies.
EmitHook(c, allowCritical) == {c} \union (IF allowCritical THEN {WithDeny(c)} ELSE {})

\* Mutant: the status of a denied context is overwritten.
FailedAlways(c, uncertain) ==
    [c EXCEPT !.status = IF uncertain THEN "unknown" ELSE "failed"]

FailedContext(c, uncertain) ==
    IF Denied(c) THEN c ELSE [c EXCEPT !.status = IF uncertain THEN "unknown" ELSE "failed"]

Goto(c, place) ==
    /\ ctx' = c
    /\ at' = place
    /\ everDenied' = (everDenied \/ Denied(c))

Loop(c, place, i) == Goto(c, place) /\ idx' = i

Unseen == [i \in OfKind("observing") |-> "none"]

\* _run_observers(post=True), and what its caller does next.
Observe(c, next) ==
    /\ Loop(c, "observe", 1)
    /\ base' = c
    /\ then' = next
    /\ alarm' = FALSE
    /\ observed' = Unseen

\* An exception that is neither a denial nor the end of a cancelled call.
\* Whether the outcome counts as uncertain is the subject of GovernedExecution.
Fails(c) == \E uncertain \in BOOLEAN : Observe(FailedContext(c, uncertain), "error")

shown == <<then, alarm, observed>>
calm == <<base, shown>>
fixed == <<mode, keyed>>
binding == <<bound, verified>>
record == <<passed, broken>>

-----------------------------------------------------------------------------
(* Admission.                                                              *)

PipelineInit ==
    /\ ctx \in [status : {"pending"}, decision : {"none"}, tier : {0}, needs : BOOLEAN,
                approval : {-1}, own : {TRUE}]
    /\ base = ctx
    /\ at = "new" /\ idx = 1 /\ then = "none" /\ observed = Unseen
    /\ mode \in {"run", "preview", "preview all", "replay"} /\ keyed \in BOOLEAN
    /\ world = 0 /\ bound = -1 /\ verified = -1
    /\ body = "no" /\ alarm = FALSE
    /\ passed = {} /\ broken = FALSE /\ everDenied = FALSE

\* _create_context: an identity that cannot be verified denies the request; a
\* replay starts from the recorded request with its governance state cleared.
CreateContext ==
    /\ at = "new"
    /\ \E c \in {ctx} \union (IF mode = "replay" THEN {} ELSE {WithDeny(ctx)}) :
            Goto(c, "prepare")
    /\ UNCHANGED <<idx, calm, fixed, world, binding, body, record>>

\* _prepare_parameters, _bind_action and _enforce_idempotency_key.
PrepareAction ==
    /\ at = "prepare"
    /\ \/ \* The parameters are refused, or their time is up.
          /\ \/ mode = "replay" /\ Goto(WithDeny(ctx), "over") /\ UNCHANGED <<idx, calm>>
             \/ mode = "run" /\ Denied(ctx) /\ Observe(ctx, "deny")
             \/ mode # "replay" /\ ~(mode = "run" /\ Denied(ctx)) /\ Fails(ctx)
          /\ UNCHANGED bound
       \/ \* The action cannot be bound.
          /\ mode # "replay" /\ ~Denied(ctx)
          /\ Observe(WithDeny(ctx), "deny")
          /\ UNCHANGED bound
       \/ \* A tool without a contract has nothing bound.
          /\ bound' \in IF mode = "replay" \/ Denied(ctx) THEN {-1} ELSE {-1, world}
          /\ \E c \in {ctx, WithDeny(ctx)} :
                \/ ~Denied(c) /\ mode = "replay" /\ Loop(c, "stage", 1) /\ UNCHANGED calm
                \/ ~Denied(c) /\ mode # "replay" /\ Goto(c, "before") /\ UNCHANGED <<idx, calm>>
                \/ Denied(c) /\ mode = "replay" /\ Goto(c, "over") /\ UNCHANGED <<idx, calm>>
                \/ Denied(c) /\ mode # "replay" /\ Observe(c, "deny")
    /\ UNCHANGED <<fixed, world, verified, body, record>>

-----------------------------------------------------------------------------
(* The pipeline before execution.                                          *)

BeforePipeline ==
    /\ at = "before"
    /\ \E c \in EmitHook(ctx, TRUE) :
        /\ base' = c
        /\ IF Denied(c) THEN Goto(c, "decided") /\ UNCHANGED idx ELSE Loop(c, "stage", 1)
    /\ UNCHANGED <<shown, fixed, world, binding, body, record>>

Include(m, c) ==
    /\ m.kind # "execution"
    /\ mode \in {"run", "preview all"} \/ m.replayable
    /\ ~(Denied(c) /\ m.kind = "gating")

\* What a stage that raised, timed out or broke a boundary leaves.
FailedStage(m, c) == IF m.kind = "gating" \/ m.critical THEN WithDeny(c) ELSE c

\* One middleware of _run_pre_pipeline: its before-hook, the middleware, the
\* check of what it returned.
RunStage ==
    /\ at = "stage" /\ idx <= Len(Middlewares)
    /\ LET m == Middlewares[idx]
       IN \/ /\ ~Include(m, ctx)
             /\ Loop(ctx, "stage", idx + 1)
             /\ UNCHANGED record
          \/ /\ Include(m, ctx)
             /\ \E c \in EmitHook(ctx, TRUE) :
                \/ \* Denied by its hook, a gate is not asked.
                   /\ Denied(c) /\ m.kind = "gating"
                   /\ Loop(c, "stage", idx + 1)
                   /\ UNCHANGED record
                \/ /\ ~(Denied(c) /\ m.kind = "gating")
                   /\ \/ \E d \in Candidates :
                            /\ ValidateMiddlewareTransition(c, d, m.kind)
                            /\ Loop(d, "stage", idx + 1)
                            /\ passed' = IF m.kind = "gating" /\ ~Denied(d)
                                         THEN passed \union {idx} ELSE passed
                            /\ UNCHANGED broken
                      \/ /\ Loop(FailedStage(m, c), "stage", idx + 1)
                         /\ broken' = (broken \/ m.kind = "gating" \/ m.critical)
                         /\ UNCHANGED passed
    /\ UNCHANGED <<calm, fixed, world, binding, body>>

\* The end of the pipeline and the hook after it.
AfterPipeline ==
    /\ at = "stage" /\ idx > Len(Middlewares)
    /\ LET c == IF Denied(ctx) THEN ctx ELSE [ctx EXCEPT !.status = "allowed"]
       IN IF mode = "replay"
          THEN Goto(EnforceRequiredApproval(c), "over")
          ELSE \E d \in (IF Denied(c) THEN {c} ELSE EmitHook(c, TRUE)) : Goto(d, "decided")
    /\ UNCHANGED <<idx, calm, fixed, world, binding, body, record>>

\* The approval is enforced, execution announced, and enforced again.
AnnounceExecution ==
    /\ at = "decided"
    /\ LET c == EnforceRequiredApproval(ctx)
           executing == [c EXCEPT !.status = "executing",
                                  !.decision = IF @ = "none" THEN "allow" ELSE @]
       IN \/ mode # "run" /\ Goto(c, "over") /\ UNCHANGED <<idx, calm>>
          \/ mode = "run" /\ Denied(c) /\ Observe(c, "deny_early")
          \/ /\ mode = "run" /\ ~Denied(c)
             /\ \E d \in EmitHook(executing, TRUE) :
                    IF Denied(EnforceRequiredApproval(d))
                    THEN Observe(EnforceRequiredApproval(d), "deny_early")
                    ELSE Goto(d, "claim") /\ UNCHANGED <<idx, calm>>
    /\ UNCHANGED <<fixed, world, binding, body, record>>

-----------------------------------------------------------------------------
(* Execution.                                                              *)

Cached(c) == [c EXCEPT !.status = "succeeded"]

\* _commit_approvals and the check after it: a commit that is refused leaves
\* the context without its approval or denies it.
CommitApprovals(c) ==
    {EnforceRequiredApproval(d) : d \in {c, [c EXCEPT !.approval = -1], WithDeny(c)}}

\* The claim: none is needed, it is owned, another execution's result is
\* reused, the key is in conflict, or the operation fails.
AcquireClaim ==
    /\ at = "claim"
    /\ \/ \E c \in CommitApprovals(ctx) :
            IF Denied(c)
            THEN Observe(c, "deny_again")
            ELSE Goto(c, "execute") /\ UNCHANGED <<idx, calm>>
       \/ keyed /\ \E c \in CommitApprovals(ctx) :
            IF Denied(c) THEN Observe(c, "deny_again") ELSE Observe(Cached(c), "reuse")
       \/ keyed /\ Observe(WithDeny(ctx), "deny_again")
       \/ Fails(ctx)
    /\ UNCHANGED <<fixed, world, binding, body, record>>

\* What an execution middleware may do instead of calling the next one and with
\* whatever came of it, a denial included: call it again, answer, raise, or
\* raise an ExecutionControlError or a GovernanceDenied, whose handlers go on
\* with the context the exception carries.  Contexts it returns are compared
\* with the one it was given.
MiddlewareActs ==
    /\ OfKind("execution") # {}
    /\ \/ \E place \in {"execute", "leave"} : Goto(ctx, place) /\ UNCHANGED <<idx, calm>>
       \/ Fails(ctx)
       \/ \E c \in Candidates : Observe(c, "carried")

\* execute_tool is given some context; or the time is up before that.
EnterExecution ==
    /\ at = "execute"
    /\ \/ \E c \in Candidates :
            /\ UNCHANGED <<idx, calm>>
            /\ IF ValidateMiddlewareTransition(ctx, c, "execution")
                    /\ ~Denied(EnforceRequiredApproval(c))
               THEN Goto(c, "revalidate") ELSE Goto(ctx, "refused")
       \/ Fails(ctx)
       \/ MiddlewareActs
    /\ UNCHANGED <<fixed, world, binding, body, record>>

\* _revalidate_bound_action builds the action again, which may fail.
RevalidateBoundAction ==
    /\ at = "revalidate"
    /\ \/ bound \in {-1, world} /\ verified' = bound /\ Goto(ctx, "body")
       \/ bound # -1 /\ Goto(ctx, "refused") /\ UNCHANGED verified
    /\ UNCHANGED <<idx, calm, fixed, world, bound, body, record>>

\* The denial execute_tool raised goes up through the execution middleware.
RefuseExecution ==
    /\ at = "refused"
    /\ Observe(WithDeny(ctx), "deny") \/ MiddlewareActs
    /\ UNCHANGED <<fixed, world, binding, body, record>>

StartTool ==
    /\ at = "body"
    /\ body' = "started"
    /\ Goto(ctx, "tool")
    /\ UNCHANGED <<idx, calm, fixed, world, binding, record>>

\* The body returns; or it raises or is no longer waited for.
EndTool ==
    /\ at = "tool"
    /\ \/ body' = "returned" /\ Goto(ctx, "leave") /\ UNCHANGED <<idx, calm>>
       \/ (Fails(ctx) \/ MiddlewareActs) /\ UNCHANGED body
    /\ UNCHANGED <<fixed, world, binding, record>>

\* The way back through the execution middleware and the settlement.
LeaveExecution ==
    /\ at = "leave"
    /\ \/ Observe([ctx EXCEPT !.status = "succeeded"], "result")
       \/ Fails(ctx)
       \/ MiddlewareActs
    /\ UNCHANGED <<fixed, world, binding, body, record>>

-----------------------------------------------------------------------------
(* The observers and the end.                                              *)

\* One observer: its before-hook, which may deny what the earlier ones were
\* shown otherwise, then the observer, unless the deadline has passed.
ShowOutcome(i) ==
    \E c \in EmitHook(ctx, TRUE), late, failed \in BOOLEAN :
        /\ late => failed /\ then # "cancel"
        /\ (\E j \in DOMAIN observed : observed[j] = "late") => late
        /\ ctx' = c
        /\ observed' = [observed EXCEPT ![i] = IF late THEN "late" ELSE c.status]
        /\ alarm' = (alarm \/ (failed /\ Middlewares[i].critical))

\* Mutant: the first critical failure ends the loop.
RunObserverStops ==
    /\ at = "observe" /\ idx <= Len(Middlewares)
    /\ IF idx \in OfKind("observing")
       THEN ShowOutcome(idx) ELSE UNCHANGED <<ctx, observed, alarm>>
    /\ idx' = IF alarm' THEN Len(Middlewares) + 1 ELSE idx + 1
    /\ UNCHANGED <<base, at, then, fixed, world, binding, body, record, everDenied>>

RunObserver ==
    /\ at = "observe" /\ idx <= Len(Middlewares)
    /\ IF idx \in OfKind("observing")
       THEN ShowOutcome(idx) ELSE UNCHANGED <<ctx, observed, alarm>>
    /\ idx' = idx + 1
    /\ UNCHANGED <<base, at, then, fixed, world, binding, body, record, everDenied>>

\* The context an AuditDeliveryError carries.
AuditFailed(c) ==
    IF ~Denied(c) /\ c.status \in {"executing", "succeeded", "failed", "unknown"}
    THEN [c EXCEPT !.status = "unknown"] ELSE c

\* A critical failure is raised in place of the answer.  Inside the second try
\* block it is one more exception, whose handler goes on with the context from
\* before the observers, and a denial there is observed twice; a cancelled call
\* keeps that context too.
EndObservers ==
    /\ at = "observe" /\ idx > Len(Middlewares)
    /\ \/ then \in {"deny_again", "reuse"} /\ alarm /\ Fails(base)
       \/ then = "deny_again" /\ ~alarm /\ Observe(ctx, "deny")
       \/ /\ then # "deny_again" /\ ~(then = "reuse" /\ alarm)
          /\ ctx' = IF ~alarm THEN ctx ELSE IF then = "cancel" THEN base ELSE AuditFailed(ctx)
          /\ at' = "over"
          /\ UNCHANGED <<idx, calm, everDenied>>
    /\ UNCHANGED <<fixed, world, binding, body, record>>

\* The caller is cancelled.  In the pipeline and in execution the call ends in
\* _handle_cancellation with the context its caller holds; in a handler, and
\* during admission, the cancellation goes straight out.
Cancelled ==
    /\ at \notin {"over", "new"} /\ then # "cancel" /\ mode # "replay"
    /\ \/ /\ \/ at \in {"before", "stage", "decided", "claim", "execute", "revalidate",
                        "refused", "body", "tool", "leave"}
             \/ at = "observe" /\ then \in {"deny_early", "deny_again", "reuse", "result"}
          /\ Observe(FailedContext(IF at \in {"stage", "observe"} THEN base ELSE ctx,
                                   body # "no" \/ then = "result"), "cancel")
       \/ /\ at = "prepare" \/ (at = "observe" /\ then \in {"deny", "error", "carried"})
          /\ Goto(ctx, "over") /\ then' = "lost" /\ UNCHANGED <<idx, base, alarm, observed>>
    /\ UNCHANGED <<fixed, world, binding, body, record>>

\* What the action's preconditions are about changes.
WorldChanges ==
    /\ world < MaxChanges
    /\ world' = world + 1
    /\ UNCHANGED <<ctx, at, idx, calm, fixed, binding, body, record, everDenied>>

PipelineNext ==
    \/ CreateContext \/ PrepareAction \/ BeforePipeline \/ RunStage \/ AfterPipeline
    \/ AnnounceExecution \/ AcquireClaim \/ EnterExecution \/ RevalidateBoundAction
    \/ RefuseExecution \/ StartTool \/ EndTool \/ LeaveExecution \/ RunObserver \/ EndObservers \/ Cancelled
    \/ WorldChanges

PipelineSpec == PipelineInit /\ [][PipelineNext]_pipelineVars

-----------------------------------------------------------------------------
(* Properties.                                                             *)

\* The tool runs only for a call whose context passed every gate, carries the
\* approval it needs for the risk tier it has by then, and whose action, bound
\* at admission, was found unchanged by the executor; never after a gate or a
\* critical observer raised, timed out or returned a context it may not return;
\* and never in a preview or a replay (runtime.py:1529-1560, 1688-1712, 3390,
\* 4238-4262).
ToolIsGoverned ==
    body # "no" =>
        /\ mode = "run" /\ ~broken
        /\ passed = OfKind("gating")
        /\ at = "tool" => /\ ctx.needs => ctx.approval = ctx.tier
                          /\ ctx.own
                          /\ verified = bound

\* Once the call's context is denied nothing starts the tool and no further gate
\* lets it pass; and a denied call is not reported as failed or unknown by
\* whatever goes wrong after it, unless its caller is cancelled.  A denial raised
\* inside execute_tool is the call's only when it has left the execution
\* middleware, which may catch it and call again; and a denial that a hook adds
\* while the observers run is no decision of the call (context.py:219,
\* runtime.py:1758, 4405, 4601).
DenialIsFinal ==
    [][everDenied =>
        /\ body' = body
        /\ passed' = passed
        /\ ctx.status = "denied" /\ then' # "cancel" => ctx'.status = "denied"]_pipelineVars

\* No extension changes what the request is, lowers its risk, lifts its need
\* for an approval or takes back a decision, by any sequence of contexts it
\* returns.  The context that an execution middleware's own ExecutionControlError
\* or GovernanceDenied carries is not compared with anything, but it is only
\* reported: no tool is started and no gate passed with it
\* (context_boundaries.py:15, hooks.py:61, runtime.py:1792, 1825).
OnlyTightens ==
    [][/\ ~(then' = "carried" /\ then # "carried") =>
            /\ ctx'.own = ctx.own
            /\ then' # "cancel" =>
                /\ ctx'.tier >= ctx.tier
                /\ ctx.needs => ctx'.needs
                /\ ctx.decision # "none" => ctx'.decision # "none"
       /\ then = "carried" => body' = body /\ passed' = passed]_pipelineVars

\* A call that ends with an answer has gone to every observer with its outcome,
\* and one that was not called, because the deadline had passed, is not passed
\* over when it is critical: the answer is then an AuditDeliveryError.  The
\* outcome an observer was shown is the one answered, unless a hook of a later
\* observer denied the call or a critical observer failed.  Only a cancellation
\* during admission or in a handler escapes the observers
\* (runtime.py:4391-4457).
EveryEndIsObserved ==
    at = "over" /\ mode = "run" /\ then # "lost" =>
        /\ then # "carried" => Terminal(ctx)
        /\ \A i \in OfKind("observing") :
            /\ observed[i] # "none"
            /\ observed[i] = "late" => then # "cancel" /\ (Middlewares[i].critical => alarm)
            /\ observed[i] \notin {"late", ctx.status} => Denied(ctx) \/ alarm
=============================================================================
