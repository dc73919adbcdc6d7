----------------------------- MODULE MCGovernance -----------------------------
(***************************************************************************)
(* What stands between a request and its tool, part by part: a behaviour is *)
(* one of an approval and the executions that want it, of one call in the   *)
(* pipeline, of a runtime being composed and sealed, or of the replay       *)
(* protection of identities.  They share no state.                          *)
(***************************************************************************)
EXTENDS Approvals, Pipeline, Sealing, IdentityReplay

CONSTANTS e1, e2, e3, q1, c1, c2, n1, n2, h1, h2, v1, v2, v3

\* Three executions given one request id, one of them for other content.
SameRequest == [e \in Executions |-> q1]
OneStranger == [e \in Executions |-> IF e = e3 THEN c2 ELSE c1]

MW(kind, critical, replayable) ==
    [kind |-> kind, critical |-> critical, replayable |-> replayable]
FivePlaces == <<MW("observing", TRUE, TRUE), MW("gating", FALSE, TRUE),
                MW("execution", FALSE, TRUE), MW("gating", FALSE, FALSE),
                MW("observing", FALSE, TRUE)>>

\* Two tools compete for one name, one of them with a contract for another tool.
Tool(name, kind, contract, approval, provider) ==
    [name |-> name, mode |-> kind, contract |-> contract, approval |-> approval,
     provider |-> provider]
SomeTools == {Tool("pay", "idempotent", "fits", TRUE, TRUE),
              Tool("pay", "mutating", "foreign", FALSE, FALSE),
              Tool("look", "read_only", "none", FALSE, FALSE)}

Sink(able) == [is |-> "audit", able |-> able, closed |-> TRUE, identity |-> "none"]
Desk == [is |-> "decision", able |-> {"durable", "protected"}, closed |-> TRUE,
         identity |-> "none"]
Rules(version) == [is |-> "policy", able |-> {}, closed |-> TRUE, identity |-> version]
SomePipelines == {<<Sink({"durable", "protected", "idempotent"}), Rules("v1"), Desk>>,
                  <<Sink({"durable", "protected"}), Rules("v2")>>}
SomeProfiles == {[digest |-> TRUE, policy |-> "v1", precondition |-> FALSE]}

\* Two threads of one process and one of another, two envelopes in turn.
TwoHosts == [v \in Verifiers |-> IF v = v3 THEN h2 ELSE h1]
Issued == [e \in Envelopes |-> 1]
Starts == [e \in Envelopes |-> IF e = n1 THEN 1 ELSE 2]
Ends == [e \in Envelopes |-> IF e = n1 THEN 3 ELSE 4]

VARIABLE part

vars == <<part, approvalVars, pipelineVars, sealingVars, identityVars>>

\* Only the part that runs has more than one initial state.
Init ==
    /\ part \in {"approvals", "pipeline", "sealing", "identity"}
    /\ ApprovalInit /\ PipelineInit /\ SealingInit /\ IdentityInit
    /\ part # "pipeline" => mode = "run" /\ keyed /\ ctx.needs
    /\ part # "sealing" =>
        /\ profile = NoProfile /\ registry = CHOOSE r \in Registries : TRUE
        /\ parts = CHOOSE x \in Parts : TRUE
    /\ part # "identity" => durable

Next ==
    /\ UNCHANGED part
    /\ \/ /\ part = "approvals" /\ ApprovalNext
          /\ UNCHANGED <<pipelineVars, sealingVars, identityVars>>
       \/ /\ part = "pipeline" /\ PipelineNext
          /\ UNCHANGED <<approvalVars, sealingVars, identityVars>>
       \/ /\ part = "sealing" /\ SealingNext
          /\ UNCHANGED <<approvalVars, pipelineVars, identityVars>>
       \/ /\ part = "identity" /\ IdentityNext
          /\ UNCHANGED <<approvalVars, pipelineVars, sealingVars>>

Spec == Init /\ [][Next]_vars
===============================================================================
