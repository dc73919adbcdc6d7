-------------------------------- MODULE Sealing --------------------------------
(***************************************************************************)
(* Strict production sealing: a runtime is composed by several threads, and *)
(* one of them seals it once its tools and adapters meet the profile.       *)
(*                                                                          *)
(* Setters and sealing hold the runtime's seal lock, registration holds the *)
(* lock of the registry only; sealing takes both.  An adapter is known by   *)
(* the capabilities it declares, a contract by how it fits its tool.        *)
(***************************************************************************)
EXTENDS Integers, Sequences, FiniteSets

CONSTANTS
    Sealers,        \* threads that call seal_production
    Registries,     \* tool registries; one may serve several runtimes
    Tools,          \* tool specifications that may be registered
    Pipelines,      \* pipelines the runtime may be given
    Profiles,       \* production profiles
    NoProfile,
    MaxEdits        \* bound: changes made to the composition

Stores == {"memory", "sqlite"}
Ledgers == {"none", "memory", "sqlite", "elsewhere"}
Identities == {"none", "untrusted", "volatile", "trusted"}

ToolSpec == [name : STRING, mode : {"read_only", "mutating", "idempotent"},
             contract : {"none", "foreign", "fits", "conditional"},
             approval : BOOLEAN, provider : BOOLEAN]
Middleware == [is : {"audit", "decision", "policy"},
               able : SUBSET {"durable", "protected", "idempotent"},
               closed : BOOLEAN, identity : STRING]
Profile == [digest : BOOLEAN, policy : STRING, precondition : BOOLEAN]

ASSUME SealingConstants ==
    /\ Tools \subseteq ToolSpec
    /\ \A p \in Pipelines : p \in Seq(Middleware)
    /\ Profiles \subseteq Profile
    /\ MaxEdits \in Nat

Parts == [pipeline : Pipelines, store : Stores, ledger : Ledgers, identity : Identities,
          verified : BOOLEAN]

VARIABLES
    parts,      \* what the runtime is composed of
    registry,   \* its tool registry
    regs,       \* every registry: its tools, and whether it is sealed
    profile,    \* _production_profile
    sealed,     \* _production_sealed
    report,     \* what the accepted report was about, <<>> for no report
    sealing,    \* threads between the first look at the profile and the lock
    edits

sealingVars == <<parts, registry, regs, profile, sealed, report, sealing, edits>>

-----------------------------------------------------------------------------
(* ProductionProfile.evaluate, as the set of its reasons.                   *)

If(condition, reason) == IF condition THEN {reason} ELSE {}

ContractReasons(t, p) ==
    If(t.contract = "foreign", "contract mismatch")
    \union If(~p.digest, "identity digest key required")
    \union If(p.policy = "none", "policy identity required")
    \union If(t.contract = "conditional" /\ ~p.precondition, "precondition provider required")

ToolReadiness(t, p) ==
    IF t.contract = "none" THEN If(t.mode # "read_only", "contract required")
                           ELSE ContractReasons(t, p)

Idempotent(tools) == {t \in tools : t.mode = "idempotent"}

\* The first middleware of a kind, as a sequence of at most one.
FirstOf(pipeline, kind) ==
    LET found == {i \in DOMAIN pipeline : pipeline[i].is = kind}
    IN IF found = {} THEN <<>>
       ELSE <<pipeline[CHOOSE i \in found : \A j \in found : i <= j]>>

PolicyReasons(pipeline, p) ==
    UNION {If(~m.closed, "policy fail closed required")
           \union If(m.identity = "none", "policy middleware identity required")
           \union If(m.identity \notin {"none", p.policy}, "policy identity mismatch") :
           m \in {pipeline[i] : i \in {j \in DOMAIN pipeline : pipeline[j].is = "policy"}}}

ApprovalReasons(pipeline) ==
    LET m == FirstOf(pipeline, "decision")
    IN IF m = <<>> THEN {"approval middleware required"}
       ELSE IF "durable" \notin m[1].able THEN {"durable approval store required"}
       ELSE If("protected" \notin m[1].able, "approval integrity required")

\* Mutant: any durable ledger will do.
ReconciliationAnywhere(tools, store, ledger) ==
    IF tools = {} THEN {}
    ELSE If(ledger \notin {"sqlite", "elsewhere"}, "durable ledger required")
         \union If(\E t \in tools : ~t.provider, "reconciliation provider required")

\* DurableOperationCapability.reconciliation_durability.
ReconciliationReasons(tools, store, ledger) ==
    IF tools = {} THEN {}
    ELSE (IF ledger \notin {"sqlite", "elsewhere"} THEN {"durable ledger required"}
          ELSE IF store # "sqlite" THEN {"atomic ledger required"}
          ELSE If(ledger = "elsewhere", "colocated ledger required"))
         \union If(\E t \in tools : ~t.provider, "reconciliation provider required")

AuditReasons(pipeline, tools, ledger) ==
    LET m == FirstOf(pipeline, "audit")
    IN IF m = <<>> THEN {"audit middleware required"}
       ELSE (IF "durable" \notin m[1].able THEN {"durable audit sink required"}
             ELSE If("protected" \notin m[1].able, "audit integrity required"))
            \union If(~m[1].closed, "audit fail closed required")
            \union If(/\ tools # {} \/ ledger \in {"sqlite", "elsewhere"}
                      /\ "idempotent" \notin m[1].able,
                      "idempotent delivery required")

CallReasons(tools, x, p) ==
    If(x.identity = "none", "identity provider required")
    \union If(x.identity = "untrusted", "identity provider not trusted")
    \union If(x.identity = "volatile", "durable replay store required")
    \union If(~x.verified, "verified identity required")
    \union If((\E t \in tools : t.mode # "read_only") /\ x.store = "memory",
              "durable store required")
    \union ReconciliationReasons(Idempotent(tools), x.store, x.ledger)
    \union (IF \E t \in tools : t.contract # "none"
            THEN PolicyReasons(x.pipeline, p) ELSE {})

Evaluate(tools, x, p) ==
    (UNION {ToolReadiness(t, p) : t \in tools})
    \union (IF tools = {} THEN {} ELSE CallReasons(tools, x, p))
    \union (IF tools # {} \/ x.ledger # "none"
            THEN AuditReasons(x.pipeline, Idempotent(tools), x.ledger) ELSE {})
    \union (IF \E t \in tools : t.approval THEN ApprovalReasons(x.pipeline) ELSE {})

-----------------------------------------------------------------------------

SealingInit ==
    /\ parts \in Parts
    /\ registry \in Registries
    /\ regs = [r \in Registries |-> [tools |-> {}, sealed |-> FALSE]]
    /\ profile \in Profiles \union {NoProfile}
    /\ sealed = (profile = NoProfile)
    /\ report = <<>>
    /\ sealing = {}
    /\ edits = 0

\* _guard_sealed_mutation lets the change pass.
GuardSealedMutation == profile = NoProfile \/ ~sealed

Edit == edits < MaxEdits /\ edits' = edits + 1

\* The setters of pipeline, store, ledger, identity provider and of
\* require_verified_identity; the hooks are not part of the evaluation.
SetPart ==
    /\ Edit
    /\ GuardSealedMutation
    /\ \/ \E v \in Pipelines : parts' = [parts EXCEPT !.pipeline = v]
       \/ \E v \in Stores : parts' = [parts EXCEPT !.store = v]
       \/ \E v \in Ledgers : parts' = [parts EXCEPT !.ledger = v]
       \/ \E v \in Identities : parts' = [parts EXCEPT !.identity = v]
       \/ \E v \in BOOLEAN : parts' = [parts EXCEPT !.verified = v]
    /\ UNCHANGED <<registry, regs, profile, sealed, report, sealing>>

SetRegistry ==
    /\ Edit
    /\ GuardSealedMutation
    /\ registry' \in Registries
    /\ UNCHANGED <<parts, regs, profile, sealed, report, sealing>>

SetProfile ==
    /\ Edit
    /\ GuardSealedMutation
    /\ profile' \in Profiles \union {NoProfile}
    /\ sealed' = (profile' = NoProfile)
    /\ report' = <<>>
    /\ UNCHANGED <<parts, registry, regs, sealing>>

\* ToolRegistry.register, from any thread and through any runtime.
Register ==
    /\ Edit
    /\ \E r \in Registries, t \in Tools :
        /\ ~regs[r].sealed
        /\ \A u \in regs[r].tools : u.name # t.name
        /\ regs' = [regs EXCEPT ![r].tools = @ \union {t}]
    /\ UNCHANGED <<parts, registry, profile, sealed, report, sealing>>

\* ToolRegistry.seal, also what another runtime's sealing does to a registry
\* they share.
SealRegistry ==
    /\ Edit
    /\ \E r \in Registries : regs' = [regs EXCEPT ![r].sealed = TRUE]
    /\ UNCHANGED <<parts, registry, profile, sealed, report, sealing>>

\* seal_production looks at the profile before it has the lock.
BeginSeal(s) ==
    /\ s \notin sealing
    /\ profile # NoProfile
    /\ ~(sealed /\ report # <<>>)
    /\ sealing' = sealing \union {s}
    /\ UNCHANGED <<parts, registry, regs, profile, sealed, report, edits>>

\* Under both locks: the report of an earlier sealing is returned; without a
\* profile, with a registry already sealed or with a reason left it raises.
SealProduction(s) ==
    /\ s \in sealing
    /\ sealing' = sealing \ {s}
    /\ LET tools == regs[registry].tools
       IN IF \/ sealed /\ report # <<>>
             \/ profile = NoProfile
             \/ regs[registry].sealed
             \/ Evaluate(tools, parts, profile) # {}
          THEN UNCHANGED <<regs, sealed, report>>
          ELSE /\ regs' = [regs EXCEPT ![registry].sealed = TRUE]
               /\ report' = <<profile, parts, tools>>
               /\ sealed' = TRUE
    /\ UNCHANGED <<parts, registry, profile, edits>>

SealingNext ==
    \/ SetPart \/ SetRegistry \/ SetProfile \/ Register \/ SealRegistry
    \/ \E s \in Sealers : BeginSeal(s) \/ SealProduction(s)

SealingSpec == SealingInit /\ [][SealingNext]_sealingVars

-----------------------------------------------------------------------------
(* Properties.                                                             *)

\* What every call is admitted on stays what was evaluated: no setter, no
\* registration through whatever runtime, no second sealing and no change of
\* profile makes a sealed runtime differ from its report (runtime.py:1173,
\* registry.py:1515).
ReportIsCurrent ==
    report # <<>> =>
        /\ sealed
        /\ report = <<profile, parts, regs[registry].tools>>

\* A runtime with a profile that counts as sealed gives every tool what its
\* kind needs: a tool with effects has a contract that fits it and a durable
\* store, one whose outcome may be reconciled has its ledger in the database
\* of that store, a provider to ask and a sink that takes an envelope once,
\* one that needs an approval has a place to keep it; and every call has a
\* verified caller and an audit that fails closed (production.py:194).
SealedIsProduction ==
    profile # NoProfile /\ sealed =>
        \A t \in regs[registry].tools :
            /\ parts.identity = "trusted" /\ parts.verified
            /\ \E i \in DOMAIN parts.pipeline :
                LET m == parts.pipeline[i]
                IN /\ m.is = "audit" /\ m.closed /\ {"durable", "protected"} \subseteq m.able
                   /\ t.mode = "idempotent" => "idempotent" \in m.able
            /\ t.mode # "read_only" => /\ t.contract \in {"fits", "conditional"}
                                       /\ parts.store = "sqlite"
            /\ t.mode = "idempotent" => parts.ledger = "sqlite" /\ t.provider
            /\ t.approval => \E i \in DOMAIN parts.pipeline :
                    /\ parts.pipeline[i].is = "decision"
                    /\ {"durable", "protected"} \subseteq parts.pipeline[i].able
================================================================================
